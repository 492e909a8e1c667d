------------------------ MODULE TaskExecutionProofs --------------------------
(***************************************************************************)
(* What is proved of the executions, for every set of tasks and workers,   *)
(* every iteration bound and every findings threshold.                     *)
(*                                                                         *)
(* 1. Type correctness, for every set of faults and any number of          *)
(*    redeliveries, and what a step leaves alone.                          *)
(* 2. When no message is redelivered the safety properties hold and the    *)
(*    task lifecycle is implemented, for every set of faults.  The         *)
(*    inductive invariant IInv says that at most one worker has a task in  *)
(*    hand, and, point by point, how the row, the session's copy of it and *)
(*    the state of the workflow are related.                               *)
(* 3. When messages are delivered twice at most and only agents and the    *)
(*    result backend fail, a task at rest is settled.  The inductive       *)
(*    invariant SettlingInv says what the copies of a row may show while   *)
(*    two executions write columns past each other.                        *)
(* 4. Type correctness next to any PATCHes and PUTs of operators; and next *)
(*    to one PATCH an execution records its outcome.  The inductive        *)
(*    invariant PatchedInv is about two writers of a row: the one session  *)
(*    that executes the task, and the operator's.                          *)
(***************************************************************************)
EXTENDS Operators, TLAPS

-----------------------------------------------------------------------------
(* Type correctness.                                                       *)

(* The UPDATE of one typed row by another gives a typed row.               *)
LEMMA FlushType ==
  ASSUME NEW stored \in Rows, NEW loaded \in Rows, NEW wanted \in Rows
  PROVE  Flush(stored, loaded, wanted) \in Rows
  BY DEF Flush, Changed, Rows

(* Each of the four updates wants a typed row.                             *)
LEMMA WantedType ==
  ASSUME NEW e \in Executions,
         e.pc \in {"mark", "persist", "final", "except"}
  PROVE  Wanted(e) \in Rows
<1>1. /\ e.cached \in Rows /\ e.node \in Nodes /\ e.iteration \in Nat
      /\ StageOfNode[e.node] \in Stages
  BY DEF Executions, StageOfNode, Nodes, Stages
<1>2. WantedRunning(e) \in Rows
  BY <1>1 DEF WantedRunning, Rows, Statuses, Stages
<1>3. WantedProgress(e) \in Rows
  BY <1>1 DEF WantedProgress, Rows
<1>4. WantedFinal(e) \in Rows
  BY <1>1 DEF WantedFinal, Rows, Statuses, Stages
<1>5. WantedFailed(e) \in Rows
  BY <1>1 DEF WantedFailed, Rows, Statuses, Stages
<1> QED
  BY <1>2, <1>3, <1>4, <1>5 DEF Wanted

(* The edges of the workflow lead to a node or to the end.                 *)
LEMMA AfterType ==
  ASSUME NEW n \in Nodes, NEW i \in Nat
  PROVE  After(n, i) \subseteq Nodes \union {"end"}
  BY DEF After, NextNode, RouteAfterAnalysis, Nodes

(* An idle worker is typed, and so is the row of a new task.               *)
LEMMA IdleType == Idle \in Executions /\ Idle.pc = "idle" /\ NewRow \in Rows
  BY DEF Idle, NewRow, Executions, Points, Rows, Statuses, Stages, Nodes

(* The commit of a busy worker's update gives a typed table.               *)
LEMMA WriteType ==
  ASSUME TypeOK, NEW w \in Workers, Write(w),
         ex[w].pc \in {"mark", "persist", "final", "except"}
  PROVE  /\ tasks' \in [TaskIds -> Rows]
         /\ ex[w].task \in TaskIds
         /\ Wanted(ex[w]) \in Rows
<1>1. ex[w] \in Executions /\ ex[w].task \in TaskIds
  BY DEF TypeOK
<1>2. ex[w].cached \in Rows /\ tasks[ex[w].task] \in Rows
  BY <1>1 DEF TypeOK, Executions
<1>3. Wanted(ex[w]) \in Rows
  BY <1>1, WantedType
<1>4. Flush(tasks[ex[w].task], ex[w].cached, Wanted(ex[w])) \in Rows
  BY <1>2, <1>3, FlushType
<1> QED
  BY <1>1, <1>3, <1>4 DEF Write, TypeOK

(* A worker that only changes its own state keeps the state well typed.    *)
LEMMA OwnStateType ==
  ASSUME TypeOK, NEW w \in Workers, NEW new \in Executions,
         new.task \in TaskIds,
         ex' = [ex EXCEPT ![w] = new],
         UNCHANGED <<tasks, reports, queue, redelivered>>
  PROVE  TypeOK'
  BY DEF TypeOK

(* Every step keeps the state well typed.                                  *)
LEMMA NextType == TypeOK /\ [Next]_vars => TypeOK'
<1> SUFFICES ASSUME TypeOK, [Next]_vars PROVE TypeOK'
  OBVIOUS
<1>1. CASE UNCHANGED vars
  BY <1>1 DEF vars, TypeOK
<1>2. ASSUME NEW t \in TaskIds, Redeliver(t) PROVE TypeOK'
  BY <1>2, MaxRedeliveriesAssumption DEF Redeliver, TypeOK
<1>3. ASSUME NEW w \in Workers, NEW t \in TaskIds, Receive(w, t) PROVE TypeOK'
  <2>1. [Idle EXCEPT !.pc = "load", !.task = t] \in Executions
    BY IdleType DEF Idle, Executions, Points
  <2>2. queue' \in [TaskIds -> Nat]
    BY <1>3 DEF Receive, TypeOK
  <2> QED
    BY <1>3, <2>1, <2>2 DEF Receive, TypeOK, Idle
<1>4. ASSUME NEW w \in Workers, Step(w) \/ Fault(w) PROVE TypeOK'
  <2> DEFINE e == ex[w]
  <2>1. e \in Executions /\ (e.pc # "idle" => e.task \in TaskIds)
    BY DEF TypeOK
  <2>2. /\ tasks \in [TaskIds -> Rows] /\ reports \in SUBSET TaskIds
        /\ queue \in [TaskIds -> Nat]
        /\ e.pc # "idle" => tasks[e.task] \in Rows
    BY <2>1 DEF TypeOK
  <2>3. CASE Load(w)
    <3>1. [e EXCEPT !.cached = tasks[e.task], !.pc = "mark"] \in Executions
      BY <2>1, <2>2, <2>3 DEF Load, At, Executions, Points
    <3> QED
      BY <2>1, <2>2, <2>3, <3>1 DEF Load, At, TypeOK
  <2>4. CASE MarkRunning(w) \/ PersistProgress(w) \/ PersistFinal(w)
    <3>1. PICK p \in {"marked", "persisted", "finalized"} :
            Commit(w, p) /\ UNCHANGED <<reports, queue, redelivered>>
      BY <2>4 DEF MarkRunning, PersistProgress, PersistFinal
    <3>2. e.pc \in {"mark", "persist", "final"}
      BY <2>4 DEF MarkRunning, PersistProgress, PersistFinal, At
    <3>3. tasks' \in [TaskIds -> Rows] /\ Wanted(e) \in Rows /\ e.task \in TaskIds
      BY <3>1, <3>2, WriteType DEF Commit
    <3>4. [e EXCEPT !.cached = Wanted(e), !.pc = p] \in Executions
      BY <2>1, <3>3 DEF Executions, Points
    <3> QED
      BY <2>2, <3>1, <3>3, <3>4 DEF Commit, TypeOK
  <2>5. CASE BuildGraph(w)
    <3>1. [e EXCEPT !.cached = tasks[e.task], !.pc = "node"] \in Executions
      BY <2>1, <2>2, <2>5 DEF BuildGraph, At, Executions, Points
    <3> QED
      BY <2>1, <2>2, <2>5, <3>1 DEF BuildGraph, At, Refresh, TypeOK
  <2>6. CASE RunNode(w)
    <3> DEFINE i == IF e.node = "search" THEN e.iteration + 1 ELSE e.iteration
    <3>1. i \in Nat
      BY <2>1 DEF Executions
    <3>2. ex' = [ex EXCEPT ![w] = [e EXCEPT !.pc = "persist", !.iteration = i]]
      BY <2>6 DEF RunNode, TypeOK
    <3> HIDE DEF i
    <3> DEFINE new == [e EXCEPT !.pc = "persist", !.iteration = i]
    <3>3. new \in Executions /\ new.task = e.task
      BY <2>1, <3>1 DEF Executions, Points
    <3>4. e.task \in TaskIds /\ UNCHANGED <<tasks, reports, queue, redelivered>>
      BY <2>1, <2>6 DEF RunNode, At
    <3> QED
      BY <3>2, <3>3, <3>4, OwnStateType
  <2>7. CASE PublishProgress(w)
    <3>1. PICK next \in After(e.node, e.iteration) :
            ex' = [ex EXCEPT ![w] =
                     [e EXCEPT !.cached = Refresh(w),
                               !.pc = IF next = "end" THEN "final" ELSE "node",
                               !.node = IF next = "end" THEN e.node ELSE next]]
      BY <2>7 DEF PublishProgress, TypeOK
    <3>2. next \in Nodes \union {"end"}
      BY <2>1, AfterType DEF Executions
    <3> DEFINE p == IF next = "end" THEN "final" ELSE "node"
               n == IF next = "end" THEN e.node ELSE next
    <3>3. p \in Points \ {"idle"} /\ n \in Nodes
      BY <2>1, <3>2 DEF Points, Executions
    <3>4. ex' = [ex EXCEPT ![w] = [e EXCEPT !.cached = Refresh(w), !.pc = p,
                                            !.node = n]]
      BY <3>1
    <3> HIDE DEF p, n
    <3> DEFINE new == [e EXCEPT !.cached = Refresh(w), !.pc = p, !.node = n]
    <3>5. new \in Executions /\ new.task = e.task
      BY <2>1, <2>2, <2>7, <3>3 DEF PublishProgress, At, Refresh, Executions
    <3>6. e.task \in TaskIds /\ UNCHANGED <<tasks, reports, queue, redelivered>>
      BY <2>1, <2>7 DEF PublishProgress, At
    <3> QED
      BY <3>4, <3>5, <3>6, OwnStateType
  <2>8. CASE LookUpReport(w)
    <3> DEFINE s == e.task \in reports
    <3>1. s \in BOOLEAN
      OBVIOUS
    <3>2. ex' = [ex EXCEPT ![w] = [e EXCEPT !.cached = tasks[e.task], !.seen = s,
                                            !.pc = "save"]]
      BY <2>8 DEF LookUpReport, Refresh, TypeOK
    <3> HIDE DEF s
    <3> DEFINE new == [e EXCEPT !.cached = tasks[e.task], !.seen = s, !.pc = "save"]
    <3>3. new \in Executions /\ new.task = e.task
      BY <2>1, <2>2, <2>8, <3>1 DEF LookUpReport, At, Executions, Points
    <3>4. e.task \in TaskIds /\ UNCHANGED <<tasks, reports, queue, redelivered>>
      BY <2>1, <2>8 DEF LookUpReport, At
    <3> QED
      BY <3>2, <3>3, <3>4, OwnStateType
  <2>9. CASE SaveReport(w)
    <3>1. reports' \in SUBSET TaskIds
      BY <2>1, <2>2, <2>9 DEF SaveReport, At
    <3>2. [e EXCEPT !.pc = "saved"] \in Executions
      BY <2>1 DEF Executions, Points
    <3> QED
      BY <2>1, <2>2, <2>9, <3>1, <3>2 DEF SaveReport, GoTo, At, TypeOK
  <2>10. CASE SaveReportConflict(w)
    <3>1. [e EXCEPT !.pc = "except", !.poisoned = TRUE] \in Executions
      BY <2>1 DEF Executions, Points
    <3> QED
      BY <2>1, <2>2, <2>10, <3>1 DEF SaveReportConflict, At, TypeOK
  <2>11. CASE MarkFailed(w)
    <3>1. tasks' \in [TaskIds -> Rows]
      BY <2>11, WriteType DEF MarkFailed, At
    <3> QED
      BY <2>2, <2>11, <3>1, IdleType DEF MarkFailed, Finish, TypeOK
  <2>12. CASE MarkFailedRaises(w) \/ RefreshReport(w) \/ BuildRaises(w) \/ Crash(w)
    <3>1. Finish(w) /\ UNCHANGED <<tasks, reports, queue, redelivered>>
      BY <2>12 DEF MarkFailedRaises, RefreshReport, BuildRaises, Crash
    <3> QED
      BY <2>2, <3>1, IdleType DEF Finish, TypeOK
  <2>13. CASE NodeRaises(w)
    <3>1. [e EXCEPT !.pc = "except"] \in Executions
      BY <2>1 DEF Executions, Points
    <3> QED
      BY <2>1, <2>2, <2>13, <3>1 DEF NodeRaises, GoTo, At, TypeOK
  <2>14. CASE PublishRaises(w)
    <3>1. [e EXCEPT !.cached = tasks[e.task], !.pc = "except"] \in Executions
      BY <2>1, <2>2, <2>14 DEF PublishRaises, At, Executions, Points
    <3> QED
      BY <2>1, <2>2, <2>14, <3>1 DEF PublishRaises, At, Refresh, TypeOK
  <2>15. ASSUME CommitLost(w), e.pc # "idle"
         PROVE  tasks' \in [TaskIds -> Rows] /\ reports' \in SUBSET TaskIds
    BY <2>1, <2>2, <2>15, WriteType DEF CommitLost
  <2>16. CASE DbRaisesOutsideTry(w)
    <3>1. e.pc # "idle"
      BY <2>16 DEF DbRaisesOutsideTry
    <3>2. tasks' \in [TaskIds -> Rows] /\ reports' \in SUBSET TaskIds
      BY <2>15, <2>16, <3>1 DEF DbRaisesOutsideTry
    <3> QED
      BY <2>2, <2>16, <3>2, IdleType DEF DbRaisesOutsideTry, Finish, TypeOK
  <2>17. CASE DbRaisesInsideTry(w)
    <3>1. e.pc # "idle" /\ [e EXCEPT !.pc = "except", !.poisoned = TRUE] \in Executions
      BY <2>1, <2>17 DEF DbRaisesInsideTry, Executions, Points
    <3>2. tasks' \in [TaskIds -> Rows] /\ reports' \in SUBSET TaskIds
      BY <2>15, <2>17, <3>1 DEF DbRaisesInsideTry
    <3> QED
      BY <2>1, <2>2, <2>17, <3>1, <3>2 DEF DbRaisesInsideTry, TypeOK
  <2>18. CASE Reload(w)
    <3>1. [e EXCEPT !.cached = tasks[e.task], !.pc = "except"] \in Executions
      BY <2>1, <2>2, <2>18 DEF Reload, At, Executions, Points
    <3> QED
      BY <2>1, <2>2, <2>18, <3>1 DEF Reload, At, TypeOK
  <2>19. CASE RefreshRaises(w)
    <3>1. \A p \in {"except", "reload"} : [e EXCEPT !.pc = p] \in Executions
      BY <2>1 DEF Executions, Points
    <3> QED
      BY <2>1, <2>2, <2>19, <3>1 DEF RefreshRaises, GoTo, TypeOK
  <2> QED
    BY <1>4, <2>3, <2>4, <2>5, <2>6, <2>7, <2>8, <2>9, <2>10, <2>11, <2>12,
       <2>13, <2>14, <2>16, <2>17, <2>18, <2>19 DEF Step, Fault
<1> QED
  BY <1>1, <1>2, <1>3, <1>4 DEF Next

(* Every reachable state is well typed, with any faults and redeliveries.  *)
THEOREM TypeCorrect == Spec => []TypeOK
<1>1. Init => TypeOK
  BY IdleType, MaxRedeliveriesAssumption DEF Init, TypeOK, Idle
<1> QED
  BY <1>1, NextType, PTL DEF Spec

-----------------------------------------------------------------------------
(* What a step leaves alone.                                               *)

(* A worker's step concerns the task it has in hand and no other.          *)
LEMMA OwnTaskStep ==
  ASSUME TypeOK, NEW w \in Workers, Step(w) \/ Fault(w),
         NEW t \in TaskIds, ex[w].task # t
  PROVE  /\ tasks'[t] = tasks[t]
         /\ t \in reports' <=> t \in reports
         /\ queue' = queue
         /\ ex'[w].task # t
         /\ \A v \in Workers : v # w => ex'[v] = ex[v]
<1> DEFINE Own == /\ ex'[w].task # t
                  /\ \A v \in Workers : v # w => ex'[v] = ex[v]
<1>1. /\ ex \in [Workers -> Executions] /\ tasks \in [TaskIds -> Rows]
      /\ ex[w] \in Executions /\ Idle.task # t
  BY NoTaskAssumption DEF TypeOK, Idle
<1>2. Write(w) => tasks'[t] = tasks[t]
  BY <1>1 DEF Write
<1>3. Finish(w) => Own
  BY <1>1 DEF Finish
<1>4. \A p \in Points : GoTo(w, p) => Own
  BY <1>1 DEF GoTo, Executions
<1>5. CASE Load(w)
  BY <1>1, <1>5 DEF Load, Executions
<1>6. CASE BuildGraph(w)
  BY <1>1, <1>6 DEF BuildGraph, Executions
<1>7. CASE RunNode(w)
  BY <1>1, <1>7 DEF RunNode, Executions
<1>8. CASE PublishProgress(w)
  BY <1>1, <1>8 DEF PublishProgress, Executions
<1>9. CASE LookUpReport(w)
  BY <1>1, <1>9 DEF LookUpReport, Executions
<1>10. CASE SaveReport(w)
  BY <1>4, <1>10 DEF SaveReport, Points
<1>11. CASE SaveReportConflict(w)
  BY <1>1, <1>11 DEF SaveReportConflict, Executions
<1>12. CASE MarkRunning(w) \/ PersistProgress(w) \/ PersistFinal(w)
  <2>1. PICK p : Commit(w, p) /\ UNCHANGED <<reports, queue, redelivered>>
    BY <1>12 DEF MarkRunning, PersistProgress, PersistFinal
  <2>2. Own
    BY <1>1, <2>1 DEF Commit, Executions
  <2> QED
    BY <1>2, <2>1, <2>2 DEF Commit
<1>13. CASE \/ MarkFailed(w) \/ MarkFailedRaises(w) \/ RefreshReport(w)
            \/ BuildRaises(w) \/ Crash(w)
  BY <1>2, <1>3, <1>13
     DEF MarkFailed, MarkFailedRaises, RefreshReport, BuildRaises, Crash
<1>14. CASE NodeRaises(w)
  BY <1>4, <1>14 DEF NodeRaises, Points
<1>15. CASE PublishRaises(w)
  BY <1>1, <1>15 DEF PublishRaises, Executions
<1>16. CommitLost(w) => tasks'[t] = tasks[t] /\ (t \in reports' <=> t \in reports)
  BY <1>2 DEF CommitLost
<1>17. CASE DbRaisesOutsideTry(w)
  BY <1>3, <1>16, <1>17 DEF DbRaisesOutsideTry
<1>18. CASE DbRaisesInsideTry(w)
  <2>1. Own
    BY <1>1, <1>18 DEF DbRaisesInsideTry, Executions
  <2> QED
    BY <1>16, <1>18, <2>1 DEF DbRaisesInsideTry
<1>19. CASE Reload(w)
  BY <1>1, <1>19 DEF Reload, Executions
<1>20. CASE RefreshRaises(w)
  BY <1>4, <1>20 DEF RefreshRaises, Points
<1> QED
  BY <1>5, <1>6, <1>7, <1>8, <1>9, <1>10, <1>11, <1>12, <1>13, <1>14, <1>15,
     <1>17, <1>18, <1>19, <1>20 DEF Step, Fault

(* A task at rest stays at rest, with the row and the report it has.       *)
LEMMA RestingStep ==
  ASSUME TypeOK, [Next]_vars, NEW t \in TaskIds, AtRest(t)
  PROVE  /\ AtRest(t)'
         /\ tasks'[t] = tasks[t]
         /\ t \in reports' <=> t \in reports
<1>1. CASE UNCHANGED vars
  BY <1>1 DEF vars, AtRest
<1>2. ASSUME NEW s \in TaskIds, Redeliver(s)
      PROVE  AtRest(t)' /\ UNCHANGED <<tasks, reports>>
  BY <1>2 DEF Redeliver, AtRest, TypeOK
<1>3. ASSUME NEW w \in Workers, NEW s \in TaskIds, Receive(w, s)
      PROVE  AtRest(t)' /\ UNCHANGED <<tasks, reports>>
  <2>1. queue'[t] = 0 /\ s # t
    BY <1>3 DEF Receive, AtRest, TypeOK
  <2>2. ASSUME NEW v \in Workers PROVE ex'[v].task # t
    BY <1>3, <2>1 DEF Receive, AtRest, TypeOK, Idle
  <2> QED
    BY <1>3, <2>1, <2>2 DEF AtRest, Receive
<1>4. ASSUME NEW w \in Workers, Step(w) \/ Fault(w)
      PROVE  /\ AtRest(t)'
             /\ tasks'[t] = tasks[t]
             /\ t \in reports' <=> t \in reports
  BY <1>4, OwnTaskStep DEF AtRest
<1> QED
  BY <1>1, <1>2, <1>3, <1>4 DEF Next

(* A report row is never deleted.                                          *)
LEMMA ReportsStay ==
  ASSUME [Next]_vars
  PROVE  reports \subseteq reports'
<1>1. \A w \in Workers : Step(w) => reports \subseteq reports'
  BY DEF Step, Load, MarkRunning, BuildGraph, RunNode, PersistProgress,
     PublishProgress, PersistFinal, LookUpReport, SaveReport,
     SaveReportConflict, RefreshReport, Reload, MarkFailed, MarkFailedRaises
<1>2. \A w \in Workers : Fault(w) => reports \subseteq reports'
  BY DEF Fault, BuildRaises, NodeRaises, PublishRaises, DbRaisesOutsideTry,
     DbRaisesInsideTry, RefreshRaises, CommitLost, Crash
<1> QED
  BY <1>1, <1>2 DEF Next, Redeliver, Receive, vars

-----------------------------------------------------------------------------
(* When no message is redelivered: the inductive invariant.               *)

(* The stages a row may be in when each node is run.                       *)
StageBefore ==
  [planner |-> {"planning"}, search |-> {"planning", "analysis"},
   analysis |-> {"search"}, report |-> {"analysis"}]

Busy(e) == e.pc # "idle"

InTry(e) == e.pc \in {"node", "persist", "persisted"}

(* A row that mark_task_failed may find.                                   *)
Failing(row) == row.status = "running" \/ (Revocable /\ row.status = "completed")

(* How an execution stands to the row of its task.                         *)
InStep(e, row) ==
  /\ ~e.poisoned => e.cached = row
  /\ e.poisoned => e.pc = "except"
  /\ e.iteration <= MaxIterations
  /\ e.pc \in {"load", "mark"} => row = NewRow
  /\ e.pc \in {"load", "mark", "marked"} => e.node = "planner" /\ e.iteration = 0
  /\ e.pc = "marked" => row.stage = "planning" /\ row.iterations = 0
  /\ InTry(e) /\ e.node = "planner" => e.iteration = 0
  /\ e.pc = "node" /\ e.node = "search" => e.iteration < MaxIterations
  /\ e.pc \in {"node", "persist"} => row.stage \in StageBefore[e.node]
  /\ e.pc \in {"node", "persisted", "final"} => row.iterations = e.iteration
  /\ e.pc = "persist" =>
       e.iteration = IF e.node = "search" THEN row.iterations + 1
                                          ELSE row.iterations
  /\ e.pc = "persisted" => row.stage = StageOfNode[e.node]
  /\ e.pc = "final" => row.stage = "report"
  /\ InTry(e) \/ e.pc \in {"marked", "final"} => row.status = "running"
  /\ e.pc \in {"reload", "except"} /\ ~e.poisoned => Failing(row)
  /\ e.pc \in {"finalized", "save", "saved"} => row.status = "completed"

(* The report is stored by the last commit of an execution.                *)
NoReportYet(e, stored) == e.pc \notin {"saved", "except"} => ~stored

LocalOK(e, row, stored) == InStep(e, row) /\ NoReportYet(e, stored)

(* What is known of a row, and of one whose message still waits.           *)
RowOK(row, stored) ==
  /\ Coherent(row)
  /\ row.iterations <= MaxIterations
  /\ stored => row.status = "completed" \/ (Revocable /\ row.status = "failed")

WaitingOK(t) ==
  queue[t] > 0 => queue[t] = 1 /\ tasks[t] = NewRow /\ t \notin reports

(* At most one worker has a task in hand, and no message for it waits.     *)
Exclusive(w) ==
  Busy(ex[w]) =>
    /\ queue[ex[w].task] = 0
    /\ \A v \in Workers : Busy(ex[v]) /\ ex[v].task = ex[w].task => v = w

IInv ==
  /\ TypeOK
  /\ redelivered = 0
  /\ \A t \in TaskIds : RowOK(tasks[t], t \in reports)
  /\ \A t \in TaskIds : WaitingOK(t)
  /\ \A w \in Workers : Exclusive(w)
  /\ \A w \in Workers : ~Busy(ex[w]) => ex[w] = Idle
  /\ \A w \in Workers :
       Busy(ex[w]) => LocalOK(ex[w], tasks[ex[w].task], ex[w].task \in reports)

(* What a step may do to a row.                                            *)
RowStep(old, new) ==
  \/ new = old
  \/ /\ ~Terminal(old) \/ (Revocable /\ old.status = "completed" /\ new.status = "failed")
     /\ \/ StageForApi(new) = StageForApi(old)
        \/ StageForApi(new) \in Lifecycle!Successor[StageForApi(old)]
     /\ Progress(old) <= Progress(new)

Evolves ==
  \E t \in TaskIds, row \in Rows :
    tasks' = [tasks EXCEPT ![t] = row] /\ RowStep(tasks[t], row)

-----------------------------------------------------------------------------
(* The frame of the argument.                                              *)

(* A step of a worker that has task t in hand disturbs nothing but the row *)
(* and the report of t and its own state: what it makes of these decides.  *)
LEMMA WorkerStep ==
  ASSUME IInv,
         NEW w \in Workers, Busy(ex[w]),
         NEW row \in Rows, NEW new \in Executions,
         tasks' = [tasks EXCEPT ![ex[w].task] = row],
         ex' = [ex EXCEPT ![w] = new],
         UNCHANGED <<queue, redelivered>>,
         reports' \in SUBSET TaskIds,
         \A t \in TaskIds : t # ex[w].task => (t \in reports' <=> t \in reports),
         RowOK(row, ex[w].task \in reports'),
         \/ new = Idle
         \/ /\ Busy(new) /\ new.task = ex[w].task
            /\ LocalOK(new, row, ex[w].task \in reports'),
         RowStep(tasks[ex[w].task], row)
  PROVE  IInv' /\ Evolves
<1> DEFINE u == ex[w].task
<1>1. /\ ex \in [Workers -> Executions] /\ u \in TaskIds
      /\ tasks \in [TaskIds -> Rows] /\ queue \in [TaskIds -> Nat]
  BY DEF IInv, TypeOK, Busy
<1>2. /\ tasks'[u] = row /\ ex'[w] = new
      /\ \A t \in TaskIds : t # u => tasks'[t] = tasks[t]
      /\ \A v \in Workers : v # w => ex'[v] = ex[v]
  BY <1>1
<1>3. queue[u] = 0 /\ \A v \in Workers : Busy(ex[v]) /\ ex[v].task = u => v = w
  BY DEF IInv, Exclusive
<1>4. ~Busy(Idle)
  BY DEF Busy, Idle
<1>5. TypeOK'
  BY <1>1 DEF IInv, TypeOK, Busy, Idle
<1>6. (\A t \in TaskIds : RowOK(tasks[t], t \in reports))'
  <2> SUFFICES ASSUME NEW t \in TaskIds PROVE RowOK(tasks'[t], t \in reports')
    OBVIOUS
  <2>1. CASE t = u
    BY <1>2, <2>1
  <2>2. CASE t # u
    BY <1>2, <2>2 DEF IInv, RowOK
  <2> QED
    BY <2>1, <2>2
<1>7. (\A t \in TaskIds : WaitingOK(t))'
  BY <1>2, <1>3 DEF IInv, WaitingOK
<1>8. (\A v \in Workers : Exclusive(v))'
  BY <1>2, <1>3, <1>4 DEF IInv, Exclusive
<1>9. (\A v \in Workers : ~Busy(ex[v]) => ex[v] = Idle)'
  BY <1>2 DEF IInv
<1>10. (\A v \in Workers :
          Busy(ex[v]) => LocalOK(ex[v], tasks[ex[v].task], ex[v].task \in reports))'
  <2> SUFFICES ASSUME NEW v \in Workers, Busy(ex'[v])
               PROVE  LocalOK(ex'[v], tasks'[ex'[v].task], ex'[v].task \in reports')
    BY DEF Busy
  <2>1. CASE v = w
    BY <1>2, <1>4, <2>1
  <2>2. CASE v # w
    <3>1. /\ ex'[v] = ex[v] /\ Busy(ex[v]) /\ ex[v].task # u
          /\ ex[v].task \in TaskIds
      BY <1>2, <1>3, <2>2 DEF Busy, IInv, TypeOK
    <3>2. LocalOK(ex[v], tasks[ex[v].task], ex[v].task \in reports)
      BY <3>1 DEF IInv
    <3>3. /\ tasks'[ex[v].task] = tasks[ex[v].task]
          /\ ex[v].task \in reports' <=> ex[v].task \in reports
      BY <1>2, <3>1
    <3> QED
      BY <3>1, <3>2, <3>3 DEF LocalOK, NoReportYet
  <2> QED
    BY <2>1, <2>2
<1>11. Evolves
  BY <1>1 DEF Evolves
<1> QED
  BY <1>5, <1>6, <1>7, <1>8, <1>9, <1>10, <1>11 DEF IInv
-----------------------------------------------------------------------------
(* What the four updates do to a row that has not been read too early.     *)

(* An UPDATE through a copy that is up to date stores what is wanted.      *)
LEMMA FlushCurrent ==
  ASSUME NEW row \in Rows, NEW wanted \in Rows
  PROVE  Flush(row, row, wanted) = wanted
<1>1. Flush(row, row, wanted) \in Rows
  BY FlushType
<1> QED
  BY <1>1 DEF Flush, Changed, Rows

(* The phase of a row, and how far a client sees it.                       *)
LEMMA PhaseOf ==
  ASSUME NEW row \in Rows, Coherent(row)
  PROVE  /\ row.status = "pending" => StageForApi(row) = "queued"
         /\ row.status = "completed" => StageForApi(row) = "completed"
         /\ row.status = "failed" => StageForApi(row) = "failed"
         /\ row.status = "running" =>
              /\ row.stage \in {"planning", "search", "analysis", "report"}
              /\ row.stage = "planning" => StageForApi(row) = "planner"
              /\ row.stage = "search"   => StageForApi(row) = "search"
              /\ row.stage = "analysis" => StageForApi(row) = "analysis"
              /\ row.stage = "report"   => StageForApi(row) = "report"
  BY DEF Coherent, StageForApi, RunningStage

(* mark_task_running starts a new task.                                    *)
LEMMA RowMarked ==
  ASSUME NEW row \in Rows,
         row = [NewRow EXCEPT !.status = "running", !.stage = "planning",
                              !.error = FALSE]
  PROVE  RowOK(row, FALSE) /\ RowStep(NewRow, row)
<1>1. /\ row.status = "running" /\ row.stage = "planning" /\ ~row.error
      /\ row.iterations = 0 /\ NewRow.iterations = 0 /\ NewRow \in Rows
      /\ Coherent(NewRow) /\ NewRow.status = "pending"
  BY IdleType DEF NewRow, Coherent
<1>2. Coherent(row)
  BY <1>1 DEF Coherent, RunningStage
<1>3. StageForApi(row) = "planner" /\ StageForApi(NewRow) = "queued"
  BY <1>1, <1>2, PhaseOf
<1>4. Progress(NewRow) <= Progress(row)
  BY <1>1, <1>3 DEF Progress, Rank
<1>5. "planner" \in Lifecycle!Successor["queued"]
  BY DEF Lifecycle!Successor
<1> QED
  BY <1>1, <1>2, <1>3, <1>4, <1>5, MaxIterationsAssumption
     DEF RowOK, RowStep, Terminal

(* persist_progress after the node that may follow the row's stage.        *)
LEMMA RowProgressed ==
  ASSUME NEW old \in Rows, Coherent(old), old.status = "running",
         NEW n \in Nodes, old.stage \in StageBefore[n],
         NEW i \in Nat, i <= MaxIterations,
         n = "search" => i = old.iterations + 1,
         n # "search" => i = old.iterations,
         NEW row \in Rows,
         row = [old EXCEPT !.stage = StageOfNode[n], !.iterations = i]
  PROVE  /\ RowOK(row, FALSE) /\ RowStep(old, row)
         /\ row.status = "running" /\ row.stage = StageOfNode[n]
         /\ row.iterations = i
<1>1. /\ row.status = "running" /\ row.error = old.error
      /\ row.stage = StageOfNode[n] /\ row.iterations = i
      /\ old.iterations \in Nat
  BY DEF Rows
<1>2. row.stage \in DOMAIN RunningStage
  BY <1>1 DEF StageOfNode, RunningStage, Nodes
<1>3. Coherent(row)
  BY <1>1, <1>2 DEF Coherent
<1>4. RowStep(old, row)
  <2>1. CASE n = "planner"
    <3>1. StageForApi(old) = "planner" /\ StageForApi(row) = "planner"
      BY <1>1, <1>3, <2>1, PhaseOf DEF StageBefore, StageOfNode
    <3> QED
      BY <1>1, <2>1, <3>1 DEF RowStep, Terminal, Progress, Rank
  <2>2. CASE n = "search"
    <3>1. /\ StageForApi(old) \in {"planner", "analysis"}
          /\ StageForApi(row) = "search"
      BY <1>1, <1>3, <2>2, PhaseOf DEF StageBefore, StageOfNode
    <3>2. Progress(old) <= Progress(row)
      BY <1>1, <2>2, <3>1 DEF Progress, Rank
    <3> QED
      BY <3>1, <3>2 DEF RowStep, Terminal, Lifecycle!Successor
  <2>3. CASE n = "analysis"
    <3>1. StageForApi(old) = "search" /\ StageForApi(row) = "analysis"
      BY <1>1, <1>3, <2>3, PhaseOf DEF StageBefore, StageOfNode
    <3>2. Progress(old) <= Progress(row)
      BY <1>1, <2>3, <3>1 DEF Progress, Rank
    <3> QED
      BY <3>1, <3>2 DEF RowStep, Terminal, Lifecycle!Successor
  <2>4. CASE n = "report"
    <3>1. StageForApi(old) = "analysis" /\ StageForApi(row) = "report"
      BY <1>1, <1>3, <2>4, PhaseOf DEF StageBefore, StageOfNode
    <3>2. Progress(old) <= Progress(row)
      BY <1>1, <2>4, <3>1 DEF Progress, Rank
    <3> QED
      BY <3>1, <3>2 DEF RowStep, Terminal, Lifecycle!Successor
  <2> QED
    BY <2>1, <2>2, <2>3, <2>4 DEF Nodes
<1> QED
  BY <1>1, <1>3, <1>4 DEF RowOK

(* persist_final_state after the report node.                              *)
LEMMA RowCompleted ==
  ASSUME NEW old \in Rows, Coherent(old), old.status = "running",
         old.stage = "report", old.iterations <= MaxIterations,
         NEW row \in Rows,
         row = [old EXCEPT !.status = "completed", !.stage = "done",
                           !.error = FALSE, !.iterations = old.iterations]
  PROVE  /\ RowOK(row, FALSE) /\ RowStep(old, row)
         /\ row.status = "completed"
<1>1. /\ row.status = "completed" /\ row.stage = "done" /\ ~row.error
      /\ row.iterations = old.iterations /\ old.iterations \in Nat
  BY DEF Rows
<1>2. Coherent(row)
  BY <1>1 DEF Coherent
<1>3. StageForApi(old) = "report" /\ StageForApi(row) = "completed"
  BY <1>1, <1>2, PhaseOf
<1>4. Progress(old) <= Progress(row)
  BY <1>1, <1>3 DEF Progress, Rank
<1> QED
  BY <1>1, <1>2, <1>3, <1>4
     DEF RowOK, RowStep, Terminal, Lifecycle!Successor

(* mark_task_failed, whose report is stored only if the task is completed. *)
LEMMA RowFailed ==
  ASSUME NEW old \in Rows, NEW stored, RowOK(old, stored), Failing(old),
         NEW row \in Rows,
         row = [old EXCEPT !.status = "failed", !.stage = "error",
                           !.error = TRUE]
  PROVE  RowOK(row, stored) /\ RowStep(old, row)
<1>1. /\ row.status = "failed" /\ row.stage = "error" /\ row.error
      /\ row.iterations = old.iterations /\ old.iterations \in Nat
  BY DEF Rows
<1>2. Coherent(row)
  BY <1>1 DEF Coherent
<1>3. StageForApi(row) = "failed" /\ Coherent(old) /\ old.iterations <= MaxIterations
  BY <1>1, <1>2, PhaseOf DEF RowOK
<1>4. CASE old.status = "running"
  <2>1. StageForApi(old) \in {"planner", "search", "analysis", "report"}
    BY <1>3, <1>4, PhaseOf
  <2>2. Progress(old) <= Progress(row)
    BY <1>1, <1>3, <2>1 DEF Progress, Rank
  <2> QED
    BY <1>1, <1>2, <1>3, <1>4, <2>1, <2>2
       DEF RowOK, RowStep, Terminal, Lifecycle!Successor
<1>5. CASE Revocable /\ old.status = "completed"
  <2>1. StageForApi(old) = "completed"
    BY <1>3, <1>5, PhaseOf
  <2>2. Progress(old) <= Progress(row)
    BY <1>1, <1>3, <2>1 DEF Progress, Rank
  <2>3. "failed" \in Lifecycle!Successor["completed"]
    BY <1>5 DEF Lifecycle!Successor
  <2> QED
    BY <1>1, <1>2, <1>3, <1>5, <2>1, <2>2, <2>3 DEF RowOK, RowStep
<1> QED
  BY <1>4, <1>5 DEF Failing
-----------------------------------------------------------------------------
(* One lemma for each step of a worker.                                    *)

(* What the invariant says of a task in hand.                              *)
LEMMA InHand ==
  ASSUME IInv, NEW w \in Workers, Busy(ex[w])
  PROVE  /\ ex[w] \in Executions /\ ex[w].task \in TaskIds
         /\ ex[w].cached \in Rows /\ ex[w].node \in Nodes
         /\ ex[w].iteration \in Nat
         /\ tasks[ex[w].task] \in Rows
         /\ reports \in SUBSET TaskIds
         /\ ex \in [Workers -> Executions] /\ tasks \in [TaskIds -> Rows]
         /\ InStep(ex[w], tasks[ex[w].task])
         /\ NoReportYet(ex[w], ex[w].task \in reports)
         /\ RowOK(tasks[ex[w].task], ex[w].task \in reports)
         /\ Idle \in Executions
<1>1. ex[w] \in Executions /\ ex[w].task \in TaskIds
  BY DEF IInv, TypeOK, Busy
<1> QED
  BY <1>1, IdleType DEF IInv, TypeOK, LocalOK, Executions

(* A step that changes neither row nor report.                             *)
LEMMA OwnStep ==
  ASSUME IInv, NEW w \in Workers, Busy(ex[w]), NEW new \in Executions,
         ex' = [ex EXCEPT ![w] = new],
         UNCHANGED <<tasks, reports, queue, redelivered>>,
         \/ new = Idle
         \/ /\ Busy(new) /\ new.task = ex[w].task
            /\ LocalOK(new, tasks[ex[w].task], ex[w].task \in reports)
  PROVE  IInv' /\ Evolves
<1>1. tasks' = [tasks EXCEPT ![ex[w].task] = tasks[ex[w].task]]
  BY InHand
<1>2. RowStep(tasks[ex[w].task], tasks[ex[w].task])
  BY DEF RowStep
<1>3. /\ tasks[ex[w].task] \in Rows /\ reports' \in SUBSET TaskIds
      /\ reports' = reports
      /\ RowOK(tasks[ex[w].task], ex[w].task \in reports')
  BY InHand DEF RowOK
<1>4. \/ new = Idle
      \/ /\ Busy(new) /\ new.task = ex[w].task
         /\ LocalOK(new, tasks[ex[w].task], ex[w].task \in reports')
  BY <1>3 DEF LocalOK, NoReportYet
<1> QED
  BY <1>1, <1>2, <1>3, <1>4, WorkerStep

(* An execution that ends without another call of the database.            *)
LEMMA FinishStep ==
  ASSUME IInv, NEW w \in Workers, Busy(ex[w]), Finish(w),
         UNCHANGED <<tasks, reports, queue, redelivered>>
  PROVE  IInv' /\ Evolves
  BY InHand, OwnStep DEF Finish

(* The commit of an update, at any of the four calls of update_task: the   *)
(* session's copy is the row, so what is wanted is what is stored.         *)
LEMMA UpdateOutcome ==
  ASSUME IInv, NEW w \in Workers, Write(w), ~ex[w].poisoned,
         ex[w].pc \in {"mark", "persist", "final", "except"}
  PROVE  /\ tasks' = [tasks EXCEPT ![ex[w].task] = Wanted(ex[w])]
         /\ Wanted(ex[w]) \in Rows
         /\ RowOK(Wanted(ex[w]), ex[w].task \in reports)
         /\ RowStep(tasks[ex[w].task], Wanted(ex[w]))
<1> DEFINE e == ex[w]
           row == tasks[e.task]
<1>1. Busy(e)
  BY DEF Busy
<1>2. /\ e \in Executions /\ e.cached = row /\ row \in Rows
      /\ e.node \in Nodes /\ e.iteration \in Nat
      /\ InStep(e, row) /\ RowOK(row, e.task \in reports)
      /\ NoReportYet(e, e.task \in reports)
  BY <1>1, InHand DEF InStep
<1>3. Wanted(e) \in Rows
  BY <1>2, WantedType
<1>4. tasks' = [tasks EXCEPT ![e.task] = Wanted(e)]
  <2>1. Flush(row, row, Wanted(e)) = Wanted(e)
    BY <1>2, <1>3, FlushCurrent
  <2>2. tasks' = [tasks EXCEPT ![e.task] = Flush(row, row, Wanted(e))]
    BY <1>2 DEF Write
  <2> QED
    BY <2>1, <2>2
<1>5. /\ e.pc # "except" => e.task \notin reports
      /\ e.pc # "except" /\ RowOK(Wanted(e), FALSE) => RowOK(Wanted(e), e.task \in reports)
  BY <1>2 DEF RowOK, NoReportYet
<1>6. Coherent(row) /\ row.iterations <= MaxIterations
  BY <1>2 DEF RowOK
<1>7. CASE e.pc = "mark"
  <2>1. /\ row = NewRow
        /\ Wanted(e) = [NewRow EXCEPT !.status = "running",
                                      !.stage = "planning", !.error = FALSE]
    BY <1>2, <1>7 DEF InStep, Wanted, WantedRunning
  <2> QED
    BY <1>3, <1>4, <1>5, <1>7, <2>1, RowMarked
<1>8. CASE e.pc = "persist"
  <2>1. /\ row.status = "running" /\ row.stage \in StageBefore[e.node]
        /\ e.iteration <= MaxIterations
        /\ e.iteration = IF e.node = "search" THEN row.iterations + 1
                                              ELSE row.iterations
    BY <1>2, <1>8 DEF InStep, InTry
  <2>2. Wanted(e) = [row EXCEPT !.stage = StageOfNode[e.node],
                                !.iterations = e.iteration]
    BY <1>2, <1>8 DEF Wanted, WantedProgress
  <2> HIDE DEF e, row
  <2> DEFINE new == Wanted(e)
             n == e.node
             i == e.iteration
  <2> HIDE DEF new, n, i
  <2>3. RowOK(new, FALSE) /\ RowStep(row, new)
    <3>1. row \in Rows /\ Coherent(row) /\ new \in Rows /\ n \in Nodes /\ i \in Nat
      BY <1>2, <1>3, <1>6 DEF new, n, i
    <3>2. /\ row.status = "running" /\ row.stage \in StageBefore[n]
          /\ i <= MaxIterations
          /\ n = "search" => i = row.iterations + 1
          /\ n # "search" => i = row.iterations
          /\ new = [row EXCEPT !.stage = StageOfNode[n], !.iterations = i]
      BY <2>1, <2>2 DEF new, n, i
    <3> QED
      BY <3>1, <3>2, RowProgressed
  <2> QED
    BY <1>3, <1>4, <1>5, <1>8, <2>3 DEF e, row, new
<1>9. CASE e.pc = "final"
  <2>1. row.status = "running" /\ row.stage = "report" /\ row.iterations = e.iteration
    BY <1>2, <1>9 DEF InStep
  <2>2. Wanted(e) = [row EXCEPT !.status = "completed", !.stage = "done",
                                !.error = FALSE, !.iterations = row.iterations]
    BY <1>2, <1>9, <2>1 DEF Wanted, WantedFinal
  <2> QED
    BY <1>2, <1>3, <1>4, <1>5, <1>6, <1>9, <2>1, <2>2, RowCompleted
<1>10. CASE e.pc = "except"
  <2>1. Failing(row)
    BY <1>2, <1>10 DEF InStep
  <2>2. Wanted(e) = [row EXCEPT !.status = "failed", !.stage = "error",
                                !.error = TRUE]
    BY <1>2, <1>10 DEF Wanted, WantedFailed
  <2> QED
    BY <1>2, <1>3, <1>4, <2>1, <2>2, RowFailed
<1> QED
  BY <1>7, <1>8, <1>9, <1>10

(* The commit of an update inside the execution, which then stands at pc.  *)
LEMMA CommitStep ==
  ASSUME IInv, NEW w \in Workers, NEW pc \in Points, pc # "idle",
         Commit(w, pc), ~ex[w].poisoned,
         ex[w].pc \in {"mark", "persist", "final"},
         UNCHANGED <<reports, queue, redelivered>>,
         InStep([ex[w] EXCEPT !.cached = Wanted(ex[w]), !.pc = pc], Wanted(ex[w]))
  PROVE  IInv' /\ Evolves
<1> DEFINE e == ex[w]
           row == Wanted(e)
           new == [e EXCEPT !.cached = row, !.pc = pc]
<1>1. Busy(e)
  BY DEF Busy
<1>2. e \in Executions /\ ex \in [Workers -> Executions] /\ reports \in SUBSET TaskIds
  BY <1>1, InHand
<1>3. /\ tasks' = [tasks EXCEPT ![e.task] = row]
      /\ row \in Rows /\ e.task \notin reports
      /\ RowOK(row, e.task \in reports) /\ RowStep(tasks[e.task], row)
  BY <1>1, InHand, UpdateOutcome DEF Commit, NoReportYet
<1>4. new \in Executions /\ new.task = e.task /\ new.pc = pc
  BY <1>2, <1>3 DEF Executions
<1>5. ex' = [ex EXCEPT ![w] = new]
  BY <1>2 DEF Commit
<1>6. /\ Busy(new) /\ reports' = reports
      /\ LocalOK(new, row, e.task \in reports')
      /\ RowOK(row, e.task \in reports')
  BY <1>3, <1>4 DEF Busy, LocalOK, NoReportYet, RowOK
<1> HIDE DEF new, row
<1> QED
  BY <1>1, <1>2, <1>3, <1>4, <1>5, <1>6, WorkerStep DEF row

(* get_task reads a row that nobody else writes.                           *)
LEMMA LoadStep ==
  ASSUME IInv, NEW w \in Workers, Load(w)
  PROVE  IInv' /\ Evolves
<1> DEFINE e == ex[w]
           new == [e EXCEPT !.cached = tasks[e.task], !.pc = "mark"]
<1>1. Busy(e) /\ e.pc = "load"
  BY DEF Load, At, Busy
<1>2. new \in Executions /\ new.task = e.task /\ new.pc = "mark"
  BY <1>1, InHand DEF Executions, Points
<1>3. LocalOK(new, tasks[e.task], e.task \in reports)
  <2>1. /\ e \in Executions /\ InStep(e, tasks[e.task])
        /\ NoReportYet(e, e.task \in reports)
    BY <1>1, InHand
  <2>2. /\ new.pc = "mark" /\ new.cached = tasks[e.task]
        /\ new.poisoned = e.poisoned
        /\ new.iteration = e.iteration /\ new.node = e.node
    BY <2>1 DEF Executions
  <2>3. InStep(new, tasks[e.task])
    BY <1>1, <2>1, <2>2 DEF InStep, InTry
  <2> QED
    BY <1>1, <2>1, <2>2, <2>3 DEF LocalOK, NoReportYet
<1>4. ex' = [ex EXCEPT ![w] = new]
  BY <1>1, InHand DEF Load
<1> QED
  BY <1>1, <1>2, <1>3, <1>4, OwnStep DEF Load, Busy

(* mark_task_running writes the first row of a new task.                   *)
LEMMA MarkRunningStep ==
  ASSUME IInv, NEW w \in Workers, MarkRunning(w)
  PROVE  IInv' /\ Evolves
<1> DEFINE e == ex[w]
           new == [e EXCEPT !.cached = Wanted(e), !.pc = "marked"]
<1>1. Busy(e) /\ e.pc = "mark"
  BY DEF MarkRunning, At, Busy
<1>2. /\ e \in Executions /\ InStep(e, NewRow) /\ ~e.poisoned /\ e.cached = NewRow
      /\ e.iteration = 0 /\ e.node = "planner"
  BY <1>1, InHand DEF InStep
<1>3. /\ Wanted(e).status = "running" /\ Wanted(e).stage = "planning"
      /\ Wanted(e).iterations = 0
  <2>1. Wanted(e) = [NewRow EXCEPT !.status = "running", !.stage = "planning",
                                   !.error = FALSE]
    BY <1>1, <1>2 DEF Wanted, WantedRunning
  <2> QED
    BY <2>1 DEF NewRow
<1>4. /\ new.pc = "marked" /\ new.cached = Wanted(e) /\ ~new.poisoned
      /\ new.iteration = 0 /\ new.node = "planner"
  BY <1>2 DEF Executions
<1>5. InStep(new, Wanted(e))
  BY <1>3, <1>4, MaxIterationsAssumption DEF InStep, InTry
<1> QED
  BY <1>1, <1>2, <1>5, CommitStep DEF MarkRunning, Points

(* The refresh finds the row as it was committed; planner is next.         *)
LEMMA BuildGraphStep ==
  ASSUME IInv, NEW w \in Workers, BuildGraph(w)
  PROVE  IInv' /\ Evolves
<1> DEFINE e == ex[w]
           row == tasks[e.task]
           new == [e EXCEPT !.cached = row, !.pc = "node"]
<1>1. Busy(e) /\ e.pc = "marked"
  BY DEF BuildGraph, At, Busy
<1>2. /\ e \in Executions /\ InStep(e, row) /\ NoReportYet(e, e.task \in reports)
      /\ row \in Rows
  BY <1>1, InHand
<1>3. /\ new \in Executions /\ new.task = e.task /\ new.pc = "node"
      /\ new.cached = row /\ new.poisoned = e.poisoned
      /\ new.iteration = e.iteration /\ new.node = e.node
  BY <1>2 DEF Executions, Points
<1>4. InStep(new, row)
  BY <1>1, <1>2, <1>3, MaxIterationsAssumption DEF InStep, InTry, StageBefore
<1>5. LocalOK(new, row, e.task \in reports)
  BY <1>1, <1>2, <1>4 DEF LocalOK, NoReportYet
<1>6. ex' = [ex EXCEPT ![w] = new]
  BY <1>1, InHand DEF BuildGraph, Refresh
<1> QED
  BY <1>1, <1>3, <1>5, <1>6, OwnStep DEF BuildGraph, Busy

(* A node has run: the row is still in a stage that may precede it.        *)
LEMMA RunNodeStep ==
  ASSUME IInv, NEW w \in Workers, RunNode(w)
  PROVE  IInv' /\ Evolves
<1> DEFINE e == ex[w]
           row == tasks[e.task]
           i == IF e.node = "search" THEN e.iteration + 1 ELSE e.iteration
           new == [e EXCEPT !.pc = "persist", !.iteration = i]
<1>1. Busy(e) /\ e.pc = "node"
  BY DEF RunNode, At, Busy
<1>2. /\ e \in Executions /\ InStep(e, row) /\ NoReportYet(e, e.task \in reports)
      /\ row \in Rows /\ e.iteration \in Nat
  BY <1>1, InHand
<1>3. ex' = [ex EXCEPT ![w] = new]
  BY <1>1, InHand DEF RunNode
<1>4. /\ i \in Nat
      /\ e.node = "search" => i = e.iteration + 1
      /\ e.node # "search" => i = e.iteration
  BY <1>2
<1> HIDE DEF i
<1>5. /\ new \in Executions /\ new.task = e.task /\ new.pc = "persist"
      /\ new.cached = e.cached /\ new.poisoned = e.poisoned
      /\ new.iteration = i /\ new.node = e.node
  BY <1>2, <1>4 DEF Executions, Points
<1>6. InStep(new, row)
  BY <1>1, <1>2, <1>4, <1>5, MaxIterationsAssumption DEF InStep, InTry
<1>7. LocalOK(new, row, e.task \in reports)
  BY <1>1, <1>2, <1>6 DEF LocalOK, NoReportYet
<1> QED
  BY <1>1, <1>3, <1>5, <1>7, OwnStep DEF RunNode, Busy

(* persist_progress writes the stage of the node that has run.             *)
LEMMA PersistProgressStep ==
  ASSUME IInv, NEW w \in Workers, PersistProgress(w)
  PROVE  IInv' /\ Evolves
<1> DEFINE e == ex[w]
           row == tasks[e.task]
           new == [e EXCEPT !.cached = Wanted(e), !.pc = "persisted"]
<1>1. Busy(e) /\ e.pc = "persist"
  BY DEF PersistProgress, At, Busy
<1>2. /\ e \in Executions /\ InStep(e, row) /\ ~e.poisoned /\ e.cached = row
      /\ row \in Rows
  BY <1>1, InHand DEF InStep
<1>3. /\ Wanted(e).status = "running" /\ Wanted(e).stage = StageOfNode[e.node]
      /\ Wanted(e).iterations = e.iteration
  <2>1. row.status = "running"
    BY <1>1, <1>2 DEF InStep, InTry
  <2> QED
    BY <1>1, <1>2, <2>1 DEF Wanted, WantedProgress, Rows
<1>4. /\ new.pc = "persisted" /\ new.cached = Wanted(e) /\ ~new.poisoned
      /\ new.iteration = e.iteration /\ new.node = e.node
  BY <1>2 DEF Executions
<1>5. InStep(new, Wanted(e))
  BY <1>1, <1>2, <1>3, <1>4 DEF InStep, InTry
<1> QED
  BY <1>1, <1>2, <1>5, CommitStep DEF PersistProgress, Points

(* persist_final_state completes a task whose report node has run.         *)
LEMMA PersistFinalStep ==
  ASSUME IInv, NEW w \in Workers, PersistFinal(w)
  PROVE  IInv' /\ Evolves
<1> DEFINE e == ex[w]
           row == tasks[e.task]
           new == [e EXCEPT !.cached = Wanted(e), !.pc = "finalized"]
<1>1. Busy(e) /\ e.pc = "final"
  BY DEF PersistFinal, At, Busy
<1>2. /\ e \in Executions /\ InStep(e, row) /\ ~e.poisoned /\ e.cached = row
      /\ row \in Rows
  BY <1>1, InHand DEF InStep
<1>3. Wanted(e).status = "completed"
  BY <1>1, <1>2 DEF Wanted, WantedFinal, Rows
<1>4. /\ new.pc = "finalized" /\ new.cached = Wanted(e) /\ ~new.poisoned
      /\ new.iteration = e.iteration /\ new.node = e.node
  BY <1>2 DEF Executions
<1>5. InStep(new, Wanted(e))
  BY <1>1, <1>2, <1>3, <1>4 DEF InStep, InTry
<1> QED
  BY <1>1, <1>2, <1>5, CommitStep DEF PersistFinal, Points

(* The edges that leave a node, over everything a pass can have found.     *)
LEMMA AfterNode ==
  ASSUME NEW n \in Nodes, NEW i \in Nat, NEW next \in After(n, i)
  PROVE  /\ n = "planner" => next = "search"
         /\ n = "search" => next = "analysis"
         /\ n = "analysis" =>
              next = "report" \/ (next = "search" /\ i < MaxIterations)
         /\ n = "report" => next = "end"
<1>1. PICK papers, findings : next = NextNode(n, i, papers, findings)
  BY DEF After
<1>2. \/ RouteAfterAnalysis(i, papers, findings) = "report"
      \/ RouteAfterAnalysis(i, papers, findings) = "search" /\ i < MaxIterations
  BY DEF RouteAfterAnalysis
<1>3. CASE n = "planner"
  BY <1>1, <1>3 DEF NextNode
<1>4. CASE n = "search"
  BY <1>1, <1>4 DEF NextNode
<1>5. CASE n = "analysis"
  BY <1>1, <1>2, <1>5 DEF NextNode
<1>6. CASE n = "report"
  BY <1>1, <1>6 DEF NextNode
<1> QED
  BY <1>3, <1>4, <1>5, <1>6 DEF Nodes

(* On to the next node, or out of the loop with the report.                *)
LEMMA PublishProgressStep ==
  ASSUME IInv, NEW w \in Workers, PublishProgress(w)
  PROVE  IInv' /\ Evolves
<1> DEFINE e == ex[w]
           row == tasks[e.task]
<1>1. Busy(e) /\ e.pc = "persisted"
  BY DEF PublishProgress, At, Busy
<1>2. /\ e \in Executions /\ InStep(e, row) /\ NoReportYet(e, e.task \in reports)
      /\ row \in Rows /\ e.iteration \in Nat /\ e.node \in Nodes
      /\ ex \in [Workers -> Executions]
  BY <1>1, InHand
<1>3. PICK next \in After(e.node, e.iteration) :
        ex' = [ex EXCEPT ![w].cached = Refresh(w),
                         ![w].pc = IF next = "end" THEN "final" ELSE "node",
                         ![w].node = IF next = "end" THEN @ ELSE next]
  BY DEF PublishProgress
<1> DEFINE pc == IF next = "end" THEN "final" ELSE "node"
           n == IF next = "end" THEN e.node ELSE next
           new == [e EXCEPT !.cached = row, !.pc = pc, !.node = n]
<1>4. ex' = [ex EXCEPT ![w] = new]
  BY <1>2, <1>3 DEF Refresh
<1>5. /\ e.node = "planner" => next = "search"
      /\ e.node = "search" => next = "analysis"
      /\ e.node = "analysis" =>
           next = "report" \/ (next = "search" /\ e.iteration < MaxIterations)
      /\ e.node = "report" => next = "end"
  BY <1>2, AfterNode
<1>6. /\ next = "end" => pc = "final" /\ n = e.node
      /\ next # "end" => pc = "node" /\ n = next
      /\ n \in Nodes /\ pc \in Points /\ pc # "idle"
  BY <1>2, <1>5 DEF Nodes, Points
<1> HIDE DEF pc, n
<1>7. /\ new \in Executions /\ new.task = e.task /\ new.pc = pc
      /\ new.cached = row /\ new.poisoned = e.poisoned
      /\ new.iteration = e.iteration /\ new.node = n
  BY <1>2, <1>6 DEF Executions
<1>8. /\ row.status = "running" /\ row.stage = StageOfNode[e.node]
      /\ row.iterations = e.iteration /\ e.iteration <= MaxIterations
      /\ ~e.poisoned /\ (e.node = "planner" => e.iteration = 0)
  BY <1>1, <1>2 DEF InStep, InTry
<1>9. InStep(new, row)
  <2>1. CASE e.node = "planner"
    BY <1>5, <1>6, <1>7, <1>8, <2>1, MaxIterationsAssumption
       DEF InStep, InTry, StageOfNode, StageBefore
  <2>2. CASE e.node = "search"
    BY <1>5, <1>6, <1>7, <1>8, <2>2 DEF InStep, InTry, StageOfNode, StageBefore
  <2>3. CASE e.node = "analysis"
    BY <1>5, <1>6, <1>7, <1>8, <2>3 DEF InStep, InTry, StageOfNode, StageBefore
  <2>4. CASE e.node = "report"
    BY <1>5, <1>6, <1>7, <1>8, <2>4 DEF InStep, InTry, StageOfNode
  <2> QED
    BY <1>2, <2>1, <2>2, <2>3, <2>4 DEF Nodes
<1>10. LocalOK(new, row, e.task \in reports)
  BY <1>1, <1>2, <1>9 DEF LocalOK, NoReportYet
<1>11. Busy(new)
  BY <1>6, <1>7 DEF Busy
<1> QED
  BY <1>1, <1>4, <1>7, <1>10, <1>11, OwnStep DEF PublishProgress

(* upsert_report looks for a report of a completed task.                   *)
LEMMA LookUpReportStep ==
  ASSUME IInv, NEW w \in Workers, LookUpReport(w)
  PROVE  IInv' /\ Evolves
<1> DEFINE e == ex[w]
           row == tasks[e.task]
           seen == e.task \in reports
           new == [e EXCEPT !.cached = row, !.seen = seen, !.pc = "save"]
<1>1. Busy(e) /\ e.pc = "finalized"
  BY DEF LookUpReport, At, Busy
<1>2. /\ e \in Executions /\ InStep(e, row) /\ NoReportYet(e, e.task \in reports)
      /\ row \in Rows /\ ex \in [Workers -> Executions]
  BY <1>1, InHand
<1>3. ex' = [ex EXCEPT ![w] = new]
  BY <1>2 DEF LookUpReport, Refresh
<1>4. seen \in BOOLEAN
  OBVIOUS
<1> HIDE DEF seen
<1>5. /\ new \in Executions /\ new.task = e.task /\ new.pc = "save"
      /\ new.cached = row /\ new.poisoned = e.poisoned
      /\ new.iteration = e.iteration
  BY <1>2, <1>4 DEF Executions, Points
<1>6. InStep(new, row)
  BY <1>1, <1>2, <1>5 DEF InStep, InTry
<1>7. LocalOK(new, row, e.task \in reports)
  BY <1>1, <1>2, <1>6 DEF LocalOK, NoReportYet
<1>8. Busy(new)
  BY <1>5 DEF Busy
<1> QED
  BY <1>1, <1>3, <1>5, <1>7, <1>8, OwnStep DEF LookUpReport

(* The except clause is entered from inside the workflow.                  *)
LEMMA NodeRaisesStep ==
  ASSUME IInv, NEW w \in Workers, NodeRaises(w)
  PROVE  IInv' /\ Evolves
<1> DEFINE e == ex[w]
           row == tasks[e.task]
           new == [e EXCEPT !.pc = "except"]
<1>1. Busy(e) /\ e.pc \in {"node", "final"}
  BY DEF NodeRaises, At, Busy
<1>2. e \in Executions /\ InStep(e, row) /\ ex \in [Workers -> Executions]
  BY <1>1, InHand
<1>3. /\ new \in Executions /\ new.task = e.task /\ new.pc = "except"
      /\ new.cached = e.cached /\ new.poisoned = e.poisoned
      /\ new.iteration = e.iteration
  BY <1>2 DEF Executions, Points
<1>4. LocalOK(new, row, e.task \in reports) /\ Busy(new)
  BY <1>1, <1>2, <1>3 DEF LocalOK, NoReportYet, InStep, InTry, Busy, Failing
<1>5. ex' = [ex EXCEPT ![w] = new]
  BY <1>2 DEF NodeRaises, GoTo
<1> QED
  BY <1>1, <1>3, <1>4, <1>5, OwnStep DEF NodeRaises

(* update_state raises inside the try statement.                           *)
LEMMA PublishRaisesStep ==
  ASSUME IInv, NEW w \in Workers, PublishRaises(w)
  PROVE  IInv' /\ Evolves
<1> DEFINE e == ex[w]
           row == tasks[e.task]
           new == [e EXCEPT !.cached = row, !.pc = "except"]
<1>1. Busy(e) /\ e.pc = "persisted"
  BY DEF PublishRaises, At, Busy
<1>2. /\ e \in Executions /\ InStep(e, row) /\ ex \in [Workers -> Executions]
      /\ row \in Rows
  BY <1>1, InHand
<1>3. /\ new \in Executions /\ new.task = e.task /\ new.pc = "except"
      /\ new.cached = row /\ new.poisoned = e.poisoned
      /\ new.iteration = e.iteration
  BY <1>2 DEF Executions, Points
<1>4. LocalOK(new, row, e.task \in reports) /\ Busy(new)
  BY <1>1, <1>2, <1>3 DEF LocalOK, NoReportYet, InStep, InTry, Busy, Failing
<1>5. ex' = [ex EXCEPT ![w] = new]
  BY <1>2 DEF PublishRaises, Refresh
<1> QED
  BY <1>1, <1>3, <1>4, <1>5, OwnStep DEF PublishRaises

(* A refresh finds no connection: the except clause runs, in the end on a  *)
(* task that is completed.                                                 *)
LEMMA RefreshRaisesStep ==
  ASSUME IInv, NEW w \in Workers, RefreshRaises(w)
  PROVE  IInv' /\ Evolves
<1> DEFINE e == ex[w]
           row == tasks[e.task]
           p == IF e.pc = "saved" THEN "except" ELSE "reload"
           new == [e EXCEPT !.pc = p]
<1>1. Busy(e) /\ e.pc \in {"persisted", "finalized", "saved"} /\ Revocable
  BY DEF RefreshRaises, Busy, Revocable
<1>2. /\ e \in Executions /\ InStep(e, row) /\ ex \in [Workers -> Executions]
      /\ NoReportYet(e, e.task \in reports)
  BY <1>1, InHand
<1>3. /\ p \in {"except", "reload"}
      /\ e.pc # "saved" => p = "reload"
      /\ e.pc = "saved" => p = "except"
  OBVIOUS
<1>4. ex' = [ex EXCEPT ![w] = new]
  BY <1>2 DEF RefreshRaises, GoTo, At
<1> HIDE DEF p
<1>5. /\ new \in Executions /\ new.task = e.task /\ new.pc = p
      /\ new.cached = e.cached /\ new.poisoned = e.poisoned
      /\ new.iteration = e.iteration
  BY <1>2, <1>3 DEF Executions, Points
<1>6. Failing(row) /\ ~e.poisoned
  BY <1>1, <1>2 DEF InStep, InTry, Failing
<1>7. LocalOK(new, row, e.task \in reports) /\ Busy(new)
  BY <1>1, <1>2, <1>3, <1>5, <1>6 DEF LocalOK, NoReportYet, InStep, InTry, Busy
<1> QED
  BY <1>1, <1>4, <1>5, <1>7, OwnStep DEF RefreshRaises

(* get_task of mark_task_failed finds the row as it was committed.         *)
LEMMA ReloadStep ==
  ASSUME IInv, NEW w \in Workers, Reload(w)
  PROVE  IInv' /\ Evolves
<1> DEFINE e == ex[w]
           row == tasks[e.task]
           new == [e EXCEPT !.cached = row, !.pc = "except"]
<1>1. Busy(e) /\ e.pc = "reload"
  BY DEF Reload, At, Busy
<1>2. /\ e \in Executions /\ InStep(e, row) /\ ex \in [Workers -> Executions]
      /\ row \in Rows
  BY <1>1, InHand
<1>3. /\ new \in Executions /\ new.task = e.task /\ new.pc = "except"
      /\ new.cached = row /\ new.poisoned = e.poisoned
      /\ new.iteration = e.iteration
  BY <1>2 DEF Executions, Points
<1>4. LocalOK(new, row, e.task \in reports) /\ Busy(new)
  BY <1>1, <1>2, <1>3 DEF LocalOK, NoReportYet, InStep, InTry, Busy
<1>5. ex' = [ex EXCEPT ![w] = new]
  BY <1>2 DEF Reload
<1> QED
  BY <1>1, <1>3, <1>4, <1>5, OwnStep DEF Reload

(* A poisoned session is in step with any row: it writes no more.          *)
LEMMA Poisoned ==
  ASSUME NEW e \in Executions, e.iteration <= MaxIterations, NEW row, NEW stored
  PROVE  LET new == [e EXCEPT !.pc = "except", !.poisoned = TRUE]
         IN  /\ new \in Executions /\ Busy(new) /\ new.task = e.task
             /\ LocalOK(new, row, stored)
<1> DEFINE new == [e EXCEPT !.pc = "except", !.poisoned = TRUE]
<1>1. /\ new \in Executions /\ new.task = e.task /\ new.pc = "except"
      /\ new.poisoned /\ new.iteration = e.iteration
  BY DEF Executions, Points
<1>2. InStep(new, row)
  BY <1>1 DEF InStep, InTry
<1> QED
  BY <1>1, <1>2 DEF Busy, LocalOK, NoReportYet

(* The report of a completed task is stored; the execution goes on as new. *)
LEMMA ReportStep ==
  ASSUME IInv, NEW w \in Workers, ex[w].pc = "save",
         NEW new \in Executions, ex' = [ex EXCEPT ![w] = new],
         reports' = reports \union {ex[w].task},
         UNCHANGED <<tasks, queue, redelivered>>,
         \/ new = Idle
         \/ /\ Busy(new) /\ new.task = ex[w].task
            /\ LocalOK(new, tasks[ex[w].task], TRUE)
  PROVE  IInv' /\ Evolves
<1> DEFINE e == ex[w]
           row == tasks[e.task]
<1>1. Busy(e)
  BY DEF Busy
<1>2. /\ row \in Rows /\ InStep(e, row) /\ RowOK(row, e.task \in reports)
      /\ e.task \in TaskIds /\ tasks \in [TaskIds -> Rows]
      /\ reports \in SUBSET TaskIds
  BY <1>1, InHand
<1>3. row.status = "completed"
  BY <1>2 DEF InStep
<1>4. /\ tasks' = [tasks EXCEPT ![e.task] = row] /\ RowStep(row, row)
      /\ reports' \in SUBSET TaskIds /\ e.task \in reports'
      /\ \A t \in TaskIds : t # e.task => (t \in reports' <=> t \in reports)
  BY <1>2 DEF RowStep
<1>5. RowOK(row, e.task \in reports')
  BY <1>2, <1>3 DEF RowOK
<1>6. \/ new = Idle
      \/ /\ Busy(new) /\ new.task = e.task
         /\ LocalOK(new, row, e.task \in reports')
  BY <1>4 DEF LocalOK, NoReportYet
<1> QED
  BY <1>1, <1>2, <1>4, <1>5, <1>6, WorkerStep

(* upsert_report commits.                                                  *)
LEMMA SaveReportStep ==
  ASSUME IInv, NEW w \in Workers, SaveReport(w)
  PROVE  IInv' /\ Evolves
<1> DEFINE e == ex[w]
           new == [e EXCEPT !.pc = "saved"]
<1>1. Busy(e) /\ e.pc = "save"
  BY DEF SaveReport, At, Busy
<1>2. /\ e \in Executions /\ InStep(e, tasks[e.task])
      /\ ex \in [Workers -> Executions]
  BY <1>1, InHand
<1>3. /\ new \in Executions /\ new.task = e.task /\ new.pc = "saved"
      /\ new.cached = e.cached /\ new.poisoned = e.poisoned
      /\ new.iteration = e.iteration
  BY <1>2 DEF Executions, Points
<1>4. LocalOK(new, tasks[e.task], TRUE) /\ Busy(new)
  BY <1>1, <1>2, <1>3 DEF LocalOK, NoReportYet, InStep, InTry, Busy
<1>5. ex' = [ex EXCEPT ![w] = new]
  BY <1>2 DEF SaveReport, GoTo
<1> QED
  BY <1>1, <1>3, <1>4, <1>5, ReportStep DEF SaveReport

(* An INSERT that fails poisons the session.                               *)
LEMMA SaveReportConflictStep ==
  ASSUME IInv, NEW w \in Workers, SaveReportConflict(w)
  PROVE  IInv' /\ Evolves
<1> DEFINE e == ex[w]
           new == [e EXCEPT !.pc = "except", !.poisoned = TRUE]
<1>1. Busy(e)
  BY DEF SaveReportConflict, At, Busy
<1>2. /\ e \in Executions /\ e.iteration <= MaxIterations
      /\ ex \in [Workers -> Executions]
  BY <1>1, InHand DEF InStep
<1>3. /\ new \in Executions /\ Busy(new) /\ new.task = e.task
      /\ LocalOK(new, tasks[e.task], e.task \in reports)
  BY <1>2, Poisoned
<1>4. ex' = [ex EXCEPT ![w] = new]
  BY <1>2 DEF SaveReportConflict
<1> QED
  BY <1>1, <1>3, <1>4, OwnStep DEF SaveReportConflict

(* The commit of an update that the execution does not outlive.            *)
LEMMA LastWriteStep ==
  ASSUME IInv, NEW w \in Workers, Write(w), ~ex[w].poisoned,
         ex[w].pc \in {"mark", "except"}, Finish(w),
         UNCHANGED <<reports, queue, redelivered>>
  PROVE  IInv' /\ Evolves
<1> DEFINE e == ex[w]
           row == Wanted(e)
<1>1. Busy(e)
  BY DEF Busy
<1>2. /\ tasks' = [tasks EXCEPT ![e.task] = row]
      /\ row \in Rows
      /\ RowOK(row, e.task \in reports) /\ RowStep(tasks[e.task], row)
  BY UpdateOutcome
<1>3. reports \in SUBSET TaskIds /\ reports' = reports /\ Idle \in Executions
  BY <1>1, InHand
<1>4. RowOK(row, e.task \in reports')
  BY <1>2, <1>3 DEF RowOK
<1> HIDE DEF row
<1> QED
  BY <1>1, <1>2, <1>3, <1>4, WorkerStep DEF Finish

(* mark_task_failed ends the execution of a running task.                  *)
LEMMA MarkFailedStep ==
  ASSUME IInv, NEW w \in Workers, MarkFailed(w)
  PROVE  IInv' /\ Evolves
  BY LastWriteStep DEF MarkFailed, At

(* A call that raises here ends the execution, its commit applied or not.  *)
LEMMA DbRaisesOutsideTryStep ==
  ASSUME IInv, NEW w \in Workers, DbRaisesOutsideTry(w)
  PROVE  IInv' /\ Evolves
<1>1. /\ ex[w].pc \in {"load", "mark", "marked", "reload", "except"}
      /\ ~ex[w].poisoned
      /\ CommitLost(w) /\ Finish(w) /\ UNCHANGED <<queue, redelivered>>
  BY DEF DbRaisesOutsideTry
<1>2. CASE UNCHANGED <<tasks, reports>>
  BY <1>1, <1>2, FinishStep DEF Busy
<1>3. CASE /\ ex[w].pc \in {"mark", "persist", "final", "except"}
           /\ Write(w) /\ UNCHANGED reports
  BY <1>1, <1>3, LastWriteStep
<1> QED
  BY <1>1, <1>2, <1>3 DEF CommitLost

(* The commit that raises may have been applied; the session is poisoned.  *)
LEMMA DbRaisesInsideTryStep ==
  ASSUME IInv, NEW w \in Workers, DbRaisesInsideTry(w)
  PROVE  IInv' /\ Evolves
<1> DEFINE e == ex[w]
           new == [e EXCEPT !.pc = "except", !.poisoned = TRUE]
<1>1. /\ e.pc \in {"persist", "persisted", "final", "finalized", "save", "saved"}
      /\ CommitLost(w) /\ UNCHANGED <<queue, redelivered>> /\ Busy(e)
      /\ ex' = [ex EXCEPT ![w].pc = "except", ![w].poisoned = TRUE]
  BY DEF DbRaisesInsideTry, Busy
<1>2. /\ e \in Executions /\ e.iteration <= MaxIterations /\ ~e.poisoned
      /\ ex \in [Workers -> Executions]
      /\ reports \in SUBSET TaskIds
  BY <1>1, InHand DEF InStep
<1>3. ex' = [ex EXCEPT ![w] = new]
  BY <1>1, <1>2
<1>4. /\ new \in Executions /\ Busy(new) /\ new.task = e.task
      /\ \A row, stored : LocalOK(new, row, stored)
  BY <1>2, Poisoned
<1> HIDE DEF new
<1>5. CASE UNCHANGED <<tasks, reports>>
  BY <1>1, <1>3, <1>4, <1>5, OwnStep
<1>6. CASE e.pc \in {"persist", "final"} /\ Write(w) /\ UNCHANGED reports
  <2> DEFINE row == Wanted(e)
  <2>1. /\ tasks' = [tasks EXCEPT ![e.task] = row]
        /\ row \in Rows
        /\ RowOK(row, e.task \in reports) /\ RowStep(tasks[e.task], row)
    BY <1>2, <1>6, UpdateOutcome
  <2>2. RowOK(row, e.task \in reports') /\ reports' = reports
    BY <1>6, <2>1 DEF RowOK
  <2> HIDE DEF row
  <2> QED
    BY <1>1, <1>2, <1>3, <1>4, <2>1, <2>2, WorkerStep
<1>7. CASE e.pc = "save" /\ reports' = reports \union {e.task} /\ UNCHANGED tasks
  BY <1>1, <1>3, <1>4, <1>7, ReportStep
<1> QED
  BY <1>1, <1>5, <1>6, <1>7 DEF CommitLost

(* A worker takes the only message of a task that nobody has in hand.      *)
LEMMA ReceiveStep ==
  ASSUME IInv, NEW w \in Workers, NEW t \in TaskIds, Receive(w, t)
  PROVE  IInv' /\ UNCHANGED tasks
<1> DEFINE new == [Idle EXCEPT !.pc = "load", !.task = t]
<1>1. /\ ~Busy(ex[w]) /\ queue[t] > 0 /\ queue' = [queue EXCEPT ![t] = @ - 1]
      /\ ex' = [ex EXCEPT ![w] = new]
      /\ UNCHANGED <<tasks, reports, redelivered>>
  BY DEF Receive, At, Busy
<1>2. /\ queue[t] = 1 /\ tasks[t] = NewRow /\ t \notin reports
      /\ queue \in [TaskIds -> Nat] /\ ex \in [Workers -> Executions]
  BY <1>1 DEF IInv, WaitingOK, TypeOK
<1>3. /\ new.pc = "load" /\ new.task = t /\ new.cached = NewRow
      /\ new.node = "planner" /\ new.iteration = 0 /\ ~new.poisoned
      /\ new \in Executions
  BY IdleType DEF Idle, Executions, Points
<1> HIDE DEF new
<1>4. /\ ex'[w] = new /\ queue'[t] = 0 /\ Busy(new)
      /\ \A v \in Workers : v # w => ex'[v] = ex[v]
      /\ \A u \in TaskIds : u # t => queue'[u] = queue[u]
      /\ queue' \in [TaskIds -> Nat] /\ ex' \in [Workers -> Executions]
  BY <1>1, <1>2, <1>3 DEF Busy
<1>5. \A v \in Workers : Busy(ex[v]) => ex[v].task # t /\ ex[v].task \in TaskIds
  BY <1>2 DEF IInv, Exclusive, TypeOK, Busy
<1>6. TypeOK'
  BY <1>1, <1>3, <1>4 DEF IInv, TypeOK
<1>7. (\A u \in TaskIds : RowOK(tasks[u], u \in reports))'
  BY <1>1 DEF IInv
<1>8. (\A u \in TaskIds : WaitingOK(u))'
  BY <1>1, <1>4 DEF IInv, WaitingOK
<1>9. (\A v \in Workers : Exclusive(v))'
  BY <1>3, <1>4, <1>5 DEF IInv, Exclusive
<1>10. (\A v \in Workers : ~Busy(ex[v]) => ex[v] = Idle)'
  BY <1>4 DEF IInv
<1>11. LocalOK(new, NewRow, FALSE)
  BY <1>3, MaxIterationsAssumption DEF LocalOK, NoReportYet, InStep, InTry
<1>12. (\A v \in Workers :
          Busy(ex[v]) => LocalOK(ex[v], tasks[ex[v].task], ex[v].task \in reports))'
  BY <1>1, <1>2, <1>3, <1>4, <1>11 DEF IInv, LocalOK, NoReportYet
<1> QED
  BY <1>1, <1>6, <1>7, <1>8, <1>9, <1>10, <1>12 DEF IInv
-----------------------------------------------------------------------------
(* The invariant, and what follows from it.                                *)

(* The initial state satisfies the inductive invariant.                    *)
LEMMA InitIInv == Init => IInv
<1> SUFFICES ASSUME Init PROVE IInv
  OBVIOUS
<1>1. TypeOK
  BY IdleType, MaxRedeliveriesAssumption DEF Init, TypeOK, Idle
<1>2. \A t \in TaskIds : RowOK(tasks[t], t \in reports) /\ WaitingOK(t)
  <2>1. RowOK(NewRow, FALSE)
    BY MaxIterationsAssumption DEF RowOK, Coherent, NewRow
  <2>2. ASSUME NEW t \in TaskIds PROVE RowOK(tasks[t], t \in reports) /\ WaitingOK(t)
    <3>1. tasks[t] = NewRow /\ t \notin reports /\ queue[t] = 1
      BY DEF Init
    <3>2. RowOK(NewRow, t \in reports)
      BY <2>1, <3>1 DEF RowOK
    <3> QED
      BY <3>1, <3>2 DEF WaitingOK
  <2> QED
    BY <2>2
<1>3. \A w \in Workers : ex[w] = Idle /\ ~Busy(ex[w])
  BY DEF Init, Busy, Idle
<1> QED
  BY <1>1, <1>2, <1>3 DEF IInv, Init, Exclusive

(* Every step keeps the invariant and does to one row, at most, what       *)
(* RowStep allows.                                                         *)
LEMMA NextIInv ==
  ASSUME MaxRedeliveries = 0, IInv, [Next]_vars
  PROVE  IInv' /\ (Evolves \/ UNCHANGED tasks)
<1>1. CASE UNCHANGED vars
  BY <1>1 DEF vars, IInv, TypeOK, RowOK, WaitingOK, Exclusive
<1>2. ASSUME NEW t \in TaskIds, Redeliver(t) PROVE FALSE
  BY <1>2 DEF Redeliver, IInv
<1>3. ASSUME NEW w \in Workers, NEW t \in TaskIds, Receive(w, t)
      PROVE  IInv' /\ UNCHANGED tasks
  BY <1>3, ReceiveStep
<1>4. ASSUME NEW w \in Workers, Step(w) PROVE IInv' /\ Evolves
  <2>1. CASE MarkFailedRaises(w) \/ RefreshReport(w)
    BY <2>1, FinishStep DEF MarkFailedRaises, RefreshReport, At, Busy
  <2> QED
    BY <1>4, <2>1, LoadStep, MarkRunningStep, BuildGraphStep, RunNodeStep,
       PersistProgressStep, PublishProgressStep, PersistFinalStep,
       LookUpReportStep, SaveReportStep, SaveReportConflictStep, ReloadStep,
       MarkFailedStep DEF Step
<1>5. ASSUME NEW w \in Workers, Fault(w) PROVE IInv' /\ Evolves
  <2>1. CASE BuildRaises(w) \/ Crash(w)
    BY <2>1, FinishStep DEF BuildRaises, Crash, At, Busy
  <2> QED
    BY <1>5, <2>1, NodeRaisesStep, PublishRaisesStep, DbRaisesOutsideTryStep,
       DbRaisesInsideTryStep, RefreshRaisesStep DEF Fault
<1> QED
  BY <1>1, <1>2, <1>3, <1>4, <1>5 DEF Next

(* Without redelivered messages, IInv holds in every reachable state.      *)
THEOREM Invariant == ASSUME MaxRedeliveries = 0 PROVE Spec => []IInv
<1>1. IInv /\ [Next]_vars => IInv'
  BY NextIInv
<1> QED
  BY <1>1, InitIInv, PTL DEF Spec

(* The columns of a row tell one story, after any fault: whoever writes    *)
(* status, stage and error knows what the others hold.                     *)
THEOREM StagesMatchStatuses ==
  ASSUME MaxRedeliveries = 0 PROVE Spec => []StageMatchesStatus
<1>1. IInv => StageMatchesStatus
  BY DEF IInv, RowOK, StageMatchesStatus
<1> QED
  BY <1>1, Invariant, PTL

(* A stored report is hidden by the status of its task only when a refresh *)
(* has failed after the commit that stored it.                             *)
THEOREM ReportsAreBacked ==
  ASSUME MaxRedeliveries = 0 PROVE Spec => []ReportBacked
<1>1. IInv => ReportBacked
  BY DEF IInv, TypeOK, RowOK, ReportBacked
<1> QED
  BY <1>1, Invariant, PTL

(* The status endpoint never shows more iterations than were asked for.    *)
THEOREM IterationsAreBounded ==
  ASSUME MaxRedeliveries = 0 PROVE Spec => []IterationsBounded
<1>1. IInv => IterationsBounded
  BY DEF IInv, RowOK, IterationsBounded
<1> QED
  BY <1>1, Invariant, PTL

(* What a step does to the rows, task by task.                             *)
LEMMA RowsStep ==
  ASSUME IInv, Evolves \/ UNCHANGED tasks
  PROVE  \A t \in TaskIds : RowStep(tasks[t], tasks'[t])
<1> tasks \in [TaskIds -> Rows]
  BY DEF IInv, TypeOK
<1>1. \A t \in TaskIds : RowStep(tasks[t], tasks[t])
  BY DEF RowStep
<1>2. CASE UNCHANGED tasks
  BY <1>1, <1>2
<1>3. CASE Evolves
  BY <1>1, <1>3 DEF Evolves
<1> QED
  BY <1>2, <1>3

(* How far a client sees a task is a number.                               *)
LEMMA ProgressType ==
  ASSUME NEW row \in Rows, Coherent(row)
  PROVE  Progress(row) \in Nat
<1>1. StageForApi(row) \in DOMAIN Rank
  BY PhaseOf DEF Rows, Statuses, Rank
<1>2. Rank[StageForApi(row)] \in Nat
  BY <1>1 DEF Rank
<1> QED
  BY <1>2 DEF Progress, Rows

(* Whatever fails, a failed task is never written again, and a completed   *)
(* one only to take its completion back after a failed refresh.            *)
THEOREM OutcomesLast ==
  ASSUME MaxRedeliveries = 0 PROVE Spec => OutcomesStand
<1>1. IInv /\ [Next]_vars =>
        [\A t \in TaskIds : Terminal(tasks[t]) =>
           \/ tasks'[t] = tasks[t]
           \/ Revocable /\ tasks[t].status = "completed" /\ tasks'[t].status = "failed"]_vars
  BY NextIInv, RowsStep DEF RowStep
<1> QED
  BY <1>1, Invariant, PTL DEF Spec, OutcomesStand

(* As long as every refresh finds a connection, completed and failed are   *)
(* terminal, whichever other faults strike.                                *)
THEOREM OutcomesAreFinal ==
  ASSUME MaxRedeliveries = 0, "refresh" \notin Faults
  PROVE  Spec => TerminalIsFinal
<1>1. IInv /\ [Next]_vars =>
        [\A t \in TaskIds : Terminal(tasks[t]) => tasks'[t] = tasks[t]]_vars
  BY NextIInv, RowsStep DEF RowStep, Revocable
<1> QED
  BY <1>1, Invariant, PTL DEF Spec, TerminalIsFinal

(* A polling client never sees a task go backwards.                        *)
THEOREM ClientsSeeProgress ==
  ASSUME MaxRedeliveries = 0 PROVE Spec => ProgressNeverReverts
<1>1. IInv /\ [Next]_vars =>
        [\A t \in TaskIds : Progress(tasks[t]) <= Progress(tasks'[t])]_vars
  <2> SUFFICES ASSUME IInv, [Next]_vars, NEW t \in TaskIds
               PROVE  Progress(tasks[t]) <= Progress(tasks'[t])
    OBVIOUS
  <2>1. RowStep(tasks[t], tasks'[t])
    BY NextIInv, RowsStep
  <2>2. Progress(tasks[t]) \in Nat
    BY ProgressType DEF IInv, TypeOK, RowOK
  <2> QED
    BY <2>1, <2>2 DEF RowStep
<1> QED
  BY <1>1, Invariant, PTL DEF Spec, ProgressNeverReverts

(* The executions implement the lifecycle of a task: every step is one     *)
(* transition of one task, or none.                                        *)
THEOREM ExecutionsImplementLifecycle ==
  ASSUME MaxRedeliveries = 0 PROVE Spec => ImplementsLifecycle
<1> DEFINE phase == [t \in TaskIds |-> StageForApi(tasks[t])]
<1>1. Init => Lifecycle!Init
  <2> SUFFICES ASSUME Init PROVE Lifecycle!Init
    OBVIOUS
  <2>1. \A t \in TaskIds : StageForApi(tasks[t]) = "queued"
    BY DEF Init, NewRow, StageForApi
  <2> QED
    BY <2>1 DEF Lifecycle!Init
<1>2. IInv /\ [Next]_vars => [Lifecycle!Next]_phase
  <2> SUFFICES ASSUME IInv, [Next]_vars PROVE Lifecycle!Next \/ phase' = phase
    OBVIOUS
  <2>1. CASE UNCHANGED tasks
    BY <2>1
  <2>2. CASE Evolves
    <3>1. PICK t \in TaskIds, row \in Rows :
            tasks' = [tasks EXCEPT ![t] = row] /\ RowStep(tasks[t], row)
      BY <2>2 DEF Evolves
    <3>2. tasks \in [TaskIds -> Rows]
      BY DEF IInv, TypeOK
    <3>3. phase' = [phase EXCEPT ![t] = StageForApi(row)]
      BY <3>1, <3>2
    <3>4. CASE StageForApi(row) = StageForApi(tasks[t])
      BY <3>3, <3>4
    <3>5. CASE StageForApi(row) \in Lifecycle!Successor[phase[t]]
      BY <3>3, <3>5 DEF Lifecycle!Next, Lifecycle!Advance
    <3> QED
      BY <3>1, <3>4, <3>5 DEF RowStep
  <2> QED
    BY <2>1, <2>2, NextIInv
<1> QED
  BY <1>1, <1>2, Invariant, PTL DEF Spec, ImplementsLifecycle, Lifecycle!Spec

-----------------------------------------------------------------------------
(* When messages may be delivered twice: the inductive invariant.          *)

(* Work that has not come to its outcome yet: the next of its updates may  *)
(* be the one that records it, or there is one after it.                   *)
Writing(e) ==
  \/ e.pc \in {"load", "mark", "marked", "node", "persist", "persisted", "final", "reload"}
  \/ e.pc = "except" /\ ~e.poisoned

WritesTo(w, t) == ex[w].task = t /\ Writing(ex[w])

(* How many executions of a task have not recorded an outcome, those whose *)
(* message still waits included.                                           *)
NoneToCome(t) == queue[t] = 0 /\ \A w \in Workers : ~WritesTo(w, t)

TwoToCome(t) ==
  \/ queue[t] = 2
  \/ queue[t] = 1 /\ \E w \in Workers : WritesTo(w, t)
  \/ \E v, w \in Workers : v # w /\ WritesTo(v, t) /\ WritesTo(w, t)

TwoAtMost(t) ==
  /\ queue[t] <= 2
  /\ queue[t] = 2 => \A w \in Workers : ~WritesTo(w, t)
  /\ queue[t] = 1 =>
       \A v, w \in Workers : WritesTo(v, t) /\ WritesTo(w, t) => v = w
  /\ \A v, w \in Workers :
       v # w /\ WritesTo(v, t) /\ WritesTo(w, t) =>
         queue[t] = 0 /\ \A u \in Workers : WritesTo(u, t) => u \in {v, w}

(* A row, or a copy of one, that shows no outcome.                         *)
Clean(row) ==
  /\ row.status \in {"pending", "running"}
  /\ row.stage \in {"planning", "search", "analysis", "report"}
  /\ ~row.error

(* What a copy shows of an outcome, the row still shows.                   *)
InTerms(e, row) ==
  e.pc \in {"mark", "node", "persist", "final", "except"} =>
    /\ e.cached.status \in {"completed", "failed"} => row.status = e.cached.status
    /\ e.cached.stage \in {"done", "error"} => row.stage = e.cached.stage
    /\ e.cached.error => row.error

(* The columns agree, and a completed task has its report or gets it.      *)
Recorded(t) ==
  \/ /\ tasks[t].status = "completed" /\ tasks[t].stage = "done"
     /\ \/ t \in reports
        \/ \E w \in Workers : ex[w].task = t /\ ex[w].pc \in {"finalized", "save"}
  \/ tasks[t].status = "failed" /\ tasks[t].stage = "error" /\ tasks[t].error

Settling(t) ==
  /\ TwoAtMost(t)
  /\ redelivered = 0 /\ queue[t] > 0 =>
       /\ queue[t] = 1 /\ Clean(tasks[t])
       /\ \A w \in Workers : ~WritesTo(w, t)
  /\ TwoToCome(t) =>
       /\ Clean(tasks[t])
       /\ \A w \in Workers : WritesTo(w, t) => Clean(ex[w].cached)
  /\ \A w \in Workers : WritesTo(w, t) => InTerms(ex[w], tasks[t])
  /\ NoneToCome(t) => Recorded(t)

SettlingInv ==
  /\ TypeOK
  /\ \A w \in Workers : ex[w].poisoned => ex[w].pc = "except"
  /\ \A t \in TaskIds : Settling(t)

-----------------------------------------------------------------------------
(* The frame: a step concerns one task.                                    *)

(* A task of which a step changes nothing but, maybe, that some message    *)
(* has been redelivered.                                                   *)
LEMMA Bystander ==
  ASSUME NEW t \in TaskIds, Settling(t),
         tasks'[t] = tasks[t], t \in reports' <=> t \in reports,
         queue'[t] = queue[t], redelivered' = 0 => redelivered = 0,
         \A v \in Workers : ex'[v] = ex[v] \/ (ex[v].task # t /\ ex'[v].task # t)
  PROVE  Settling(t)'
<1>1. /\ \A v \in Workers : WritesTo(v, t)' <=> WritesTo(v, t)
      /\ \A v \in Workers : WritesTo(v, t) => ex'[v] = ex[v]
  BY DEF WritesTo
<1>2. (TwoAtMost(t)' <=> TwoAtMost(t)) /\ (TwoToCome(t)' <=> TwoToCome(t))
      /\ (NoneToCome(t)' <=> NoneToCome(t))
  BY <1>1 DEF TwoAtMost, TwoToCome, NoneToCome
<1>3. Recorded(t) => Recorded(t)'
  BY DEF Recorded
<1> QED
  BY <1>1, <1>2, <1>3 DEF Settling

(* A step of a worker that goes on with another task.                      *)
LEMMA OtherTask ==
  ASSUME SettlingInv, NEW w \in Workers, Step(w) \/ Fault(w),
         UNCHANGED redelivered, NEW t \in TaskIds, ex[w].task # t
  PROVE  Settling(t)'
<1>1. /\ tasks'[t] = tasks[t] /\ (t \in reports' <=> t \in reports)
      /\ queue' = queue /\ ex'[w].task # t
      /\ \A v \in Workers : v # w => ex'[v] = ex[v]
  BY OwnTaskStep DEF SettlingInv
<1>2. Settling(t)
  BY DEF SettlingInv
<1>3. \A v \in Workers : ex'[v] = ex[v] \/ (ex[v].task # t /\ ex'[v].task # t)
  BY <1>1
<1> QED
  BY <1>1, <1>2, <1>3, Bystander

(* What the invariant says of a worker that is busy.                       *)
LEMMA BusyTask ==
  ASSUME SettlingInv, NEW w \in Workers, ex[w].pc # "idle"
  PROVE  /\ ex[w] \in Executions /\ ex[w].task \in TaskIds
         /\ ex[w].cached \in Rows /\ tasks[ex[w].task] \in Rows
         /\ ex \in [Workers -> Executions] /\ tasks \in [TaskIds -> Rows]
         /\ queue \in [TaskIds -> Nat] /\ Settling(ex[w].task)
         /\ ex[w].poisoned => ex[w].pc = "except"
  BY DEF SettlingInv, TypeOK, Executions

(* A worker that writes on: the row is untouched and its copy of it is     *)
(* the same or new.                                                        *)
LEMMA WritesOn ==
  ASSUME SettlingInv, NEW w \in Workers, NEW t \in TaskIds, ex[w].task = t,
         Writing(ex[w]), NEW new,
         ex' = [ex EXCEPT ![w] = new], new.task = t, Writing(new),
         UNCHANGED <<tasks, reports, queue, redelivered>>,
         \/ new.cached = tasks[t]
         \/ /\ new.cached = ex[w].cached
            /\ ex[w].pc \in {"mark", "node", "persist", "final", "except"}
  PROVE  Settling(t)'
<1>1. /\ t \in TaskIds /\ Settling(t) /\ ex \in [Workers -> Executions]
      /\ tasks[t] \in Rows
  BY BusyTask DEF Writing
<1>2. ex'[w] = new /\ \A v \in Workers : v # w => ex'[v] = ex[v]
  BY <1>1
<1>3. WritesTo(w, t) /\ \A v \in Workers : WritesTo(v, t)' <=> WritesTo(v, t)
  BY <1>2 DEF WritesTo
<1>4. (TwoAtMost(t)' <=> TwoAtMost(t)) /\ (TwoToCome(t)' <=> TwoToCome(t))
      /\ ~NoneToCome(t)'
  BY <1>3 DEF TwoAtMost, TwoToCome, NoneToCome
<1>5. \A v \in Workers : WritesTo(v, t) => InTerms(ex[v], tasks[t])'
  BY <1>1, <1>2, <1>3 DEF Settling, InTerms
<1>6. TwoToCome(t) => \A v \in Workers : WritesTo(v, t) => Clean(ex[v].cached)'
  BY <1>1, <1>2, <1>3 DEF Settling, Clean
<1> QED
  BY <1>1, <1>3, <1>4, <1>5, <1>6 DEF Settling

(* A row with no outcome that is updated through a copy with none, to one  *)
(* with none, still shows none.                                            *)
LEMMA CleanFlush ==
  ASSUME NEW stored, NEW loaded, NEW wanted,
         Clean(stored), Clean(wanted)
  PROVE  Clean(Flush(stored, loaded, wanted))
  BY DEF Clean, Flush, Changed

(* An update that is not the last one.                                     *)
LEMMA CommitsMore ==
  ASSUME SettlingInv, NEW w \in Workers, NEW t \in TaskIds, ex[w].task = t,
         Writing(ex[w]), NEW new,
         ex' = [ex EXCEPT ![w] = new], new.task = t,
         new.pc \in {"marked", "persisted"},
         tasks' = [tasks EXCEPT ![t] =
                     Flush(@, ex[w].cached, new.cached)],
         UNCHANGED <<reports, queue, redelivered>>,
         Clean(ex[w].cached) => Clean(new.cached)
  PROVE  Settling(t)'
<1>1. /\ t \in TaskIds /\ Settling(t) /\ ex \in [Workers -> Executions]
      /\ tasks \in [TaskIds -> Rows]
  BY BusyTask DEF Writing
<1>2. /\ ex'[w] = new /\ \A v \in Workers : v # w => ex'[v] = ex[v]
      /\ tasks'[t] = Flush(tasks[t], ex[w].cached, new.cached)
  BY <1>1
<1>3. WritesTo(w, t) /\ \A v \in Workers : WritesTo(v, t)' <=> WritesTo(v, t)
  BY <1>2 DEF WritesTo, Writing
<1>4. (TwoAtMost(t)' <=> TwoAtMost(t)) /\ (TwoToCome(t)' <=> TwoToCome(t))
      /\ ~NoneToCome(t)'
  BY <1>3 DEF TwoAtMost, TwoToCome, NoneToCome
<1>5. CASE TwoToCome(t)
  <2>1. Clean(tasks[t]) /\ \A v \in Workers : WritesTo(v, t) => Clean(ex[v].cached)
    BY <1>1, <1>5 DEF Settling
  <2>2. Clean(new.cached)
    BY <1>3, <2>1
  <2>3. Clean(tasks'[t])
    BY <1>2, <2>1, <2>2, CleanFlush
  <2>4. \A v \in Workers : WritesTo(v, t) => Clean(ex'[v].cached)
    BY <1>2, <2>1, <2>2
  <2>5. \A v \in Workers : WritesTo(v, t) => InTerms(ex'[v], tasks'[t])
    BY <2>4 DEF Clean, InTerms
  <2> QED
    BY <1>1, <1>3, <1>4, <2>3, <2>4, <2>5 DEF Settling, Clean, InTerms
<1>6. CASE ~TwoToCome(t)
  <2>1. \A v \in Workers : WritesTo(v, t) => v = w
    BY <1>3, <1>6 DEF TwoToCome
  <2>2. InTerms(new, tasks'[t])
    BY DEF InTerms
  <2>3. ~(redelivered = 0 /\ queue[t] > 0)
    BY <1>1, <1>3 DEF Settling
  <2> QED
    BY <1>1, <1>2, <1>3, <1>4, <1>6, <2>1, <2>2, <2>3 DEF Settling
<1> QED
  BY <1>5, <1>6

(* An execution that records its outcome: it writes no more.               *)
LEMMA RecordsOutcome ==
  ASSUME SettlingInv, NEW w \in Workers, NEW t \in TaskIds, ex[w].task = t,
         Writing(ex[w]),
         ex[w].pc \in {"final", "except"}, NEW new,
         ex' = [ex EXCEPT ![w] = new], ~Writing(new), NEW wanted,
         tasks' = [tasks EXCEPT ![t] = Flush(@, ex[w].cached, wanted)],
         UNCHANGED <<reports, queue, redelivered>>,
         \/ /\ wanted.status = "completed" /\ wanted.stage = "done"
            /\ new.task = t /\ new.pc = "finalized"
         \/ wanted.status = "failed" /\ wanted.stage = "error" /\ wanted.error = TRUE
  PROVE  Settling(t)'
<1>1. /\ t \in TaskIds /\ Settling(t) /\ ex \in [Workers -> Executions]
      /\ tasks \in [TaskIds -> Rows] /\ tasks[t] \in Rows /\ ex[w].cached \in Rows
      /\ queue[t] \in Nat
  BY BusyTask DEF Writing
<1>2. /\ ex'[w] = new /\ \A v \in Workers : v # w => ex'[v] = ex[v]
      /\ tasks'[t] = Flush(tasks[t], ex[w].cached, wanted)
  BY <1>1
<1>3. /\ WritesTo(w, t) /\ ~WritesTo(w, t)'
      /\ \A v \in Workers : v # w => (WritesTo(v, t)' <=> WritesTo(v, t))
  BY <1>2 DEF WritesTo
<1>4. TwoAtMost(t)' /\ ~TwoToCome(t)'
  BY <1>1, <1>3 DEF Settling, TwoAtMost, TwoToCome
<1>5. ~(redelivered = 0 /\ queue[t] > 0)
  BY <1>1, <1>3 DEF Settling
<1>6. ASSUME NEW v \in Workers, WritesTo(v, t)' PROVE InTerms(ex'[v], tasks'[t])
  <2>1. v # w /\ WritesTo(v, t) /\ ex'[v] = ex[v]
    BY <1>2, <1>3, <1>6
  <2>2. Clean(ex[v].cached)
    BY <1>1, <1>3, <2>1 DEF Settling, TwoToCome
  <2> QED
    BY <2>1, <2>2 DEF Clean, InTerms
<1>7. Recorded(t)'
  <2>1. InTerms(ex[w], tasks[t])
    BY <1>1, <1>3 DEF Settling
  <2>2. CASE /\ wanted.status = "completed" /\ wanted.stage = "done"
             /\ new.task = t /\ new.pc = "finalized"
    <3>1. tasks'[t].status = "completed" /\ tasks'[t].stage = "done"
      BY <1>2, <2>1, <2>2 DEF InTerms, Flush, Changed
    <3> QED
      BY <1>2, <2>2, <3>1 DEF Recorded
  <2>3. CASE wanted.status = "failed" /\ wanted.stage = "error" /\ wanted.error = TRUE
    <3>1. tasks'[t].status = "failed" /\ tasks'[t].stage = "error"
      <4>1. /\ tasks'[t].status = Changed(tasks[t].status, ex[w].cached.status, "failed")
            /\ tasks'[t].stage = Changed(tasks[t].stage, ex[w].cached.stage, "error")
        BY <1>2, <2>3 DEF Flush
      <4>2. /\ ex[w].cached.status = "failed" => tasks[t].status = "failed"
            /\ ex[w].cached.stage = "error" => tasks[t].stage = "error"
        BY <2>1 DEF InTerms
      <4> QED
        BY <4>1, <4>2 DEF Changed
    <3>2. tasks'[t].error = Changed(tasks[t].error, ex[w].cached.error, wanted.error)
      BY <1>2 DEF Flush
    <3>3. tasks'[t].error
      <4>1. ex[w].cached.error => tasks[t].error
        BY <2>1 DEF InTerms
      <4>2. wanted.error = TRUE
        BY <2>3
      <4>3. ex[w].cached.error \in BOOLEAN /\ tasks[t].error \in BOOLEAN
        BY <1>1 DEF Rows
      <4> QED
        BY <3>2, <4>1, <4>2, <4>3 DEF Changed
    <3> QED
      BY <3>1, <3>3 DEF Recorded
  <2> QED
    BY <2>2, <2>3
<1> QED
  BY <1>4, <1>5, <1>6, <1>7 DEF Settling

(* An execution that has recorded its outcome and stores its report, finds *)
(* it stored, or ends.                                                     *)
LEMMA WritesNoMore ==
  ASSUME SettlingInv, NEW w \in Workers, NEW t \in TaskIds, ex[w].task = t,
         ex[w].pc # "idle", ~Writing(ex[w]),
         NEW new, ex' = [ex EXCEPT ![w] = new], ~Writing(new),
         UNCHANGED <<tasks, queue, redelivered>>,
         reports \subseteq reports',
         ex[w].pc \in {"finalized", "save"} =>
           \/ t \in reports'
           \/ new.task = t /\ new.pc \in {"finalized", "save"}
  PROVE  Settling(t)'
<1>1. /\ t \in TaskIds /\ Settling(t) /\ ex \in [Workers -> Executions]
  BY BusyTask
<1>2. ex'[w] = new /\ \A v \in Workers : v # w => ex'[v] = ex[v]
  BY <1>1
<1>3. /\ \A v \in Workers : WritesTo(v, t)' <=> WritesTo(v, t)
      /\ \A v \in Workers : WritesTo(v, t) => ex'[v] = ex[v]
  BY <1>2 DEF WritesTo
<1>4. (TwoAtMost(t)' <=> TwoAtMost(t)) /\ (TwoToCome(t)' <=> TwoToCome(t))
      /\ (NoneToCome(t)' <=> NoneToCome(t))
  BY <1>3 DEF TwoAtMost, TwoToCome, NoneToCome
<1>5. Recorded(t) => Recorded(t)'
  BY <1>2 DEF Recorded
<1> QED
  BY <1>1, <1>3, <1>4, <1>5 DEF Settling
(* The second message of a task: nobody has started on the first.          *)
LEMMA RedeliverSettles ==
  ASSUME MaxRedeliveries <= 1, SettlingInv,
         NEW s \in TaskIds, Redeliver(s), NEW t \in TaskIds
  PROVE  Settling(t)'
<1>1. /\ Settling(t) /\ Settling(s) /\ queue \in [TaskIds -> Nat]
      /\ redelivered = 0 /\ redelivered' = 1
  BY MaxRedeliveriesAssumption DEF SettlingInv, TypeOK, Redeliver
<1>2. CASE t # s
  <2>1. queue'[t] = queue[t] /\ UNCHANGED <<tasks, reports, ex>>
    BY <1>1, <1>2 DEF Redeliver
  <2> QED
    BY <1>1, <2>1, Bystander
<1>3. CASE t = s
  <2>1. /\ queue[t] = 1 /\ Clean(tasks[t]) /\ \A w \in Workers : ~WritesTo(w, t)
    BY <1>1, <1>3 DEF Settling, Redeliver
  <2>2. queue'[t] = 2 /\ UNCHANGED <<tasks, ex>>
    BY <1>1, <1>3, <2>1 DEF Redeliver
  <2>3. \A w \in Workers : ~WritesTo(w, t)'
    BY <2>1, <2>2 DEF WritesTo
  <2>4. TwoAtMost(t)' /\ ~NoneToCome(t)'
    BY <2>2, <2>3 DEF TwoAtMost, NoneToCome
  <2> QED
    BY <1>1, <2>1, <2>2, <2>3, <2>4 DEF Settling
<1> QED
  BY <1>2, <1>3

(* A worker starts on a message.                                           *)
LEMMA ReceiveSettles ==
  ASSUME SettlingInv, NEW w \in Workers, NEW s \in TaskIds, Receive(w, s),
         NEW t \in TaskIds
  PROVE  Settling(t)'
<1> DEFINE new == [Idle EXCEPT !.pc = "load", !.task = s]
<1>1. /\ Settling(t) /\ queue \in [TaskIds -> Nat] /\ ex \in [Workers -> Executions]
      /\ UNCHANGED <<tasks, reports, redelivered>>
      /\ queue' = [queue EXCEPT ![s] = @ - 1] /\ queue[s] > 0
      /\ ex' = [ex EXCEPT ![w] = new] /\ ex[w].pc = "idle"
  BY DEF SettlingInv, TypeOK, Receive, At
<1>2. new.task = s /\ new.pc = "load" /\ Clean(new.cached)
  BY DEF Idle, NewRow, Clean
<1> HIDE DEF new
<1>3. /\ ex'[w] = new /\ Writing(new) /\ ~Writing(ex[w])
      /\ \A v \in Workers : v # w => ex'[v] = ex[v]
  BY <1>1, <1>2 DEF Writing
<1>4. CASE t # s
  <2>1. \A v \in Workers : WritesTo(v, t)' <=> WritesTo(v, t)
    BY <1>2, <1>3, <1>4 DEF WritesTo
  <2>2. \A v \in Workers : WritesTo(v, t) => ex'[v] = ex[v]
    BY <1>3 DEF WritesTo
  <2>3. queue'[t] = queue[t]
    BY <1>1, <1>4
  <2>4. (TwoAtMost(t)' <=> TwoAtMost(t)) /\ (TwoToCome(t)' <=> TwoToCome(t))
        /\ (NoneToCome(t)' <=> NoneToCome(t))
    BY <2>1, <2>3 DEF TwoAtMost, TwoToCome, NoneToCome
  <2>5. Recorded(t) => Recorded(t)'
    BY <1>1, <1>3 DEF Recorded
  <2> QED
    BY <1>1, <2>1, <2>2, <2>3, <2>4, <2>5 DEF Settling
<1>5. CASE t = s
  <2>1. queue'[t] = queue[t] - 1 /\ queue[t] \in {1, 2}
    BY <1>1, <1>5 DEF Settling, TwoAtMost
  <2>2. /\ \A v \in Workers : WritesTo(v, t)' <=> v = w \/ WritesTo(v, t)
        /\ ~WritesTo(w, t)
    BY <1>2, <1>3, <1>5 DEF WritesTo
  <2>3. \A v \in Workers : WritesTo(v, t) => ex'[v] = ex[v]
    BY <1>3, <2>2
  <2>4. TwoAtMost(t)' /\ ~NoneToCome(t)'
    BY <1>1, <2>1, <2>2 DEF Settling, TwoAtMost, NoneToCome
  <2>5. TwoToCome(t)' => TwoToCome(t)
    BY <2>1, <2>2 DEF TwoToCome
  <2>6. redelivered' = 0 => queue'[t] = 0
    BY <1>1, <2>1 DEF Settling
  <2>7. TwoToCome(t) =>
          /\ Clean(tasks'[t])
          /\ \A v \in Workers : WritesTo(v, t)' => Clean(ex'[v].cached)
    BY <1>1, <1>2, <1>3, <2>2, <2>3 DEF Settling
  <2>8. \A v \in Workers : WritesTo(v, t)' => InTerms(ex'[v], tasks'[t])
    <3>1. InTerms(new, tasks'[t])
      BY <1>2 DEF InTerms
    <3> QED
      BY <1>1, <1>3, <2>2, <2>3, <3>1 DEF Settling
  <2> QED
    BY <2>1, <2>4, <2>5, <2>6, <2>7, <2>8 DEF Settling
<1> QED
  BY <1>4, <1>5

(* A worker's step keeps what is known of its task.                        *)
LEMMA OwnTask ==
  ASSUME Faults \subseteq {"node", "redis"}, SettlingInv,
         NEW w \in Workers, Step(w) \/ Fault(w),
         NEW t \in TaskIds, ex[w].task = t
  PROVE  Settling(t)'
<1> DEFINE e == ex[w]
<1>1. e.pc # "idle" => /\ e \in Executions /\ e.cached \in Rows
                       /\ tasks[t] \in Rows /\ Settling(t)
                       /\ e.poisoned => e.pc = "except"
  BY BusyTask
<1>2. ex \in [Workers -> Executions] /\ e \in Executions
  BY DEF SettlingInv, TypeOK
<1>3. CASE Load(w)
  <2> DEFINE new == [e EXCEPT !.cached = tasks[t], !.pc = "mark"]
  <2>1. ex' = [ex EXCEPT ![w] = new] /\ UNCHANGED <<tasks, reports, queue, redelivered>>
    BY <1>2, <1>3 DEF Load
  <2>2. /\ Writing(e) /\ Writing(new) /\ new.task = t /\ new.cached = tasks[t]
    BY <1>2, <1>3 DEF Load, At, Writing, Executions
  <2> HIDE DEF new
  <2> QED
    BY <2>1, <2>2, WritesOn
<1>4. CASE MarkRunning(w)
  <2> DEFINE new == [e EXCEPT !.cached = WantedRunning(e), !.pc = "marked"]
  <2>1. /\ ex' = [ex EXCEPT ![w] = new] /\ UNCHANGED <<reports, queue, redelivered>>
        /\ tasks' = [tasks EXCEPT ![t] = Flush(@, e.cached, WantedRunning(e))]
    BY <1>2, <1>4 DEF MarkRunning, At, Commit, Write, Wanted
  <2>2. /\ Writing(e) /\ new.pc = "marked" /\ new.task = t
        /\ new.cached = WantedRunning(e)
    BY <1>2, <1>4 DEF MarkRunning, At, Writing, Executions
  <2>3. Clean(WantedRunning(e))
    BY <1>2 DEF WantedRunning, Clean, Executions, Rows
  <2> HIDE DEF new
  <2> QED
    BY <2>1, <2>2, <2>3, CommitsMore
<1>5. CASE BuildGraph(w)
  <2> DEFINE new == [e EXCEPT !.cached = tasks[t], !.pc = "node"]
  <2>1. ex' = [ex EXCEPT ![w] = new] /\ UNCHANGED <<tasks, reports, queue, redelivered>>
    BY <1>2, <1>5 DEF BuildGraph, Refresh
  <2>2. /\ Writing(e) /\ Writing(new) /\ new.task = t /\ new.cached = tasks[t]
    BY <1>2, <1>5 DEF BuildGraph, At, Writing, Executions
  <2> HIDE DEF new
  <2> QED
    BY <2>1, <2>2, WritesOn
<1>6. CASE RunNode(w)
  <2> DEFINE i == IF e.node = "search" THEN e.iteration + 1 ELSE e.iteration
             new == [e EXCEPT !.pc = "persist", !.iteration = i]
  <2>1. ex' = [ex EXCEPT ![w] = new] /\ UNCHANGED <<tasks, reports, queue, redelivered>>
    BY <1>2, <1>6 DEF RunNode
  <2> HIDE DEF i
  <2>2. /\ Writing(e) /\ Writing(new) /\ new.task = t /\ new.cached = e.cached
        /\ e.pc = "node"
    BY <1>2, <1>6 DEF RunNode, At, Writing, Executions
  <2> HIDE DEF new
  <2> QED
    BY <2>1, <2>2, WritesOn
<1>7. CASE PersistProgress(w)
  <2> DEFINE new == [e EXCEPT !.cached = WantedProgress(e), !.pc = "persisted"]
  <2>1. /\ ex' = [ex EXCEPT ![w] = new] /\ UNCHANGED <<reports, queue, redelivered>>
        /\ tasks' = [tasks EXCEPT ![t] = Flush(@, e.cached, WantedProgress(e))]
    BY <1>2, <1>7 DEF PersistProgress, At, Commit, Write, Wanted
  <2>2. /\ Writing(e) /\ new.pc = "persisted" /\ new.task = t
        /\ new.cached = WantedProgress(e)
    BY <1>2, <1>7 DEF PersistProgress, At, Writing, Executions
  <2>3. ASSUME Clean(e.cached) PROVE Clean(WantedProgress(e))
    <3>1. e.cached \in Rows /\ e.node \in Nodes
      BY <1>2 DEF Executions
    <3>2. StageOfNode[e.node] \in {"planning", "search", "analysis", "report"}
      BY <3>1 DEF StageOfNode, Nodes
    <3>3. /\ WantedProgress(e).status = e.cached.status
          /\ WantedProgress(e).stage = StageOfNode[e.node]
          /\ WantedProgress(e).error = e.cached.error
      BY <3>1 DEF WantedProgress, Rows
    <3> QED
      BY <2>3, <3>2, <3>3 DEF Clean
  <2> HIDE DEF new
  <2> QED
    BY <2>1, <2>2, <2>3, CommitsMore
<1>8. CASE PublishProgress(w)
  <2>1. PICK next \in After(e.node, e.iteration) :
          ex' = [ex EXCEPT ![w] =
                   [e EXCEPT !.cached = tasks[t],
                             !.pc = IF next = "end" THEN "final" ELSE "node",
                             !.node = IF next = "end" THEN e.node ELSE next]]
    BY <1>2, <1>8 DEF PublishProgress, Refresh
  <2> DEFINE p == IF next = "end" THEN "final" ELSE "node"
             n == IF next = "end" THEN e.node ELSE next
             new == [e EXCEPT !.cached = tasks[t], !.pc = p, !.node = n]
  <2>2. p \in {"final", "node"}
    OBVIOUS
  <2>3. ex' = [ex EXCEPT ![w] = new] /\ UNCHANGED <<tasks, reports, queue, redelivered>>
    BY <1>8, <2>1 DEF PublishProgress
  <2> HIDE DEF p, n
  <2>4. /\ Writing(e) /\ Writing(new) /\ new.task = t /\ new.cached = tasks[t]
    BY <1>2, <1>8, <2>2 DEF PublishProgress, At, Writing, Executions
  <2> HIDE DEF new
  <2> QED
    BY <2>3, <2>4, WritesOn
<1>9. CASE NodeRaises(w)
  <2> DEFINE new == [e EXCEPT !.pc = "except"]
  <2>1. ex' = [ex EXCEPT ![w] = new] /\ UNCHANGED <<tasks, reports, queue, redelivered>>
    BY <1>2, <1>9 DEF NodeRaises, GoTo
  <2>2. /\ Writing(e) /\ Writing(new) /\ new.task = t /\ new.cached = e.cached
        /\ e.pc \in {"node", "final"}
    BY <1>1, <1>2, <1>9 DEF NodeRaises, At, Writing, Executions
  <2> HIDE DEF new
  <2> QED
    BY <2>1, <2>2, WritesOn
<1>10. CASE PublishRaises(w)
  <2> DEFINE new == [e EXCEPT !.cached = tasks[t], !.pc = "except"]
  <2>1. ex' = [ex EXCEPT ![w] = new] /\ UNCHANGED <<tasks, reports, queue, redelivered>>
    BY <1>2, <1>10 DEF PublishRaises, Refresh
  <2>2. /\ Writing(e) /\ Writing(new) /\ new.task = t /\ new.cached = tasks[t]
    BY <1>1, <1>2, <1>10 DEF PublishRaises, At, Writing, Executions
  <2> HIDE DEF new
  <2> QED
    BY <2>1, <2>2, WritesOn
<1>11. CASE PersistFinal(w)
  <2> DEFINE wanted == WantedFinal(e)
             new == [e EXCEPT !.cached = wanted, !.pc = "finalized"]
  <2>1. /\ ex' = [ex EXCEPT ![w] = new] /\ UNCHANGED <<reports, queue, redelivered>>
        /\ tasks' = [tasks EXCEPT ![t] = Flush(@, e.cached, wanted)]
    BY <1>2, <1>11 DEF PersistFinal, At, Commit, Write, Wanted
  <2>2. wanted.status = "completed" /\ wanted.stage = "done"
    BY <1>2 DEF WantedFinal, Executions, Rows
  <2> HIDE DEF wanted
  <2>3. /\ Writing(e) /\ ~Writing(new) /\ e.pc = "final" /\ new.task = t
        /\ new.pc = "finalized"
    BY <1>2, <1>11 DEF PersistFinal, At, Writing, Executions
  <2> HIDE DEF new
  <2> QED
    BY <2>1, <2>2, <2>3, RecordsOutcome
<1>12. CASE MarkFailed(w)
  <2> DEFINE wanted == WantedFailed(e)
  <2>1. /\ ex' = [ex EXCEPT ![w] = Idle] /\ UNCHANGED <<reports, queue, redelivered>>
        /\ tasks' = [tasks EXCEPT ![t] = Flush(@, e.cached, wanted)]
    BY <1>12 DEF MarkFailed, At, Finish, Write, Wanted
  <2>2. wanted.status = "failed" /\ wanted.stage = "error" /\ wanted.error = TRUE
    BY <1>2 DEF WantedFailed, Executions, Rows
  <2> HIDE DEF wanted
  <2>3. Writing(e) /\ ~Writing(Idle) /\ e.pc = "except"
    BY <1>12 DEF MarkFailed, At, Writing, Idle
  <2> QED
    BY <2>1, <2>2, <2>3, RecordsOutcome
<1>13. CASE LookUpReport(w)
  <2> DEFINE s == t \in reports
             new == [e EXCEPT !.cached = tasks[t], !.seen = s, !.pc = "save"]
  <2>1. ex' = [ex EXCEPT ![w] = new] /\ UNCHANGED <<tasks, reports, queue, redelivered>>
    BY <1>2, <1>13 DEF LookUpReport, Refresh
  <2> HIDE DEF s
  <2>2. /\ e.pc # "idle" /\ ~Writing(e) /\ ~Writing(new) /\ new.task = t
        /\ new.pc = "save"
    BY <1>2, <1>13 DEF LookUpReport, At, Writing, Executions
  <2> HIDE DEF new
  <2> QED
    BY <2>1, <2>2, WritesNoMore
<1>14. CASE SaveReport(w)
  <2> DEFINE new == [e EXCEPT !.pc = "saved"]
  <2>1. /\ ex' = [ex EXCEPT ![w] = new] /\ UNCHANGED <<tasks, queue, redelivered>>
        /\ reports' = reports \union {t} /\ e.pc = "save"
    BY <1>2, <1>14 DEF SaveReport, GoTo, At
  <2>2. ~Writing(e) /\ ~Writing(new)
    BY <1>2, <2>1 DEF Writing, Executions
  <2>3. reports \subseteq reports' /\ t \in reports'
    BY <2>1
  <2> HIDE DEF new
  <2> QED
    BY <2>1, <2>2, <2>3, WritesNoMore
<1>15. CASE SaveReportConflict(w)
  <2> DEFINE new == [e EXCEPT !.pc = "except", !.poisoned = TRUE]
  <2>1. /\ ex' = [ex EXCEPT ![w] = new] /\ UNCHANGED <<tasks, reports, queue, redelivered>>
        /\ t \in reports /\ e.pc = "save"
    BY <1>2, <1>15 DEF SaveReportConflict, At
  <2>2. ~Writing(e) /\ ~Writing(new)
    BY <1>2, <2>1 DEF Writing, Executions
  <2> HIDE DEF new
  <2> QED
    BY <2>1, <2>2, WritesNoMore
<1>16. CASE MarkFailedRaises(w)
  <2>1. /\ ex' = [ex EXCEPT ![w] = Idle] /\ UNCHANGED <<tasks, reports, queue, redelivered>>
        /\ e.pc = "except" /\ ~Writing(e) /\ ~Writing(Idle)
    BY <1>16 DEF MarkFailedRaises, Finish, At, Writing, Idle
  <2> QED
    BY <2>1, WritesNoMore
<1>17. CASE RefreshReport(w)
  <2>1. /\ ex' = [ex EXCEPT ![w] = Idle] /\ UNCHANGED <<tasks, reports, queue, redelivered>>
        /\ e.pc = "saved" /\ ~Writing(e) /\ ~Writing(Idle)
    BY <1>17 DEF RefreshReport, Finish, At, Writing, Idle
  <2> QED
    BY <2>1, WritesNoMore
<1>18. CASE Reload(w)
  <2> DEFINE new == [e EXCEPT !.cached = tasks[t], !.pc = "except"]
  <2>1. ex' = [ex EXCEPT ![w] = new] /\ UNCHANGED <<tasks, reports, queue, redelivered>>
    BY <1>2, <1>18 DEF Reload
  <2>2. /\ Writing(e) /\ Writing(new) /\ new.task = t /\ new.cached = tasks[t]
    BY <1>1, <1>2, <1>18 DEF Reload, At, Writing, Executions
  <2> HIDE DEF new
  <2> QED
    BY <2>1, <2>2, WritesOn
<1>19. /\ ~BuildRaises(w) /\ ~DbRaisesOutsideTry(w) /\ ~DbRaisesInsideTry(w)
       /\ ~RefreshRaises(w) /\ ~Crash(w)
  BY DEF BuildRaises, DbRaisesOutsideTry, DbRaisesInsideTry, RefreshRaises, Crash
<1> QED
  BY <1>3, <1>4, <1>5, <1>6, <1>7, <1>8, <1>9, <1>10, <1>11, <1>12, <1>13, <1>14,
     <1>15, <1>16, <1>17, <1>18, <1>19 DEF Step, Fault

(* Only the except clause runs on a poisoned session.                      *)
LEMMA PoisonedStep ==
  ASSUME Faults \subseteq {"node", "redis"}, SettlingInv, [Next]_vars,
         NEW v \in Workers, ex'[v].poisoned
  PROVE  ex'[v].pc = "except"
<1>1. ex[v].poisoned => ex[v].pc = "except"
  BY DEF SettlingInv
<1>2. ex \in [Workers -> Executions] /\ ex[v] \in Executions
  BY DEF SettlingInv, TypeOK
<1>3. CASE ex'[v] = ex[v]
  BY <1>1, <1>3
<1>4. ASSUME NEW w \in Workers, NEW t \in TaskIds, Receive(w, t) PROVE ex'[v].pc = "except"
  BY <1>1, <1>2, <1>4 DEF Receive, Idle
<1>5. ASSUME NEW w \in Workers, Step(w) \/ Fault(w), ex'[v] # ex[v] PROVE ex'[v].pc = "except"
  <2>1. CASE Load(w) \/ BuildGraph(w) \/ RunNode(w) \/ LookUpReport(w) \/ Reload(w)
    BY <1>1, <1>2, <1>5, <2>1
       DEF Load, BuildGraph, RunNode, LookUpReport, Reload, At, Executions
  <2>2. CASE MarkRunning(w) \/ PersistProgress(w) \/ PersistFinal(w)
    BY <1>1, <1>2, <1>5, <2>2 DEF MarkRunning, PersistProgress, PersistFinal, Commit, At,
       Executions
  <2>3. CASE PublishProgress(w) \/ PublishRaises(w)
    <3>1. ex[w].pc = "persisted" /\ \A u \in Workers : u # w => ex'[u] = ex[u]
      BY <1>2, <2>3 DEF PublishProgress, PublishRaises, At
    <3>2. ex'[w].poisoned = ex[w].poisoned
      <4>1. CASE PublishProgress(w)
        <5>1. PICK next :
                ex' = [ex EXCEPT ![w] =
                         [ex[w] EXCEPT !.cached = Refresh(w),
                                       !.pc = IF next = "end" THEN "final" ELSE "node",
                                       !.node = IF next = "end" THEN ex[w].node ELSE next]]
          BY <1>2, <4>1 DEF PublishProgress
        <5> DEFINE point == IF next = "end" THEN "final" ELSE "node"
                   n == IF next = "end" THEN ex[w].node ELSE next
        <5>2. ex' = [ex EXCEPT ![w] =
                       [ex[w] EXCEPT !.cached = Refresh(w), !.pc = point, !.node = n]]
          BY <5>1
        <5> HIDE DEF point, n
        <5> QED
          BY <1>2, <5>2 DEF Executions
      <4>2. CASE PublishRaises(w)
        BY <1>2, <4>2 DEF PublishRaises, Executions
      <4> QED
        BY <2>3, <4>1, <4>2
    <3> QED
      BY <1>1, <1>5, <3>1, <3>2
  <2>4. CASE RefreshReport(w) \/ MarkFailed(w) \/ MarkFailedRaises(w)
    BY <1>1, <1>2, <1>5, <2>4 DEF RefreshReport, MarkFailed, MarkFailedRaises, Finish, Idle
  <2>5. CASE SaveReport(w) \/ SaveReportConflict(w) \/ NodeRaises(w)
    BY <1>1, <1>2, <1>5, <2>5
       DEF SaveReport, SaveReportConflict, NodeRaises, GoTo, At, Executions
  <2>6. /\ ~BuildRaises(w) /\ ~DbRaisesOutsideTry(w) /\ ~DbRaisesInsideTry(w)
        /\ ~RefreshRaises(w) /\ ~Crash(w)
    BY DEF BuildRaises, DbRaisesOutsideTry, DbRaisesInsideTry, RefreshRaises, Crash
  <2> QED
    BY <1>5, <2>1, <2>2, <2>3, <2>4, <2>5, <2>6 DEF Step, Fault
<1> QED
  BY <1>3, <1>4, <1>5 DEF Next, Redeliver, vars

(* Every step keeps the invariant.                                         *)
LEMMA NextSettling ==
  ASSUME MaxRedeliveries <= 1, Faults \subseteq {"node", "redis"},
         SettlingInv, [Next]_vars
  PROVE  SettlingInv'
<1>1. TypeOK'
  BY NextType DEF SettlingInv
<1>2. \A v \in Workers : ex'[v].poisoned => ex'[v].pc = "except"
  BY PoisonedStep
<1>3. ASSUME NEW t \in TaskIds PROVE Settling(t)'
  <2>1. CASE UNCHANGED vars
    <3>1. Settling(t) /\ UNCHANGED <<tasks, reports, queue, redelivered, ex>>
      BY <2>1 DEF SettlingInv, vars
    <3> QED
      BY <3>1, Bystander
  <2>2. ASSUME NEW s \in TaskIds, Redeliver(s) PROVE Settling(t)'
    BY <2>2, RedeliverSettles
  <2>3. ASSUME NEW w \in Workers, NEW s \in TaskIds, Receive(w, s) PROVE Settling(t)'
    BY <2>3, ReceiveSettles
  <2>4. ASSUME NEW w \in Workers, Step(w) \/ Fault(w) PROVE Settling(t)'
    <3>1. UNCHANGED redelivered
      BY <2>4 DEF Step, Fault, Load, MarkRunning, BuildGraph, RunNode, PersistProgress,
         PublishProgress, PersistFinal, LookUpReport, SaveReport, SaveReportConflict,
         RefreshReport, Reload, MarkFailed, MarkFailedRaises, BuildRaises, NodeRaises,
         PublishRaises, DbRaisesOutsideTry, DbRaisesInsideTry, RefreshRaises, Crash
    <3> QED
      BY <2>4, <3>1, OtherTask, OwnTask
  <2> QED
    BY <2>1, <2>2, <2>3, <2>4 DEF Next
<1> QED
  BY <1>1, <1>2, <1>3 DEF SettlingInv

LEMMA InitSettling == Init => SettlingInv
<1> SUFFICES ASSUME Init PROVE SettlingInv
  OBVIOUS
<1>1. TypeOK
  BY IdleType, MaxRedeliveriesAssumption DEF Init, TypeOK, Idle
<1>2. \A w \in Workers : ex[w] = Idle /\ ~Idle.poisoned /\ ~Writing(Idle)
  BY DEF Init, Idle, Writing
<1>3. ASSUME NEW t \in TaskIds PROVE Settling(t)
  <2>1. queue[t] = 1 /\ tasks[t] = NewRow /\ \A w \in Workers : ~WritesTo(w, t)
    BY <1>2 DEF Init, WritesTo
  <2>2. Clean(tasks[t])
    BY <2>1 DEF Clean, NewRow
  <2> QED
    BY <2>1, <2>2 DEF Settling, TwoAtMost, TwoToCome, NoneToCome
<1> QED
  BY <1>1, <1>2, <1>3 DEF SettlingInv

(* When only agents and the result backend fail and a message is delivered *)
(* at most twice, a task that nobody works on any more is completed with   *)
(* its report stored or failed with an error, though two executions may    *)
(* have written columns past each other.                                   *)
THEOREM RestingTasksSettle ==
  ASSUME MaxRedeliveries <= 1, Faults \subseteq {"node", "redis"}
  PROVE  Spec => []RestingTasksAreSettled
<1>1. SettlingInv /\ [Next]_vars => SettlingInv'
  BY NextSettling
<1>2. SettlingInv => RestingTasksAreSettled
  <2> SUFFICES ASSUME SettlingInv, NEW t \in TaskIds, AtRest(t) PROVE Settled(t)
    BY DEF RestingTasksAreSettled
  <2>1. NoneToCome(t) /\ \A w \in Workers : ex[w].task # t
    BY DEF AtRest, NoneToCome, WritesTo
  <2>2. Recorded(t)
    BY <2>1 DEF SettlingInv, Settling
  <2> QED
    BY <2>1, <2>2 DEF Recorded, Settled
<1> QED
  BY <1>1, <1>2, InitSettling, PTL DEF Spec

-----------------------------------------------------------------------------
(* 4. Operators next to the executions.                                    *)

(* The UPDATE of a PATCH may still come.                                   *)
PatchToCome == patched < MaxPatches \/ patches # {}

(* Before an execution has completed its task it may do that or fail it;   *)
(* afterwards it may still fail it, when a refresh fails.                  *)
Completing(e) ==
  e.pc \in {"load", "mark", "marked", "node", "persist", "persisted", "final"}

Failable(e) ==
  e.pc \in {"finalized", "save", "saved", "reload", "except"} /\ ~e.poisoned

NotFailed(row) == row.status # "failed" /\ row.stage # "error"

(* A failure that a copy shows its row shows.                              *)
FailureInTerms(e, row) ==
  e.pc \in {"save", "saved", "except"} =>
    /\ e.cached.status = "failed" => row.status = "failed"
    /\ e.cached.stage = "error" => row.stage = "error"

(* What a copy shows of an outcome its row shows; as long as the PATCH has *)
(* not been applied neither shows any that the execution has not recorded. *)
Fits(e, row, open) ==
  /\ Completing(e) => InTerms(e, row) /\ (open => Clean(row) /\ Clean(e.cached))
  /\ Failable(e) =>
       FailureInTerms(e, row) /\ (open => NotFailed(row) /\ NotFailed(e.cached))

(* A task has one message or one execution.                                *)
Alone(t) ==
  /\ queue[t] <= 1
  /\ queue[t] = 1 => \A w \in Workers : ex[w].task # t
  /\ \A v, w \in Workers : ex[v].task = t /\ ex[w].task = t => v = w

Followed(t) ==
  /\ Alone(t)
  /\ \A w \in Workers : ex[w].task = t => Fits(ex[w], tasks[t], PatchToCome)
  /\ queue[t] = 1 /\ PatchToCome => Clean(tasks[t])

PatchedInv ==
  /\ OperatorsTypeOK
  /\ redelivered = 0
  /\ \A p, q \in patches : p = q
  /\ patches # {} => patched = 1
  /\ \A w \in Workers : ex[w].poisoned => ex[w].pc = "except"
  /\ \A t \in TaskIds : Followed(t)

(* A row that a payload is applied to remains one.                         *)
LEMMA PatchType ==
  ASSUME NEW row \in Rows, NEW p \in Patches
  PROVE  Patch(row, p) \in Rows
<1>1. DOMAIN row = {"status", "stage", "error", "iterations"}
  BY DEF Rows
<1> QED
  BY <1>1, PatchesAssumption DEF Patch, Rows

(* Types, for every set of faults and any number of redeliveries, PATCHes  *)
(* and PUTs.                                                               *)
LEMMA OperatorsNextType ==
  ASSUME OperatorsTypeOK, [OperatorsNext]_<<vars, opVars>>
  PROVE  OperatorsTypeOK'
<1>1. TypeOK /\ patched \in Nat /\ put \in Nat /\ MaxPatches \in Nat /\ MaxPuts \in Nat
  BY RequestsAssumption DEF OperatorsTypeOK
<1>2. CASE [Next]_vars /\ UNCHANGED opVars
  BY <1>2, NextType DEF OperatorsTypeOK, opVars
<1>3. ASSUME NEW t \in TaskIds, NEW payload \in Patches, ReadTask(t, payload)
      PROVE  OperatorsTypeOK'
  <2> DEFINE new == [number |-> patched + 1, task |-> t, cached |-> tasks[t],
                     payload |-> payload]
  <2>1. /\ patched' = patched + 1 /\ patched < MaxPatches
        /\ patches' = patches \union {new} /\ UNCHANGED <<vars, puts, put>>
    BY <1>3 DEF ReadTask
  <2>2. new \in [number : 1..patched', task : TaskIds, cached : Rows, payload : Patches]
    BY <1>1, <2>1 DEF TypeOK
  <2> HIDE DEF new
  <2>3. patches \subseteq
          [number : 1..patched', task : TaskIds, cached : Rows, payload : Patches]
    BY <1>1, <2>1 DEF OperatorsTypeOK
  <2> QED
    BY <1>1, <2>1, <2>2, <2>3 DEF OperatorsTypeOK, TypeOK, vars
<1>4. ASSUME NEW t \in TaskIds, FindReport(t) PROVE OperatorsTypeOK'
  <2> DEFINE new == [number |-> put + 1, task |-> t, seen |-> t \in reports]
  <2>1. /\ put < MaxPuts /\ put' = put + 1 /\ puts' = puts \union {new}
        /\ UNCHANGED <<vars, patches, patched>>
    BY <1>4 DEF FindReport
  <2>2. new \in [number : 1..put', task : TaskIds, seen : BOOLEAN]
    BY <1>1, <2>1
  <2> HIDE DEF new
  <2>3. puts \subseteq [number : 1..put', task : TaskIds, seen : BOOLEAN]
    BY <1>1, <2>1 DEF OperatorsTypeOK
  <2> QED
    BY <1>1, <2>1, <2>2, <2>3 DEF OperatorsTypeOK, TypeOK, vars
<1>5. ASSUME NEW p \in patches, UpdateTask(p) PROVE OperatorsTypeOK'
  <2>1. /\ tasks' = [tasks EXCEPT ![p.task] =
                       Flush(@, p.cached, Patch(p.cached, p.payload))]
        /\ patches' \subseteq patches
        /\ UNCHANGED <<reports, queue, redelivered, ex, puts, patched, put>>
    BY <1>5 DEF UpdateTask
  <2>2. /\ tasks \in [TaskIds -> Rows] /\ p.task \in TaskIds
        /\ p.cached \in Rows /\ p.payload \in Patches
    BY DEF OperatorsTypeOK, TypeOK
  <2>3. Flush(tasks[p.task], p.cached, Patch(p.cached, p.payload)) \in Rows
    BY <2>2, PatchType, FlushType
  <2>4. tasks' \in [TaskIds -> Rows]
    BY <2>1, <2>2, <2>3
  <2> QED
    BY <2>1, <2>4 DEF OperatorsTypeOK, TypeOK
<1>6. ASSUME NEW p \in puts, PutReport(p) PROVE OperatorsTypeOK'
  <2>1. /\ reports' = reports \union {p.task} /\ puts' \subseteq puts
        /\ UNCHANGED <<tasks, queue, redelivered, ex, patches, patched, put>>
    BY <1>6 DEF PutReport
  <2>2. p.task \in TaskIds
    BY DEF OperatorsTypeOK
  <2> QED
    BY <1>1, <2>1, <2>2 DEF OperatorsTypeOK, TypeOK
<1>7. CASE UNCHANGED <<vars, opVars>>
  BY <1>2, <1>7
<1> QED
  BY <1>2, <1>3, <1>4, <1>5, <1>6, <1>7 DEF OperatorsNext

(* The types hold at the start.                                            *)
LEMMA OperatorsInitType == OperatorsInit => OperatorsTypeOK
<1> SUFFICES ASSUME OperatorsInit PROVE OperatorsTypeOK
  OBVIOUS
<1>1. TypeOK
  BY IdleType, MaxRedeliveriesAssumption DEF OperatorsInit, Init, TypeOK, Idle
<1> QED
  BY <1>1, RequestsAssumption DEF OperatorsInit, OperatorsTypeOK

(* Rows and requests keep their types next to any number of PATCHes, PUTs  *)
(* and redeliveries, whatever faults strike: an UPDATE sends the columns   *)
(* of a copy taken earlier, and the result is still a row.                 *)
THEOREM OperatorsTypeCorrect == OperatorsSpec => []OperatorsTypeOK
<1>1. OperatorsTypeOK /\ [OperatorsNext]_<<vars, opVars>> => OperatorsTypeOK'
  BY OperatorsNextType
<1> QED
  BY <1>1, OperatorsInitType, PTL DEF OperatorsSpec

(* What a step of a worker makes of its own state, when it is the only one *)
(* with its task: its copy still fits the row.                             *)
LEMMA OwnStepFits ==
  ASSUME TypeOK, NEW w \in Workers, Step(w) \/ Fault(w), NEW open \in BOOLEAN,
         ex[w].poisoned => ex[w].pc = "except",
         ex[w].pc # "idle" => Fits(ex[w], tasks[ex[w].task], open)
  PROVE  /\ ex[w].task \in TaskIds /\ UNCHANGED <<queue, redelivered>>
         /\ \E new :
              /\ ex' = [ex EXCEPT ![w] = new]
              /\ new.task \in {ex[w].task, NoTask}
              /\ new.poisoned => new.pc = "except"
              /\ Fits(new, tasks'[ex[w].task], open)
<1> DEFINE e == ex[w]
           t == e.task
           row == tasks[t]
           Goal == /\ t \in TaskIds /\ UNCHANGED <<queue, redelivered>>
                   /\ \E new : /\ ex' = [ex EXCEPT ![w] = new]
                               /\ new.task \in {t, NoTask}
                               /\ new.poisoned => new.pc = "except"
                               /\ Fits(new, tasks'[t], open)
<1> SUFFICES Goal
  OBVIOUS
<1>1. /\ ex \in [Workers -> Executions] /\ tasks \in [TaskIds -> Rows]
      /\ e \in Executions /\ e.cached \in Rows
      /\ e.pc # "idle" => t \in TaskIds
  BY DEF TypeOK, Executions
<1>2. e.pc # "idle"
  BY DEF Step, Fault, Load, MarkRunning, BuildGraph, RunNode, PersistProgress,
     PublishProgress, PersistFinal, LookUpReport, SaveReport, SaveReportConflict,
     RefreshReport, Reload, MarkFailed, MarkFailedRaises, BuildRaises, NodeRaises,
     PublishRaises, DbRaisesOutsideTry, DbRaisesInsideTry, RefreshRaises, Crash, At
<1>3. ASSUME NEW new, ex' = [ex EXCEPT ![w] = new], UNCHANGED <<queue, redelivered>>,
             new.task \in {t, NoTask}, new.poisoned => new.pc = "except",
             Fits(new, tasks'[t], open)
      PROVE  Goal
  BY <1>1, <1>2, <1>3
<1>4. ASSUME Completing(e), open PROVE Clean(row) /\ Clean(e.cached)
  BY <1>2, <1>4 DEF Fits
<1>5. ASSUME Finish(w), UNCHANGED <<queue, redelivered>> PROVE Goal
  <2>1. ~Completing(Idle) /\ ~Failable(Idle) /\ Idle.task = NoTask /\ ~Idle.poisoned
    BY DEF Idle, Completing, Failable
  <2> QED
    BY <1>3, <1>5, <2>1 DEF Finish, Fits
<1>6. ASSUME NEW new, ex' = [ex EXCEPT ![w] = new],
             UNCHANGED <<tasks, queue, redelivered>>,
             Completing(e) \/ (Failable(e) /\ ~Completing(new)),
             new.task = t, new.cached = row, ~new.poisoned
      PROVE  Goal
  <2>1. Fits(new, row, open)
    BY <1>2, <1>6 DEF Fits, InTerms, FailureInTerms, Clean, NotFailed
  <2> QED
    BY <1>3, <1>6, <2>1
<1>7. ASSUME NEW new, ex' = [ex EXCEPT ![w] = new],
             UNCHANGED <<tasks, queue, redelivered>>, e.pc \in {"node", "final"},
             new.task = t, new.cached = e.cached, ~new.poisoned
      PROVE  Goal
  <2>1. Fits(new, row, open)
    BY <1>2, <1>7 DEF Fits, InTerms, FailureInTerms, Completing, Clean, NotFailed
  <2> QED
    BY <1>3, <1>7, <2>1
<1>8. ASSUME NEW new, ex' = [ex EXCEPT ![w] = new], UNCHANGED <<queue, redelivered>>,
             tasks' = [tasks EXCEPT ![t] = Flush(@, e.cached, new.cached)],
             Completing(e), new.task = t, new.pc \in {"marked", "persisted"},
             ~new.poisoned, Clean(e.cached) => Clean(new.cached)
      PROVE  Goal
  <2>1. tasks'[t] = Flush(row, e.cached, new.cached)
    BY <1>1, <1>2, <1>8
  <2>2. open => Clean(tasks'[t]) /\ Clean(new.cached)
    BY <1>4, <1>8, <2>1, CleanFlush
  <2>3. Fits(new, tasks'[t], open)
    BY <1>8, <2>2 DEF Fits, InTerms, Failable
  <2> QED
    BY <1>3, <1>8, <2>3
<1>9. CASE Load(w)
  <2> DEFINE new == [e EXCEPT !.cached = row, !.pc = "mark"]
  <2>1. /\ ex' = [ex EXCEPT ![w] = new] /\ UNCHANGED <<tasks, queue, redelivered>>
        /\ Completing(e) /\ ~e.poisoned
    BY <1>1, <1>9 DEF Load, At, Completing
  <2>2. new.task = t /\ new.cached = row /\ ~new.poisoned
    BY <1>1, <2>1 DEF Executions
  <2> HIDE DEF new
  <2> QED
    BY <1>6, <2>1, <2>2
<1>10. CASE MarkRunning(w)
  <2> DEFINE wanted == WantedRunning(e)
             new == [e EXCEPT !.cached = wanted, !.pc = "marked"]
  <2>1. /\ ex' = [ex EXCEPT ![w] = new] /\ UNCHANGED <<queue, redelivered>>
        /\ tasks' = [tasks EXCEPT ![t] = Flush(@, e.cached, wanted)]
        /\ Completing(e) /\ ~e.poisoned
    BY <1>1, <1>10 DEF MarkRunning, At, Commit, Write, Wanted, Completing
  <2>2. Clean(wanted)
    BY <1>1 DEF WantedRunning, Clean, Rows
  <2> HIDE DEF wanted
  <2>3. /\ new.task = t /\ new.cached = wanted /\ new.pc = "marked" /\ ~new.poisoned
    BY <1>1, <2>1 DEF Executions
  <2> HIDE DEF new
  <2> QED
    BY <1>8, <2>1, <2>2, <2>3
<1>11. CASE PersistProgress(w)
  <2> DEFINE wanted == WantedProgress(e)
             new == [e EXCEPT !.cached = wanted, !.pc = "persisted"]
  <2>1. /\ ex' = [ex EXCEPT ![w] = new] /\ UNCHANGED <<queue, redelivered>>
        /\ tasks' = [tasks EXCEPT ![t] = Flush(@, e.cached, wanted)]
        /\ Completing(e) /\ ~e.poisoned
    BY <1>1, <1>11 DEF PersistProgress, At, Commit, Write, Wanted, Completing
  <2>2. ASSUME Clean(e.cached) PROVE Clean(wanted)
    <3>1. StageOfNode[e.node] \in {"planning", "search", "analysis", "report"}
      BY <1>1 DEF StageOfNode, Nodes, Executions
    <3>2. /\ wanted.status = e.cached.status /\ wanted.stage = StageOfNode[e.node]
          /\ wanted.error = e.cached.error
      BY <1>1 DEF WantedProgress, Rows
    <3> QED
      BY <2>2, <3>1, <3>2 DEF Clean
  <2> HIDE DEF wanted
  <2>3. /\ new.task = t /\ new.cached = wanted /\ new.pc = "persisted" /\ ~new.poisoned
    BY <1>1, <2>1 DEF Executions
  <2> HIDE DEF new
  <2> QED
    BY <1>8, <2>1, <2>2, <2>3
<1>12. CASE BuildGraph(w)
  <2> DEFINE new == [e EXCEPT !.cached = row, !.pc = "node"]
  <2>1. /\ ex' = [ex EXCEPT ![w] = new] /\ UNCHANGED <<tasks, queue, redelivered>>
        /\ Completing(e) /\ ~e.poisoned
    BY <1>1, <1>12 DEF BuildGraph, Refresh, At, Completing
  <2>2. new.task = t /\ new.cached = row /\ ~new.poisoned
    BY <1>1, <2>1 DEF Executions
  <2> HIDE DEF new
  <2> QED
    BY <1>6, <2>1, <2>2
<1>13. CASE RunNode(w)
  <2> DEFINE i == IF e.node = "search" THEN e.iteration + 1 ELSE e.iteration
             new == [e EXCEPT !.pc = "persist", !.iteration = i]
  <2>1. /\ ex' = [ex EXCEPT ![w] = new] /\ UNCHANGED <<tasks, queue, redelivered>>
        /\ e.pc = "node" /\ ~e.poisoned
    BY <1>1, <1>13 DEF RunNode, At
  <2> HIDE DEF i
  <2>2. new.task = t /\ new.cached = e.cached /\ ~new.poisoned
    BY <1>1, <2>1 DEF Executions
  <2> HIDE DEF new
  <2> QED
    BY <1>7, <2>1, <2>2
<1>14. CASE PublishProgress(w)
  <2>1. PICK next \in After(e.node, e.iteration) :
          ex' = [ex EXCEPT ![w] =
                   [e EXCEPT !.cached = row,
                             !.pc = IF next = "end" THEN "final" ELSE "node",
                             !.node = IF next = "end" THEN e.node ELSE next]]
    BY <1>1, <1>14 DEF PublishProgress, Refresh
  <2> DEFINE p == IF next = "end" THEN "final" ELSE "node"
             n == IF next = "end" THEN e.node ELSE next
             new == [e EXCEPT !.cached = row, !.pc = p, !.node = n]
  <2>2. /\ ex' = [ex EXCEPT ![w] = new] /\ UNCHANGED <<tasks, queue, redelivered>>
        /\ Completing(e) /\ ~e.poisoned
    BY <1>14, <2>1 DEF PublishProgress, At, Completing
  <2> HIDE DEF p, n
  <2>3. new.task = t /\ new.cached = row /\ ~new.poisoned
    BY <1>1, <2>2 DEF Executions
  <2> HIDE DEF new
  <2> QED
    BY <1>6, <2>2, <2>3
<1>15. CASE NodeRaises(w)
  <2> DEFINE new == [e EXCEPT !.pc = "except"]
  <2>1. /\ ex' = [ex EXCEPT ![w] = new] /\ UNCHANGED <<tasks, queue, redelivered>>
        /\ e.pc \in {"node", "final"} /\ ~e.poisoned
    BY <1>1, <1>15 DEF NodeRaises, GoTo, At
  <2>2. new.task = t /\ new.cached = e.cached /\ ~new.poisoned
    BY <1>1, <2>1 DEF Executions
  <2> HIDE DEF new
  <2> QED
    BY <1>7, <2>1, <2>2
<1>16. CASE PublishRaises(w)
  <2> DEFINE new == [e EXCEPT !.cached = row, !.pc = "except"]
  <2>1. /\ ex' = [ex EXCEPT ![w] = new] /\ UNCHANGED <<tasks, queue, redelivered>>
        /\ Completing(e) /\ ~e.poisoned
    BY <1>1, <1>16 DEF PublishRaises, Refresh, At, Completing
  <2>2. new.task = t /\ new.cached = row /\ ~new.poisoned
    BY <1>1, <2>1 DEF Executions
  <2> HIDE DEF new
  <2> QED
    BY <1>6, <2>1, <2>2
<1>17. CASE PersistFinal(w)
  <2> DEFINE wanted == WantedFinal(e)
             new == [e EXCEPT !.cached = wanted, !.pc = "finalized"]
  <2>1. /\ ex' = [ex EXCEPT ![w] = new] /\ UNCHANGED <<queue, redelivered>>
        /\ tasks' = [tasks EXCEPT ![t] = Flush(@, e.cached, wanted)]
        /\ Completing(e) /\ ~e.poisoned
    BY <1>1, <1>17 DEF PersistFinal, At, Commit, Write, Wanted, Completing
  <2>2. wanted.status = "completed" /\ wanted.stage = "done"
    BY <1>1 DEF WantedFinal, Rows
  <2> HIDE DEF wanted
  <2>3. /\ new.task = t /\ new.cached = wanted /\ new.pc = "finalized" /\ ~new.poisoned
    BY <1>1, <2>1 DEF Executions
  <2> HIDE DEF new
  <2>4. tasks'[t] = Flush(row, e.cached, wanted)
    BY <1>1, <1>2, <2>1
  <2>5. open => NotFailed(tasks'[t])
    BY <1>4, <2>1, <2>2, <2>4 DEF Clean, Flush, Changed, NotFailed
  <2>6. Fits(new, tasks'[t], open)
    BY <2>2, <2>3, <2>5 DEF Fits, Completing, FailureInTerms, NotFailed
  <2> QED
    BY <1>3, <2>1, <2>3, <2>6
<1>18. CASE LookUpReport(w)
  <2> DEFINE s == t \in reports
             new == [e EXCEPT !.cached = row, !.seen = s, !.pc = "save"]
  <2>1. /\ ex' = [ex EXCEPT ![w] = new] /\ UNCHANGED <<tasks, queue, redelivered>>
        /\ Failable(e) /\ ~e.poisoned
    BY <1>1, <1>18 DEF LookUpReport, Refresh, At, Failable
  <2> HIDE DEF s
  <2>2. new.task = t /\ new.cached = row /\ ~Completing(new) /\ ~new.poisoned
    BY <1>1, <2>1 DEF Executions, Completing
  <2> HIDE DEF new
  <2> QED
    BY <1>6, <2>1, <2>2
<1>19. CASE SaveReport(w)
  <2> DEFINE new == [e EXCEPT !.pc = "saved"]
  <2>1. /\ ex' = [ex EXCEPT ![w] = new] /\ UNCHANGED <<tasks, queue, redelivered>>
        /\ e.pc = "save" /\ ~e.poisoned
    BY <1>1, <1>19 DEF SaveReport, GoTo, At
  <2>2. new.task = t /\ new.cached = e.cached /\ new.pc = "saved" /\ ~new.poisoned
    BY <1>1, <2>1 DEF Executions
  <2> HIDE DEF new
  <2>3. Fits(new, row, open)
    BY <1>2, <2>1, <2>2 DEF Fits, Completing, Failable, FailureInTerms
  <2> QED
    BY <1>3, <2>1, <2>2, <2>3
<1>20. CASE Reload(w)
  <2> DEFINE new == [e EXCEPT !.cached = row, !.pc = "except"]
  <2>1. /\ ex' = [ex EXCEPT ![w] = new] /\ UNCHANGED <<tasks, queue, redelivered>>
        /\ Failable(e) /\ ~e.poisoned
    BY <1>1, <1>20 DEF Reload, At, Failable
  <2>2. new.task = t /\ new.cached = row /\ ~Completing(new) /\ ~new.poisoned
    BY <1>1, <2>1 DEF Executions, Completing
  <2> HIDE DEF new
  <2> QED
    BY <1>6, <2>1, <2>2
<1>21. CASE RefreshRaises(w)
  <2> DEFINE p == IF At(w, "saved") THEN "except" ELSE "reload"
             new == [e EXCEPT !.pc = p]
  <2>1. /\ ex' = [ex EXCEPT ![w] = new] /\ UNCHANGED <<tasks, queue, redelivered>>
        /\ e.pc \in {"persisted", "finalized", "saved"} /\ ~e.poisoned
    BY <1>1, <1>21 DEF RefreshRaises, GoTo
  <2>2. p = "reload" \/ (p = "except" /\ e.pc = "saved")
    BY DEF At
  <2> HIDE DEF p
  <2>3. new.task = t /\ new.cached = e.cached /\ new.pc = p /\ ~new.poisoned
    BY <1>1, <2>1 DEF Executions
  <2> HIDE DEF new
  <2>4. Fits(new, row, open)
    BY <1>2, <2>1, <2>2, <2>3
       DEF Fits, Completing, Failable, FailureInTerms, Clean, NotFailed
  <2> QED
    BY <1>3, <2>1, <2>3, <2>4
<1>22. CASE SaveReportConflict(w) \/ DbRaisesInsideTry(w)
  <2> DEFINE new == [e EXCEPT !.pc = "except", !.poisoned = TRUE]
  <2>1. ex' = [ex EXCEPT ![w] = new] /\ UNCHANGED <<queue, redelivered>>
    BY <1>1, <1>22 DEF SaveReportConflict, DbRaisesInsideTry
  <2>2. new.task = t /\ new.poisoned /\ new.pc = "except"
    BY <1>1 DEF Executions
  <2> HIDE DEF new
  <2>3. Fits(new, tasks'[t], open)
    BY <2>2 DEF Fits, Completing, Failable
  <2> QED
    BY <1>3, <2>1, <2>2, <2>3
<1>23. CASE \/ RefreshReport(w) \/ MarkFailed(w) \/ MarkFailedRaises(w)
            \/ BuildRaises(w) \/ DbRaisesOutsideTry(w) \/ Crash(w)
  BY <1>5, <1>23 DEF RefreshReport, MarkFailed, MarkFailedRaises, BuildRaises,
     DbRaisesOutsideTry, Crash
<1> HIDE DEF Goal
<1> QED
  BY <1>9, <1>10, <1>11, <1>12, <1>13, <1>14, <1>15, <1>16, <1>17, <1>18, <1>19,
     <1>20, <1>21, <1>22, <1>23 DEF Step, Fault

-----------------------------------------------------------------------------
(* Each kind of step keeps the invariant.                                  *)

(* The operators change nothing that a worker's step reads.                *)
LEMMA WorkerKeepsPatchedInv ==
  ASSUME PatchedInv, NEW w \in Workers, Step(w) \/ Fault(w), UNCHANGED opVars
  PROVE  PatchedInv'
<1>2. TypeOK /\ (ex[w].poisoned => ex[w].pc = "except") /\ PatchToCome \in BOOLEAN
  BY DEF PatchedInv, OperatorsTypeOK, PatchToCome
<1>3. ex[w].pc # "idle" => Fits(ex[w], tasks[ex[w].task], PatchToCome)
  <2>1. ex[w].pc # "idle" => ex[w].task \in TaskIds
    BY <1>2 DEF TypeOK
  <2> QED
    BY <2>1 DEF PatchedInv, Followed
<1> DEFINE t == ex[w].task
<1>4. t \in TaskIds /\ UNCHANGED <<queue, redelivered>>
  BY <1>2, <1>3, OwnStepFits
<1>5. PICK new : /\ ex' = [ex EXCEPT ![w] = new]
                 /\ new.task \in {t, NoTask}
                 /\ new.poisoned => new.pc = "except"
                 /\ Fits(new, tasks'[t], PatchToCome)
  BY <1>2, <1>3, OwnStepFits
<1>6. ex'[w] = new /\ \A v \in Workers : v # w => ex'[v] = ex[v]
  BY <1>2, <1>5 DEF TypeOK
<1>7. PatchToCome' <=> PatchToCome
  BY DEF PatchToCome, opVars
<1>8. OperatorsTypeOK'
  BY OperatorsNextType DEF PatchedInv, OperatorsNext, Next
<1>9. ASSUME NEW u \in TaskIds PROVE Followed(u)'
  <2>1. CASE u = t
    <3>1. Followed(u) /\ queue[u] # 1
      BY <1>4, <2>1 DEF PatchedInv, Followed, Alone
    <3>2. \A v \in Workers : v # w => ex'[v].task # u
      BY <1>4, <1>6, <2>1, <3>1 DEF Followed, Alone
    <3>3. Alone(u)'
      BY <1>4, <3>1, <3>2 DEF Followed, Alone
    <3>4. \A v \in Workers : ex'[v].task = u => Fits(ex'[v], tasks'[u], PatchToCome)
      BY <1>5, <1>6, <2>1, <3>2
    <3>5. queue'[u] # 1
      BY <1>4, <3>1
    <3>6. (\A v \in Workers : ex[v].task = u => Fits(ex[v], tasks[u], PatchToCome))'
      BY <1>7, <3>4
    <3> QED
      BY <3>3, <3>5, <3>6 DEF Followed
  <2>2. CASE u # t
    <3>1. tasks'[u] = tasks[u] /\ queue' = queue /\ ex'[w].task # u
      BY <1>2, <2>2, OwnTaskStep
    <3>2. \A v \in Workers : ex'[v] = ex[v] \/ (ex[v].task # u /\ ex'[v].task # u)
      BY <1>6, <2>2, <3>1
    <3>3. Followed(u)
      BY DEF PatchedInv
    <3>4. Alone(u)'
      BY <3>1, <3>2, <3>3 DEF Followed, Alone
    <3>5. (\A v \in Workers : ex[v].task = u => Fits(ex[v], tasks[u], PatchToCome))'
      BY <1>7, <3>1, <3>2, <3>3 DEF Followed
    <3> QED
      BY <1>7, <3>1, <3>3, <3>4, <3>5 DEF Followed
  <2> QED
    BY <2>1, <2>2
<1>10. \A v \in Workers : ex'[v].poisoned => ex'[v].pc = "except"
  BY <1>5, <1>6 DEF PatchedInv
<1>11. UNCHANGED <<redelivered, patches, patched>>
  BY <1>4 DEF opVars
<1> QED
  BY <1>8, <1>9, <1>10, <1>11 DEF PatchedInv

(* A worker starts on the only message of a task.                          *)
LEMMA ReceiveKeepsPatchedInv ==
  ASSUME PatchedInv, NEW w \in Workers, NEW s \in TaskIds, Receive(w, s),
         UNCHANGED opVars
  PROVE  PatchedInv'
<1> DEFINE new == [Idle EXCEPT !.pc = "load", !.task = s]
<1>1. /\ TypeOK /\ queue \in [TaskIds -> Nat] /\ ex \in [Workers -> Executions]
      /\ UNCHANGED <<tasks, reports, redelivered>>
      /\ queue' = [queue EXCEPT ![s] = @ - 1] /\ queue[s] > 0
      /\ ex' = [ex EXCEPT ![w] = new]
  BY DEF PatchedInv, OperatorsTypeOK, TypeOK, Receive
<1>2. new.task = s /\ new.pc = "load" /\ Clean(new.cached) /\ ~new.poisoned
  BY DEF Idle, NewRow, Clean
<1> HIDE DEF new
<1>3. ex'[w] = new /\ \A v \in Workers : v # w => ex'[v] = ex[v]
  BY <1>1
<1>4. PatchToCome' <=> PatchToCome
  BY DEF PatchToCome, opVars
<1>5. OperatorsTypeOK'
  BY OperatorsNextType DEF PatchedInv, OperatorsNext, Next
<1>6. Followed(s) /\ queue[s] = 1 /\ queue'[s] = 0 /\ \A v \in Workers : ex[v].task # s
  BY <1>1 DEF PatchedInv, Followed, Alone
<1>7. ASSUME NEW u \in TaskIds PROVE Followed(u)'
  <2>1. CASE u = s
    <3>1. Alone(s)'
      BY <1>3, <1>6 DEF Alone
    <3>2. Fits(new, tasks[s], PatchToCome)
      BY <1>2, <1>6 DEF Fits, InTerms, Failable, Followed
    <3>3. (\A v \in Workers : ex[v].task = s => Fits(ex[v], tasks[s], PatchToCome))'
      BY <1>1, <1>3, <1>4, <1>6, <3>2
    <3> QED
      BY <1>6, <2>1, <3>1, <3>3 DEF Followed
  <2>2. CASE u # s
    <3>1. queue'[u] = queue[u] /\ Followed(u)
      BY <1>1, <2>2 DEF PatchedInv
    <3>2. \A v \in Workers : ex'[v].task = u => ex'[v] = ex[v]
      BY <1>2, <1>3, <2>2
    <3>3. Alone(u)'
      BY <3>1, <3>2 DEF Followed, Alone
    <3>4. (\A v \in Workers : ex[v].task = u => Fits(ex[v], tasks[u], PatchToCome))'
      BY <1>1, <1>4, <3>1, <3>2 DEF Followed
    <3> QED
      BY <1>1, <1>4, <3>1, <3>3, <3>4 DEF Followed
  <2> QED
    BY <2>1, <2>2
<1>8. \A v \in Workers : ex'[v].poisoned => ex'[v].pc = "except"
  BY <1>2, <1>3 DEF PatchedInv
<1>9. UNCHANGED <<redelivered, patches, patched>>
  BY <1>1 DEF opVars
<1> QED
  BY <1>5, <1>7, <1>8, <1>9 DEF PatchedInv

(* The operator's UPDATE: no PATCH comes after it, and no copy showed an   *)
(* outcome.                                                                *)
LEMMA UpdateKeepsPatchedInv ==
  ASSUME MaxPatches <= 1, PatchedInv, NEW p \in patches, UpdateTask(p)
  PROVE  PatchedInv'
<1>1. /\ tasks \in [TaskIds -> Rows] /\ p.task \in TaskIds
      /\ p.cached \in Rows /\ p.payload \in Patches
      /\ patched \in Nat /\ MaxPatches \in Nat /\ patched = 1
  BY RequestsAssumption DEF PatchedInv, OperatorsTypeOK, TypeOK
<1>2. /\ tasks' = [tasks EXCEPT ![p.task] = Flush(@, p.cached, Patch(p.cached, p.payload))]
      /\ patches' = {} /\ UNCHANGED <<reports, queue, redelivered, ex, puts, patched, put>>
  BY DEF UpdateTask, PatchedInv
<1>3. PatchToCome /\ ~PatchToCome'
  BY <1>1, <1>2 DEF PatchToCome
<1>4. OperatorsTypeOK'
  BY OperatorsNextType DEF PatchedInv, OperatorsNext
<1>5. ASSUME NEW t \in TaskIds PROVE Followed(t)'
  <2>1. Followed(t) /\ Alone(t)'
    BY <1>2 DEF PatchedInv, Followed, Alone
  <2>2. \A w \in Workers : ex[w].task = t => Fits(ex[w], tasks'[t], FALSE)
    BY <1>3, <2>1 DEF Followed, Fits, Clean, InTerms, NotFailed, FailureInTerms
  <2>3. (\A w \in Workers : ex[w].task = t => Fits(ex[w], tasks[t], PatchToCome))'
    BY <1>2, <1>3, <2>2 DEF Fits
  <2> QED
    BY <1>3, <2>1, <2>3 DEF Followed
<1> QED
  BY <1>2, <1>4, <1>5 DEF PatchedInv

(* The other requests write no row.                                        *)
LEMMA RequestKeepsPatchedInv ==
  ASSUME MaxPatches <= 1, PatchedInv,
         \/ \E t \in TaskIds, payload \in Patches : ReadTask(t, payload)
         \/ \E t \in TaskIds : FindReport(t)
         \/ \E p \in puts : PutReport(p)
  PROVE  PatchedInv'
<1>1. /\ OperatorsTypeOK' /\ patched \in Nat /\ MaxPatches \in Nat
      /\ UNCHANGED <<tasks, queue, redelivered, ex>>
  BY OperatorsNextType, RequestsAssumption
     DEF PatchedInv, OperatorsNext, OperatorsTypeOK, ReadTask, FindReport, PutReport, vars
<1>2. ASSUME PatchToCome' => PatchToCome, NEW t \in TaskIds PROVE Followed(t)'
  <2>1. Followed(t) /\ Alone(t)'
    BY <1>1 DEF PatchedInv, Followed, Alone
  <2>2. (\A w \in Workers : ex[w].task = t => Fits(ex[w], tasks[t], PatchToCome))'
    BY <1>1, <1>2, <2>1 DEF Followed, Fits
  <2> QED
    BY <1>1, <1>2, <2>1, <2>2 DEF Followed
<1>3. ASSUME NEW t \in TaskIds, NEW payload \in Patches, ReadTask(t, payload)
      PROVE  PatchedInv'
  <2> DEFINE new == [number |-> patched + 1, task |-> t, cached |-> tasks[t],
                     payload |-> payload]
  <2>1. patched < MaxPatches /\ patched' = patched + 1 /\ patches' = patches \union {new}
    BY <1>3 DEF ReadTask
  <2> HIDE DEF new
  <2>2. patched' = 1 /\ patches' = {new} /\ PatchToCome
    BY <1>1, <2>1 DEF PatchedInv, PatchToCome
  <2> QED
    BY <1>1, <1>2, <2>2 DEF PatchedInv
<1>4. CASE \/ \E t \in TaskIds : FindReport(t)
           \/ \E p \in puts : PutReport(p)
  <2>1. UNCHANGED <<patches, patched>>
    BY <1>4 DEF FindReport, PutReport
  <2> QED
    BY <1>1, <1>2, <2>1 DEF PatchedInv, PatchToCome
<1> QED
  BY <1>3, <1>4

(* Every step of the system with its operators keeps the invariant.        *)
LEMMA NextPatchedInv ==
  ASSUME MaxRedeliveries = 0, MaxPatches <= 1,
         PatchedInv, [OperatorsNext]_<<vars, opVars>>
  PROVE  PatchedInv'
<1>1. CASE UNCHANGED <<vars, opVars>>
  BY <1>1 DEF vars, opVars, PatchedInv, OperatorsTypeOK, TypeOK, Followed, Alone,
     PatchToCome
<1>2. ASSUME Next, UNCHANGED opVars PROVE PatchedInv'
  <2>1. ASSUME NEW t \in TaskIds, Redeliver(t) PROVE FALSE
    BY <2>1 DEF Redeliver, PatchedInv
  <2> QED
    BY <1>2, <2>1, WorkerKeepsPatchedInv, ReceiveKeepsPatchedInv DEF Next
<1> QED
  BY <1>1, <1>2, UpdateKeepsPatchedInv, RequestKeepsPatchedInv DEF OperatorsNext

(* An UPDATE through a copy that fits the row records what it wants.       *)
LEMMA CompletionRecorded ==
  ASSUME NEW e, NEW row, NEW wanted, InTerms(e, row), e.pc = "final",
         wanted.status = "completed", wanted.stage = "done"
  PROVE  /\ Flush(row, e.cached, wanted).status = "completed"
         /\ Flush(row, e.cached, wanted).stage = "done"
  BY DEF InTerms, Flush, Changed

LEMMA FailureRecorded ==
  ASSUME NEW e, NEW row, NEW wanted, FailureInTerms(e, row), e.pc = "except",
         wanted.status = "failed", wanted.stage = "error"
  PROVE  /\ Flush(row, e.cached, wanted).status = "failed"
         /\ Flush(row, e.cached, wanted).stage = "error"
  BY DEF FailureInTerms, Flush, Changed

(* An execution records its outcome past one PATCH of the row and any PUT  *)
(* of its report, for every set of tasks and workers and whatever faults   *)
(* strike, when no message is redelivered.                                 *)
THEOREM OutcomesGetRecorded ==
  ASSUME MaxRedeliveries = 0, MaxPatches <= 1
  PROVE  OperatorsSpec => OutcomesAreRecorded
<1>1. OperatorsInit => PatchedInv
  <2> SUFFICES ASSUME OperatorsInit PROVE PatchedInv
    OBVIOUS
  <2>1. OperatorsTypeOK
    BY OperatorsInitType
  <2>2. Clean(NewRow) /\ Idle.task = NoTask /\ ~Idle.poisoned
    BY DEF NewRow, Clean, Idle
  <2>3. \A t \in TaskIds : Followed(t)
    BY <2>2, NoTaskAssumption DEF OperatorsInit, Init, Followed, Alone
  <2> QED
    BY <2>1, <2>2, <2>3 DEF OperatorsInit, Init, PatchedInv
<1>2. ASSUME PatchedInv, NEW w \in Workers, ex[w].pc \in {"final", "except"},
             ~ex[w].poisoned, Write(w)
      PROVE  /\ ex[w].pc = "final" => /\ tasks'[ex[w].task].status = "completed"
                                      /\ tasks'[ex[w].task].stage = "done"
             /\ ex[w].pc = "except" => /\ tasks'[ex[w].task].status = "failed"
                                       /\ tasks'[ex[w].task].stage = "error"
  <2> DEFINE e == ex[w]
             t == e.task
             wanted == Wanted(e)
  <2>1. /\ t \in TaskIds /\ tasks \in [TaskIds -> Rows] /\ e.cached \in Rows
    BY <1>2 DEF PatchedInv, OperatorsTypeOK, TypeOK, Executions
  <2>2. Fits(e, tasks[t], PatchToCome)
    BY <1>2, <2>1 DEF PatchedInv, Followed
  <2>3. tasks'[t] = Flush(tasks[t], e.cached, wanted)
    BY <1>2, <2>1 DEF Write
  <2>4. /\ e.pc = "final" => wanted.status = "completed" /\ wanted.stage = "done"
        /\ e.pc = "except" => wanted.status = "failed" /\ wanted.stage = "error"
    BY <2>1 DEF Wanted, WantedFinal, WantedFailed, Rows
  <2> HIDE DEF wanted
  <2>5. /\ e.pc = "final" => InTerms(e, tasks[t])
        /\ e.pc = "except" => FailureInTerms(e, tasks[t])
    BY <1>2, <2>2 DEF Fits, Completing, Failable
  <2> QED
    BY <1>2, <2>3, <2>4, <2>5, CompletionRecorded, FailureRecorded
<1>3. ASSUME PatchedInv, NEW w \in Workers
      PROVE  LET t == ex[w].task IN
               /\ PersistFinal(w) =>
                    tasks'[t].status = "completed" /\ tasks'[t].stage = "done"
               /\ MarkFailed(w) => tasks'[t].status = "failed" /\ tasks'[t].stage = "error"
  <2>1. ASSUME PersistFinal(w)
        PROVE  tasks'[ex[w].task].status = "completed" /\ tasks'[ex[w].task].stage = "done"
    <3>1. ex[w].pc = "final" /\ ~ex[w].poisoned /\ Write(w)
      BY <1>3, <2>1 DEF PersistFinal, At, Commit, PatchedInv
    <3> QED
      BY <1>2, <1>3, <3>1
  <2>2. ASSUME MarkFailed(w)
        PROVE  tasks'[ex[w].task].status = "failed" /\ tasks'[ex[w].task].stage = "error"
    <3>1. ex[w].pc = "except" /\ ~ex[w].poisoned /\ Write(w)
      BY <2>2 DEF MarkFailed, At
    <3> QED
      BY <1>2, <1>3, <3>1
  <2> QED
    BY <2>1, <2>2
<1>4. PatchedInv /\ [OperatorsNext]_<<vars, opVars>> =>
        [\A w \in Workers : LET t == ex[w].task IN
           /\ PersistFinal(w) => tasks'[t].status = "completed" /\ tasks'[t].stage = "done"
           /\ MarkFailed(w) => tasks'[t].status = "failed" /\ tasks'[t].stage = "error"]_<<vars, opVars>>
  BY <1>3
<1>5. PatchedInv /\ [OperatorsNext]_<<vars, opVars>> => PatchedInv'
  BY NextPatchedInv
<1> QED
  BY <1>1, <1>4, <1>5, PTL DEF OperatorsSpec, OutcomesAreRecorded

=============================================================================
