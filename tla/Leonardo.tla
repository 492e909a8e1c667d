------------------------------ MODULE Leonardo -------------------------------
(***************************************************************************)
(* The system: the API that accepts tasks (Submission), the workers that   *)
(* execute them (TaskExecution) and the API that answers with their        *)
(* reports (Queries), over one database and one broker.                    *)
(***************************************************************************)
EXTENDS TaskModel

CONSTANTS
  TaskIds, KeyOf, NoKey, PayloadOf, ValidPayloads,      \* see Submission
  Workers, NoTask, MaxRedeliveries,                     \* see TaskExecution
  MaxIterations, MinFindings,                           \* see Routing
  Watchers,                                             \* see Queries
  ApiFaults,     \* the faults of the handlers
  WorkerFaults   \* the faults of the workers

ASSUME NoTaskAssumption == NoTask \notin TaskIds
ASSUME ApiFaultsAssumption == ApiFaults \subseteq {"crash", "db", "redis"}
ASSUME WorkerFaultsAssumption ==
         WorkerFaults \subseteq {"crash", "db", "refresh", "build", "node", "redis"}
ASSUME BoundsAssumption ==
         /\ MaxRedeliveries \in Nat
         /\ MaxIterations \in Nat \ {0}
         /\ MinFindings \in Nat

VARIABLES
  tasks, reports, created, queue,  \* the database and the broker
  req,                             \* Submission
  redelivered, ex,                 \* TaskExecution
  reading, answer, shown,          \* Queries
  struck  \* history: the tasks that a fault has struck and nobody marks failed

vars ==
  <<tasks, reports, created, queue, req, redelivered, ex, reading, answer, shown, struck>>

Api == INSTANCE Submission WITH Faults <- ApiFaults

Pool == INSTANCE TaskExecution WITH Faults <- WorkerFaults

Reader == INSTANCE Queries

TypeOK ==
  /\ Api!TypeOK
  /\ Pool!TypeOK
  /\ Reader!QueriesTypeOK
  /\ struck \subseteq TaskIds

Init ==
  /\ Api!Init
  /\ reports = {}
  /\ redelivered = 0
  /\ ex = [w \in Workers |-> Pool!Idle]
  /\ Reader!QueriesInit
  /\ struck = {}

ApiStep ==
  /\ \/ /\ \E r \in TaskIds : Api!Handle(r)
        /\ UNCHANGED struck
     \/ \E r \in TaskIds : Api!HandlerFault(r) /\ struck' = struck \union {r}
  /\ UNCHANGED <<reports, redelivered, ex, reading, answer, shown>>

(* The faults of a worker that leave its task as it is: no except clause   *)
(* runs, or its mark_task_failed raises.                                   *)
Abandons(w) ==
  \/ Pool!BuildRaises(w)
  \/ Pool!DbRaisesOutsideTry(w)
  \/ Pool!DbRaisesInsideTry(w)
  \/ Pool!Crash(w)

(* The faults that the except clause turns into a failed task.             *)
Fails(w) ==
  \/ Pool!NodeRaises(w)
  \/ Pool!PublishRaises(w)
  \/ Pool!RefreshRaises(w)

PoolStep ==
  /\ \/ /\ \/ \E t \in TaskIds : Pool!Redeliver(t)
           \/ \E w \in Workers, t \in TaskIds : Pool!Receive(w, t)
           \/ \E w \in Workers : Pool!Step(w) \/ Fails(w)
        /\ UNCHANGED struck
     \/ \E w \in Workers : Abandons(w) /\ struck' = struck \union {ex[w].task}
  /\ UNCHANGED <<created, req, reading, answer, shown>>

ReaderStep == Reader!QueriesNext /\ UNCHANGED <<queue, req, redelivered, ex, struck>>

Next ==
  \/ ApiStep
  \/ PoolStep
  \/ ReaderStep

Spec == Init /\ [][Next]_vars

Handler(r) ==
  Api!Handle(r) /\ UNCHANGED <<reports, redelivered, ex, reading, answer, shown, struck>>

Worker(w) == Pool!Step(w) /\ UNCHANGED <<created, req, reading, answer, shown, struck>>

Delivery(t) ==
  /\ \E w \in Workers : Pool!Receive(w, t)
  /\ UNCHANGED <<created, req, reading, answer, shown, struck>>

(* A client polls again and again.                                         *)
Poll(t) ==
  /\ Reader!AnswerForTask(t) \/ Reader!FindCompleted(t) \/ Reader!ReadReport(t)
  /\ UNCHANGED <<tasks, created, reports, queue, req, redelivered, ex, struck>>

(* Handlers and workers go on, waiting messages are received, and every    *)
(* client polls: the event loops resume whatever is ready, and every await *)
(* of theirs has a timeout or is answered.                                 *)
FairSpec ==
  /\ Spec
  /\ \A r \in TaskIds : WF_vars(Handler(r))
  /\ \A w \in Workers : WF_vars(Worker(w))
  /\ \A t \in TaskIds : WF_vars(Delivery(t)) /\ WF_vars(Poll(t))
-----------------------------------------------------------------------------
(* The whole system keeps the lifecycle of each task, from before its      *)
(* request is committed, when no message is redelivered: submission,       *)
(* execution and every fault together.                                     *)
Revocable == "refresh" \in WorkerFaults

Lifecycle ==
  INSTANCE TaskLifecycle
    WITH phase <- [t \in TaskIds |->
                     IF t \in created THEN StageForApi(tasks[t]) ELSE "absent"]

ImplementsLifecycle == Lifecycle!Spec

(* A worker only ever executes committed tasks, and a task has left the    *)
(* state of its INSERT only if it was enqueued: the commit precedes        *)
(* send_task (research.py:91-101), so ValueError at research_task.py:142   *)
(* is never raised.                                                        *)
OnlyCommittedTasksRun ==
  /\ \A w \in Workers : ex[w].task # NoTask => ex[w].task \in created
  /\ \A t \in TaskIds : tasks[t] # NewRow => t \in created

(* What clients are told never goes back, whichever endpoint they ask: a   *)
(* failure is for ever, a task shown as completed or found without its     *)
(* report never runs, waits or is too early again, and a report once       *)
(* served is not missed later (research.py:125-210).  One thing takes a    *)
(* success back: a refresh that fails after the commit (TaskExecution);    *)
(* a request that has found the task completed before that may still       *)
(* answer after another has seen the failure.                              *)
AnswersNeverRevert ==
  [][\A t \in TaskIds : LET revoked == IF Revocable THEN {"409", "failed"} ELSE {} IN
       /\ answer[t] = "409" \/ shown[t] = "failed" =>
            /\ answer'[t] \in {answer[t], "409"} \/ (Revocable /\ t \in reading)
            /\ shown'[t] \in {shown[t], "failed"}
       /\ answer[t] \in {"404r", "200"} \/ shown[t] = "completed" =>
            /\ answer'[t] \in {answer[t], "404r", "200"} \union revoked
            /\ shown'[t] \in {shown[t], "completed"} \union revoked
       /\ answer[t] = "200" => answer'[t] # "404r"]_vars

(* Every request comes to an end its client gets to see for good: it is    *)
(* refused, or its task is accepted and the client is given the report or  *)
(* told of the failure.  Only a fault in the handler that created the task *)
(* or the worker that executed it leaves its clients waiting: a process    *)
(* that dies, a database call or build_graph that raises.                  *)
Concluded(r) ==
  \/ req[r].reply \in {"409", "422", "500"}
  \/ req[r].reply = "202" /\ answer[req[r].task] \in {"200", "409"}

EveryRequestConcludes ==
  \A r \in TaskIds : <>[](Concluded(r) \/ req[r].task \in struck)
=============================================================================
