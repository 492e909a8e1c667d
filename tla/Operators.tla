------------------------------ MODULE Operators ------------------------------
(***************************************************************************)
(* The internal endpoints for tasks and reports next to the workers: an    *)
(* operator PATCHes any columns of a task and PUTs the report of one while *)
(* it is executed.  Each request has a session of its own; PATCH writes    *)
(* the columns that differ from what it has read.  Source:                 *)
(* src/src/api/routers/tasks.py, src/src/api/routers/reports.py,           *)
(* src/src/crud/tasks.py, src/src/crud/reports.py.                         *)
(***************************************************************************)
EXTENDS TaskExecution

CONSTANTS
  Patches,     \* payloads of PATCH: some columns of a row
  MaxPatches,  \* bound: the PATCH requests
  MaxPuts      \* bound: the PUT requests

(* ResearchTaskUpdate validates the columns it names.                      *)
ASSUME PatchesAssumption ==
  \A p \in Patches :
    /\ DOMAIN p \subseteq DOMAIN NewRow
    /\ "status" \in DOMAIN p => p.status \in Statuses
    /\ "stage" \in DOMAIN p => p.stage \in Stages
    /\ "error" \in DOMAIN p => p.error \in BOOLEAN
    /\ "iterations" \in DOMAIN p => p.iterations \in Nat
ASSUME RequestsAssumption == MaxPatches \in Nat /\ MaxPuts \in Nat

VARIABLES
  patches,  \* the PATCH requests that have read the row: task, row, payload
  puts,     \* the PUT requests that have looked the report up: task, found
  patched,  \* how many PATCH requests there have been
  put       \* how many PUT requests there have been

opVars == <<patches, puts, patched, put>>

OperatorsTypeOK ==
  /\ TypeOK
  /\ patches \subseteq [number : 1..patched, task : TaskIds, cached : Rows, payload : Patches]
  /\ puts \subseteq [number : 1..put, task : TaskIds, seen : BOOLEAN]
  /\ patched \in 0..MaxPatches /\ put \in 0..MaxPuts

OperatorsInit == Init /\ patches = {} /\ puts = {} /\ patched = 0 /\ put = 0

(* exclude_unset: the columns the payload names.                           *)
Patch(row, payload) ==
  [c \in DOMAIN row |-> IF c \in DOMAIN payload THEN payload[c] ELSE row[c]]

(* get_task                                                                *)
ReadTask(t, payload) ==
  /\ patched < MaxPatches
  /\ patched' = patched + 1
  /\ patches' = patches \union
       {[number |-> patched + 1, task |-> t, cached |-> tasks[t], payload |-> payload]}
  /\ UNCHANGED <<vars, puts, put>>

(* update_task                                                             *)
UpdateTask(p) ==
  /\ p \in patches
  /\ tasks' = [tasks EXCEPT ![p.task] = Flush(@, p.cached, Patch(p.cached, p.payload))]
  /\ patches' = patches \ {p}
  /\ UNCHANGED <<reports, queue, redelivered, ex, puts, patched, put>>

(* The db.get of upsert_report.                                            *)
FindReport(t) ==
  /\ put < MaxPuts
  /\ put' = put + 1
  /\ puts' = puts \union {[number |-> put + 1, task |-> t, seen |-> t \in reports]}
  /\ UNCHANGED <<vars, patches, patched>>

(* Its commit.  An INSERT that meets a row answers 500.                    *)
PutReport(p) ==
  /\ p \in puts
  /\ reports' = reports \union {p.task}
  /\ puts' = puts \ {p}
  /\ UNCHANGED <<tasks, queue, redelivered, ex, patches, patched, put>>

OperatorsNext ==
  \/ Next /\ UNCHANGED opVars
  \/ \E t \in TaskIds, payload \in Patches : ReadTask(t, payload)
  \/ \E t \in TaskIds : FindReport(t)
  \/ \E p \in patches : UpdateTask(p)
  \/ \E p \in puts : PutReport(p)

OperatorsSpec == OperatorsInit /\ [][OperatorsNext]_<<vars, opVars>>
-----------------------------------------------------------------------------
(* An execution records its outcome, whatever one PATCH did to the row     *)
(* before, after or between its own reading and writing: a task it         *)
(* completes is completed and done, one it fails is failed and in error.   *)
(* Its session sends only the columns that differ from its copy of the     *)
(* row, so the copy must not hide the difference (research_task.py:103-125,*)
(* crud/tasks.py:48-58).                                                   *)
OutcomesAreRecorded ==
  [][\A w \in Workers : LET t == ex[w].task IN
       /\ PersistFinal(w) => tasks'[t].status = "completed" /\ tasks'[t].stage = "done"
       /\ MarkFailed(w) => tasks'[t].status = "failed" /\ tasks'[t].stage = "error"]_<<vars, opVars>>
=============================================================================
