--------------------------- MODULE LeonardoProofs ----------------------------
(***************************************************************************)
(* Safety of the whole system, for every set of requests, keys, payloads,  *)
(* workers and clients, every set of faults of the API and of the workers, *)
(* every iteration bound and every findings threshold.                     *)
(*                                                                         *)
(* The argument is the interface between the two sides: until the handler  *)
(* of a task has committed its row and sent its message, no worker touches *)
(* the task, and once it has, no handler does.  What TaskExecutionProofs   *)
(* proves of the workers is cited through an instance of it.               *)
(***************************************************************************)
EXTENDS Leonardo, TLAPS

(* The executions of the system, with no operators next to them.           *)
Exec == INSTANCE TaskExecutionProofs
          WITH Faults <- WorkerFaults, Patches <- {}, MaxPatches <- 0, MaxPuts <- 0,
               patches <- {}, puts <- {}, patched <- 0, put <- 0

-----------------------------------------------------------------------------
(* The workers of the system are those of TaskExecutionProofs.             *)

LEMMA SameStep == Pool!Next => Exec!Next
  BY DEF Pool!Next, Exec!Next, Pool!Redeliver, Exec!Redeliver, Pool!Receive,
     Exec!Receive, Pool!Step, Exec!Step, Pool!Fault, Exec!Fault,
     Pool!Load, Exec!Load, Pool!MarkRunning, Exec!MarkRunning,
     Pool!BuildGraph, Exec!BuildGraph, Pool!RunNode, Exec!RunNode,
     Pool!PersistProgress, Exec!PersistProgress,
     Pool!PublishProgress, Exec!PublishProgress,
     Pool!PersistFinal, Exec!PersistFinal, Pool!LookUpReport, Exec!LookUpReport,
     Pool!SaveReport, Exec!SaveReport, Pool!RefreshReport, Exec!RefreshReport,
     Pool!Reload, Exec!Reload, Pool!RefreshRaises, Exec!RefreshRaises,
     Pool!SaveReportConflict, Exec!SaveReportConflict,
     Pool!MarkFailed, Exec!MarkFailed,
     Pool!MarkFailedRaises, Exec!MarkFailedRaises,
     Pool!BuildRaises, Exec!BuildRaises, Pool!NodeRaises, Exec!NodeRaises,
     Pool!PublishRaises, Exec!PublishRaises,
     Pool!DbRaisesOutsideTry, Exec!DbRaisesOutsideTry,
     Pool!DbRaisesInsideTry, Exec!DbRaisesInsideTry,
     Pool!CommitLost, Exec!CommitLost, Pool!Crash, Exec!Crash,
     Pool!At, Exec!At, Pool!GoTo, Exec!GoTo, Pool!Finish, Exec!Finish,
     Pool!Commit, Exec!Commit, Pool!Write, Exec!Write,
     Pool!Refresh, Exec!Refresh, Pool!Idle, Exec!Idle,
     Pool!Wanted, Exec!Wanted, Pool!WantedRunning, Exec!WantedRunning,
     Pool!WantedProgress, Exec!WantedProgress,
     Pool!WantedFinal, Exec!WantedFinal, Pool!WantedFailed, Exec!WantedFailed,
     Pool!StageOfNode, Exec!StageOfNode, Pool!Flush, Exec!Flush,
     Pool!Changed, Exec!Changed, Pool!NewRow, Exec!NewRow,
     Pool!After, Exec!After, Pool!NextNode, Exec!NextNode,
     Pool!RouteAfterAnalysis, Exec!RouteAfterAnalysis

(* The assumptions of TaskExecutionProofs on its constants.                *)
LEMMA ExecAssumptions ==
  /\ Exec!NoTaskAssumption /\ Exec!FaultsAssumption
  /\ Exec!MaxRedeliveriesAssumption
  /\ Exec!MaxIterationsAssumption /\ Exec!MinFindingsAssumption
  /\ Exec!PatchesAssumption /\ Exec!RequestsAssumption
  BY NoTaskAssumption, WorkerFaultsAssumption, BoundsAssumption
     DEF Exec!NoTaskAssumption, Exec!FaultsAssumption, Exec!FaultKinds,
         Exec!MaxRedeliveriesAssumption, Exec!MaxIterationsAssumption,
         Exec!MinFindingsAssumption, Exec!PatchesAssumption, Exec!RequestsAssumption

(* A new row is the same for the API and for the workers.                  *)
LEMMA SameRows == Exec!NewRow = NewRow /\ Api!NewRow = NewRow /\ Exec!Rows = Api!Rows
  BY DEF Exec!NewRow, NewRow, Api!NewRow, Exec!Rows, Api!Rows, Exec!Statuses,
     Api!Statuses, Exec!Stages, Api!Stages

(* The lemmas about the workers, for a step of the system's workers.       *)
LEMMA WorkersType ==
  ASSUME Exec!TypeOK, Pool!Next
  PROVE  Exec!TypeOK' /\ reports \subseteq reports'
<1>1. [Exec!Next]_(Exec!vars)
  BY SameStep
<1> QED
  BY <1>1, ExecAssumptions, Exec!NextType, Exec!ReportsStay

LEMMA WorkersLeaveAlone ==
  ASSUME Exec!TypeOK, Pool!Next, NEW t \in TaskIds, Exec!AtRest(t)
  PROVE  /\ Exec!AtRest(t)'
         /\ tasks'[t] = tasks[t]
         /\ t \in reports' <=> t \in reports
<1>1. [Exec!Next]_(Exec!vars)
  BY SameStep
<1> QED
  BY <1>1, ExecAssumptions, Exec!RestingStep

LEMMA WorkersStep ==
  ASSUME MaxRedeliveries = 0, Exec!IInv, Pool!Next
  PROVE  Exec!IInv' /\ (Exec!Evolves \/ UNCHANGED tasks)
<1>1. [Exec!Next]_(Exec!vars)
  BY SameStep
<1> QED
  BY <1>1, ExecAssumptions, Exec!NextIInv

LEMMA WorkersRows ==
  ASSUME Exec!IInv, Exec!Evolves \/ UNCHANGED tasks
  PROVE  \A t \in TaskIds : Exec!RowStep(tasks[t], tasks'[t])
  BY ExecAssumptions, Exec!RowsStep

-----------------------------------------------------------------------------
(* Committed first, sent second, executed third.                           *)

(* What each handler knows of its own row.                                 *)
HandlerOK(r) ==
  /\ req[r].pc \in {"start", "insert"} => r \notin created
  /\ req[r].pc = "send" => r \in created

(* A task that no message has been sent for, and what that means for it.   *)
Unsent(t) == t \notin created \/ req[t].pc = "send"

Untouched(t) == Exec!AtRest(t) /\ tasks[t] = NewRow /\ t \notin reports

CommitInv ==
  /\ Exec!TypeOK
  /\ created \in SUBSET TaskIds
  /\ req \in [TaskIds -> Api!Handlers]
  /\ \A r \in TaskIds : HandlerOK(r)
  /\ \A t \in TaskIds : Unsent(t) => Untouched(t)

(* The four things a handler does: answer, go on, commit its row, send its *)
(* message.                                                                *)
Handled(r, new) ==
  /\ req' = [req EXCEPT ![r] = new]
  /\ \/ UNCHANGED <<tasks, created, queue>> /\ new.pc = "done"
     \/ /\ UNCHANGED <<tasks, created, queue>>
        /\ req[r].pc = "start" /\ new.pc = "insert"
     \/ /\ Api!Store(r) /\ UNCHANGED queue
        /\ req[r].pc = "insert" /\ new.pc \in {"send", "done"}
     \/ /\ Api!Publish(r) /\ UNCHANGED <<tasks, created>>
        /\ req[r].pc = "send" /\ new.pc = "done"

LEMMA HandlerDoes ==
  ASSUME CommitInv, NEW r \in TaskIds, Api!Handle(r) \/ Api!HandlerFault(r)
  PROVE  \E new \in Api!Handlers : Handled(r, new)
<1>1. req[r] \in Api!Handlers /\ created \subseteq TaskIds
  BY DEF CommitInv
<1>2. ASSUME NEW code \in Api!Codes, NEW t \in TaskIds
      PROVE  /\ [pc |-> "done", reply |-> code, task |-> t] \in Api!Handlers
             /\ [pc |-> "done", reply |-> code, task |-> t].pc = "done"
  BY DEF Api!Handlers
<1>3. ASSUME NEW p \in {"insert", "send"}, req' = [req EXCEPT ![r].pc = p]
      PROVE  \E new \in Api!Handlers :
               new.pc = p /\ req' = [req EXCEPT ![r] = new]
  <2>1. /\ [req[r] EXCEPT !.pc = p] \in Api!Handlers
        /\ [req[r] EXCEPT !.pc = p].pc = p
    BY <1>1 DEF Api!Handlers
  <2> QED
    BY <1>3, <2>1
<1>4. \A code \in Api!Codes, t \in TaskIds :
        Api!Reply(r, code, t) =>
          \E new \in Api!Handlers :
            new.pc = "done" /\ req' = [req EXCEPT ![r] = new]
  BY <1>2 DEF Api!Reply
<1>5. {"none", "202", "409", "422", "500"} \subseteq Api!Codes
  BY DEF Api!Codes
<1>6. CASE Api!Reject(r) \/ Api!InsertConflict(r) \/ Api!ApiCrash(r)
  BY <1>4, <1>5, <1>6
     DEF Api!Reject, Api!InsertConflict, Api!ApiCrash, Handled
<1>7. CASE Api!LookUp(r)
  <2>1. PICK t \in created :
          Api!Reply(r, "202", t) \/ Api!Reply(r, "409", r)
    BY <1>7 DEF Api!LookUp, Api!Holders
  <2> QED
    BY <1>1, <1>4, <1>5, <1>7, <2>1 DEF Api!LookUp, Handled
<1>8. CASE Api!GoOnToInsert(r)
  BY <1>3, <1>8 DEF Api!GoOnToInsert, Handled
<1>9. CASE Api!Insert(r)
  BY <1>3, <1>9 DEF Api!Insert, Handled
<1>10. CASE Api!Send(r) \/ Api!SendRaises(r)
  BY <1>4, <1>5, <1>10 DEF Api!Send, Api!SendRaises, Handled
<1>11. CASE Api!DbRaises(r)
  BY <1>4, <1>5, <1>11 DEF Api!DbRaises, Handled
<1> QED
  BY <1>6, <1>7, <1>8, <1>9, <1>10, <1>11 DEF Api!Handle, Api!HandlerFault

(* A handler writes the defaults of a row nobody has touched: no row is    *)
(* changed by the API.                                                     *)
LEMMA HandlersKeepRows ==
  ASSUME CommitInv, NEW r \in TaskIds, NEW new, Handled(r, new)
  PROVE  tasks' = tasks /\ created \subseteq created'
<1>1. CASE UNCHANGED <<tasks, created>>
  BY <1>1
<1>2. CASE Api!Store(r) /\ req[r].pc = "insert"
  <2>1. tasks[r] = Api!NewRow
    BY <1>2, SameRows DEF CommitInv, HandlerOK, Unsent, Untouched
  <2> QED
    BY <1>2, <2>1 DEF Api!Store, CommitInv, Exec!TypeOK
<1> QED
  BY <1>1, <1>2 DEF Handled

(* The steps of the two sides, without the history of who was struck.      *)
LEMMA SidesStep ==
  /\ ApiStep => /\ \E r \in TaskIds : Api!Handle(r) \/ Api!HandlerFault(r)
                /\ UNCHANGED <<reports, redelivered, ex, reading, answer, shown>>
  /\ PoolStep => Pool!Next /\ UNCHANGED <<created, req, reading, answer, shown>>
<1>1. ASSUME NEW w \in Workers, Fails(w) \/ Abandons(w) PROVE Pool!Fault(w)
  BY <1>1 DEF Fails, Abandons, Pool!Fault
<1> QED
  BY <1>1 DEF ApiStep, PoolStep, Pool!Next

(* The initial state: nothing is committed, sent or executed.              *)
LEMMA InitCommitInv == Init => CommitInv
<1> SUFFICES ASSUME Init PROVE CommitInv
  OBVIOUS
<1>1. /\ tasks = [t \in TaskIds |-> NewRow] /\ created = {} /\ reports = {}
      /\ queue = [t \in TaskIds |-> 0] /\ redelivered = 0
      /\ ex = [w \in Workers |-> Exec!Idle]
      /\ req = [r \in TaskIds |-> [pc |-> "start", reply |-> "none", task |-> r]]
  BY SameRows DEF Init, Api!Init, Pool!Idle, Exec!Idle, Pool!NewRow, Exec!NewRow
<1>2. NewRow \in Exec!Rows /\ Exec!Idle \in Exec!Executions /\ Exec!Idle.pc = "idle"
  BY ExecAssumptions, Exec!IdleType, SameRows
<1>3. Exec!TypeOK
  BY <1>1, <1>2, BoundsAssumption DEF Exec!TypeOK
<1>4. \A t \in TaskIds : Untouched(t)
  BY <1>1, NoTaskAssumption DEF Untouched, Exec!AtRest, Exec!Idle
<1> QED
  BY <1>1, <1>3, <1>4 DEF CommitInv, HandlerOK, Api!Handlers, Api!Codes

(* Handlers keep the invariant: a message is only sent for a task whose    *)
(* row is committed.                                                       *)
LEMMA ApiCommitInv ==
  ASSUME CommitInv, ApiStep
  PROVE  CommitInv'
<1>1. PICK r \in TaskIds, new \in Api!Handlers : Handled(r, new)
  BY SidesStep, HandlerDoes
<1>2. UNCHANGED <<tasks, reports, redelivered, ex>>
  BY <1>1, SidesStep, HandlersKeepRows
<1>3. /\ req \in [TaskIds -> Api!Handlers] /\ created \subseteq TaskIds
      /\ queue \in [TaskIds -> Nat]
  BY DEF CommitInv, Exec!TypeOK
<1>4. /\ req' \in [TaskIds -> Api!Handlers] /\ req'[r] = new
      /\ \A t \in TaskIds : t # r => req'[t] = req[t]
  BY <1>1, <1>3 DEF Handled
<1>5. /\ created' \subseteq TaskIds /\ queue' \in [TaskIds -> Nat]
      /\ \A t \in TaskIds : t # r =>
           queue'[t] = queue[t] /\ (t \in created' <=> t \in created)
  BY <1>1, <1>3 DEF Handled, Api!Store, Api!Publish
<1>6. Exec!TypeOK'
  BY <1>2, <1>5 DEF CommitInv, Exec!TypeOK
<1>7. HandlerOK(r)' /\ (Unsent(r)' => Untouched(r)')
  BY <1>1, <1>2, <1>3, <1>4
     DEF Handled, HandlerOK, Unsent, Untouched, Exec!AtRest, CommitInv,
         Api!Store
<1>8. ASSUME NEW t \in TaskIds, t # r
      PROVE  HandlerOK(t)' /\ (Unsent(t)' => Untouched(t)')
  BY <1>2, <1>4, <1>5, <1>8
     DEF HandlerOK, Unsent, Untouched, Exec!AtRest, CommitInv
<1> QED
  BY <1>4, <1>5, <1>6, <1>7, <1>8 DEF CommitInv

(* Workers keep it: they have no task in hand that has not been sent.      *)
LEMMA PoolCommitInv ==
  ASSUME CommitInv, PoolStep
  PROVE  CommitInv'
<1>1. Pool!Next /\ UNCHANGED <<created, req>> /\ Exec!TypeOK
  BY SidesStep DEF CommitInv
<1>2. Exec!TypeOK'
  BY <1>1, WorkersType
<1>3. ASSUME NEW t \in TaskIds, Unsent(t)' PROVE Untouched(t)'
  BY <1>1, <1>3, WorkersLeaveAlone DEF CommitInv, Unsent, Untouched
<1> QED
  BY <1>1, <1>2, <1>3 DEF CommitInv, HandlerOK

(* So do queries, which write nothing the invariant is about.              *)
LEMMA NextCommitInv == CommitInv /\ [Next]_vars => CommitInv'
<1>1. CommitInv /\ UNCHANGED <<tasks, created, reports, queue, req, redelivered, ex>>
        => CommitInv'
  BY DEF CommitInv, Exec!TypeOK, HandlerOK, Unsent, Untouched, Exec!AtRest
<1> QED
  BY <1>1, ApiCommitInv, PoolCommitInv DEF Next, ReaderStep, Reader!QueriesNext, vars

THEOREM CommittedFirst == Spec => []CommitInv
  BY InitCommitInv, NextCommitInv, PTL DEF Spec

(* No worker ever looks for a row that is not there, whatever fails and    *)
(* whatever is redelivered.                                                *)
THEOREM WorkersFindTheirTasks == Spec => []OnlyCommittedTasksRun
<1>1. CommitInv => OnlyCommittedTasksRun
  <2> SUFFICES ASSUME CommitInv PROVE OnlyCommittedTasksRun
    OBVIOUS
  <2>1. \A w \in Workers : ex[w].task \in TaskIds \union {NoTask}
    BY DEF CommitInv, Exec!TypeOK, Exec!Executions
  <2> QED
    BY <2>1 DEF CommitInv, OnlyCommittedTasksRun, Unsent, Untouched, Exec!AtRest
<1> QED
  BY <1>1, CommittedFirst, PTL

-----------------------------------------------------------------------------
(* Without redelivered messages, the invariant IInv of the executions      *)
(* holds of the system, though its tasks are sent one by one.              *)

(* Sending the first message of a task nobody has touched.                 *)
LEMMA PublishIInv ==
  ASSUME CommitInv, Exec!IInv, NEW r \in TaskIds, Untouched(r),
         Api!Publish(r), UNCHANGED <<tasks, reports, redelivered, ex>>
  PROVE  Exec!IInv'
<1>1. /\ queue \in [TaskIds -> Nat] /\ tasks[r] = Exec!NewRow /\ r \notin reports
      /\ queue[r] = 0 /\ \A w \in Workers : ex[w].task # r
  BY SameRows DEF Exec!IInv, Exec!TypeOK, Untouched, Exec!AtRest
<1>2. /\ queue' \in [TaskIds -> Nat] /\ queue'[r] = 1
      /\ \A t \in TaskIds : t # r => queue'[t] = queue[t]
  BY <1>1 DEF Api!Publish
<1>3. Exec!TypeOK'
  BY <1>2 DEF Exec!IInv, Exec!TypeOK
<1>4. (\A t \in TaskIds : Exec!WaitingOK(t))'
  BY <1>1, <1>2 DEF Exec!IInv, Exec!WaitingOK
<1>5. (\A w \in Workers : Exec!Exclusive(w))'
  BY <1>1, <1>2 DEF Exec!IInv, Exec!TypeOK, Exec!Exclusive, Exec!Busy
<1>6. (\A t \in TaskIds : Exec!RowOK(tasks[t], t \in reports))'
  BY DEF Exec!IInv
<1>7. (\A w \in Workers : ~Exec!Busy(ex[w]) => ex[w] = Exec!Idle)'
  BY DEF Exec!IInv
<1>8. (\A w \in Workers :
          Exec!Busy(ex[w]) =>
            Exec!LocalOK(ex[w], tasks[ex[w].task], ex[w].task \in reports))'
  BY DEF Exec!IInv
<1> QED
  BY <1>3, <1>4, <1>5, <1>6, <1>7, <1>8 DEF Exec!IInv

LEMMA SameIInv ==
  ASSUME Exec!IInv, UNCHANGED <<tasks, reports, queue, redelivered, ex>>
  PROVE  Exec!IInv'
  BY DEF Exec!IInv, Exec!TypeOK, Exec!RowOK, Exec!WaitingOK, Exec!Exclusive

LEMMA InitWorkers == Init => Exec!IInv
<1> SUFFICES ASSUME Init PROVE Exec!IInv
  OBVIOUS
<1>1. /\ tasks = [t \in TaskIds |-> Exec!NewRow] /\ reports = {}
      /\ queue = [t \in TaskIds |-> 0] /\ redelivered = 0
      /\ ex = [w \in Workers |-> Exec!Idle]
  BY SameRows DEF Init, Api!Init, Pool!Idle, Exec!Idle, Pool!NewRow, Exec!NewRow
<1>2. Exec!TypeOK
  BY InitCommitInv DEF CommitInv
<1>3. \A t \in TaskIds : Exec!RowOK(tasks[t], t \in reports)
  BY <1>1, BoundsAssumption DEF Exec!RowOK, Exec!Coherent, Exec!NewRow
<1>4. \A w \in Workers : ex[w] = Exec!Idle /\ ~Exec!Busy(ex[w])
  BY <1>1 DEF Exec!Busy, Exec!Idle
<1> QED
  BY <1>1, <1>2, <1>3, <1>4 DEF Exec!IInv, Exec!WaitingOK, Exec!Exclusive

(* Of a row a step changes what the lifecycle allows, if anything.         *)
RowsEvolve == \A t \in TaskIds : Exec!RowStep(tasks[t], tasks'[t])

LEMMA NextWorkers ==
  ASSUME MaxRedeliveries = 0, CommitInv, Exec!IInv, [Next]_vars
  PROVE  Exec!IInv' /\ (Exec!Evolves \/ UNCHANGED tasks)
<1>1. CASE ApiStep
  <2>1. PICK r \in TaskIds, new \in Api!Handlers : Handled(r, new)
    BY <1>1, SidesStep, HandlerDoes
  <2>2. UNCHANGED <<tasks, reports, redelivered, ex>>
    BY <1>1, <2>1, SidesStep, HandlersKeepRows
  <2>3. CASE UNCHANGED queue
    BY <2>2, <2>3, SameIInv
  <2>4. CASE Api!Publish(r) /\ req[r].pc = "send"
    BY <2>2, <2>4, PublishIInv DEF CommitInv, Unsent
  <2> QED
    BY <2>1, <2>2, <2>3, <2>4 DEF Handled
<1>2. CASE PoolStep
  BY <1>2, SidesStep, WorkersStep
<1>3. CASE ReaderStep \/ UNCHANGED vars
  BY <1>3, SameIInv DEF ReaderStep, Reader!QueriesNext, vars
<1> QED
  BY <1>1, <1>2, <1>3 DEF Next

(* What a client has been told of a task is still so, or its success has   *)
(* been taken back.                                                        *)
ToldTrue(t) ==
  /\ answer[t] = "200" => t \in reports
  /\ answer[t] \in {"404r", "200"} \/ shown[t] = "completed" \/ t \in reading =>
       /\ t \in created
       /\ tasks[t].status = "completed" \/ (Revocable /\ tasks[t].status = "failed")
  /\ answer[t] = "409" \/ shown[t] = "failed" =>
       t \in created /\ tasks[t].status = "failed"

LeonardoInv ==
  /\ CommitInv
  /\ Exec!IInv
  /\ Reader!QueriesTypeOK
  /\ \A t \in TaskIds : ToldTrue(t)

(* Queries.                                                                *)
LEMMA QueryStep ==
  ASSUME LeonardoInv, NEW t \in TaskIds,
         Reader!ReadStatus(t) \/ Reader!AnswerForTask(t)
           \/ Reader!FindCompleted(t) \/ Reader!ReadReport(t),
         UNCHANGED <<tasks, created, reports>>
  PROVE  Reader!QueriesTypeOK' /\ \A s \in TaskIds : ToldTrue(s)'
<1>1. /\ reading \subseteq TaskIds
      /\ answer \in [TaskIds -> Reader!Answers]
      /\ shown \in [TaskIds -> {"none", "404t"} \union Reader!Statuses]
      /\ tasks[t].status \in Reader!Statuses
      /\ \A s \in TaskIds : ToldTrue(s)
  BY DEF LeonardoInv, Reader!QueriesTypeOK, CommitInv, Exec!TypeOK, Exec!Rows,
         Exec!Statuses, Reader!Statuses
<1>2. CASE Reader!ReadStatus(t)
  BY <1>1, <1>2 DEF Reader!ReadStatus, Reader!QueriesTypeOK, ToldTrue
<1>3. CASE Reader!AnswerForTask(t)
  BY <1>1, <1>3
     DEF Reader!AnswerForTask, Reader!Answer, Reader!Answers,
         Reader!QueriesTypeOK, ToldTrue
<1>4. CASE Reader!FindCompleted(t)
  BY <1>1, <1>4 DEF Reader!FindCompleted, Reader!QueriesTypeOK, ToldTrue
<1>5. CASE Reader!ReadReport(t)
  BY <1>1, <1>5
     DEF Reader!ReadReport, Reader!Answer, Reader!Answers,
         Reader!QueriesTypeOK, ToldTrue
<1> QED
  BY <1>2, <1>3, <1>4, <1>5

LEMMA NextLeonardoInv ==
  ASSUME MaxRedeliveries = 0, LeonardoInv, [Next]_vars
  PROVE  LeonardoInv' /\ RowsEvolve
<1>1. CommitInv' /\ Exec!IInv' /\ RowsEvolve
  BY NextCommitInv, NextWorkers, WorkersRows DEF LeonardoInv, RowsEvolve
<1>2. CASE ReaderStep
  BY <1>1, <1>2, QueryStep DEF ReaderStep, Reader!QueriesNext, LeonardoInv
<1>3. CASE ~ReaderStep
  <2>1. UNCHANGED <<reading, answer, shown>>
    BY <1>3, SidesStep DEF Next, vars
  <2>2. created \subseteq created' /\ reports \subseteq reports'
    <3>1. CASE ApiStep
      <4>1. PICK r \in TaskIds, new \in Api!Handlers : Handled(r, new)
        BY <3>1, SidesStep, HandlerDoes DEF LeonardoInv
      <4> QED
        BY <3>1, <4>1, SidesStep, HandlersKeepRows DEF LeonardoInv
    <3>2. CASE PoolStep
      BY <3>2, SidesStep, WorkersType DEF LeonardoInv, CommitInv
    <3> QED
      BY <1>3, <3>1, <3>2 DEF Next, vars
  <2>3. \A t \in TaskIds :
          tasks[t].status \in {"completed", "failed"} =>
            \/ tasks'[t] = tasks[t]
            \/ Revocable /\ tasks[t].status = "completed" /\ tasks'[t].status = "failed"
    BY <1>1 DEF RowsEvolve, Exec!RowStep, Exec!Terminal, Exec!Revocable, Revocable
  <2>4. \A t \in TaskIds : ToldTrue(t)'
    BY <2>1, <2>2, <2>3 DEF LeonardoInv, ToldTrue
  <2> QED
    BY <1>1, <2>1, <2>4 DEF LeonardoInv, Reader!QueriesTypeOK
<1> QED
  BY <1>2, <1>3

THEOREM Invariant == ASSUME MaxRedeliveries = 0 PROVE Spec => []LeonardoInv
<1>1. Init => LeonardoInv
  BY InitCommitInv, InitWorkers
     DEF Init, LeonardoInv, Reader!QueriesInit, Reader!QueriesTypeOK,
         Reader!Answers, ToldTrue
<1>2. LeonardoInv /\ [Next]_vars => LeonardoInv'
  BY NextLeonardoInv
<1> QED
  BY <1>1, <1>2, PTL DEF Spec

-----------------------------------------------------------------------------
(* What clients have seen stands, whichever endpoint they ask and whatever *)
(* fails; only a failed refresh takes a success back.                      *)
THEOREM AnswersStand ==
  ASSUME MaxRedeliveries = 0 PROVE Spec => AnswersNeverRevert
<1> DEFINE revoked == IF Revocable THEN {"409", "failed"} ELSE {}
           Kept(t) ==
             /\ answer[t] = "409" \/ shown[t] = "failed" =>
                  /\ answer'[t] \in {answer[t], "409"} \/ (Revocable /\ t \in reading)
                  /\ shown'[t] \in {shown[t], "failed"}
             /\ answer[t] \in {"404r", "200"} \/ shown[t] = "completed" =>
                  /\ answer'[t] \in {answer[t], "404r", "200"} \union revoked
                  /\ shown'[t] \in {shown[t], "completed"} \union revoked
             /\ answer[t] = "200" => answer'[t] # "404r"
<1>1. LeonardoInv /\ [Next]_vars => [\A t \in TaskIds : Kept(t)]_vars
  <2> SUFFICES ASSUME LeonardoInv, Next, NEW t \in TaskIds PROVE Kept(t)
    BY DEF vars
  <2>1. CASE UNCHANGED <<answer, shown>>
    BY <2>1
  <2>2. ASSUME NEW s \in TaskIds,
               Reader!ReadStatus(s) \/ Reader!AnswerForTask(s)
                 \/ Reader!FindCompleted(s) \/ Reader!ReadReport(s)
        PROVE  Kept(t)
    <3>1. /\ answer \in [TaskIds -> Reader!Answers]
          /\ shown \in [TaskIds -> {"none", "404t"} \union Reader!Statuses]
          /\ ToldTrue(s) /\ ToldTrue(t)
      BY DEF LeonardoInv, Reader!QueriesTypeOK
    <3>2. CASE s # t
      BY <2>2, <3>1, <3>2
         DEF Reader!ReadStatus, Reader!AnswerForTask, Reader!FindCompleted,
             Reader!ReadReport, Reader!Answer
    <3>3. CASE s = t /\ Reader!ReadStatus(s)
      BY <3>1, <3>3 DEF Reader!ReadStatus, ToldTrue
    <3>4. CASE s = t /\ Reader!AnswerForTask(s)
      BY <3>1, <3>4
         DEF Reader!AnswerForTask, Reader!Answer, Reader!Terminal, ToldTrue
    <3>5. CASE s = t /\ Reader!FindCompleted(s)
      BY <3>5 DEF Reader!FindCompleted
    <3>6. CASE s = t /\ Reader!ReadReport(s)
      BY <3>1, <3>6 DEF Reader!ReadReport, Reader!Answer, ToldTrue
    <3> QED
      BY <2>2, <3>2, <3>3, <3>4, <3>5, <3>6
  <2> QED
    BY <2>1, <2>2, SidesStep DEF Next, ReaderStep, Reader!QueriesNext
<1> QED
  BY <1>1, Invariant, PTL DEF Spec, AnswersNeverRevert

(* Submission, execution and queries together implement the lifecycle of a *)
(* task, from before its request is committed.                             *)
THEOREM SystemImplementsLifecycle ==
  ASSUME MaxRedeliveries = 0 PROVE Spec => ImplementsLifecycle
<1> DEFINE phase == [t \in TaskIds |->
                       IF t \in created THEN StageForApi(tasks[t]) ELSE "absent"]
<1>1. Init => Lifecycle!Init
  <2> SUFFICES ASSUME Init PROVE Lifecycle!Init
    OBVIOUS
  <2>1. created = {}
    BY DEF Init, Api!Init
  <2> QED
    BY <2>1 DEF Lifecycle!Init
<1>2. LeonardoInv /\ [Next]_vars => [Lifecycle!Next]_phase
  <2> SUFFICES ASSUME LeonardoInv, [Next]_vars
               PROVE  Lifecycle!Next \/ phase' = phase
    OBVIOUS
  <2>1. tasks \in [TaskIds -> Exec!Rows] /\ created \subseteq TaskIds
    BY DEF LeonardoInv, CommitInv, Exec!TypeOK
  <2>2. CASE ApiStep
    <3>1. PICK r \in TaskIds, new \in Api!Handlers : Handled(r, new)
      BY <2>2, SidesStep, HandlerDoes DEF LeonardoInv
    <3>2. tasks' = tasks
      BY <3>1, HandlersKeepRows DEF LeonardoInv
    <3>3. CASE UNCHANGED created
      BY <3>2, <3>3
    <3>4. CASE Api!Store(r) /\ req[r].pc = "insert"
      <4>1. r \notin created /\ tasks[r] = NewRow /\ created' = created \union {r}
        BY <3>4 DEF LeonardoInv, CommitInv, HandlerOK, Unsent, Untouched, Api!Store
      <4>2. StageForApi(NewRow) = "queued"
        BY DEF StageForApi, NewRow
      <4>3. phase[r] = "absent" /\ phase' = [phase EXCEPT ![r] = "queued"]
        BY <3>2, <4>1, <4>2
      <4>4. "queued" \in Lifecycle!Successor[phase[r]]
        BY <4>3 DEF Lifecycle!Successor
      <4> QED
        BY <4>3, <4>4 DEF Lifecycle!Next, Lifecycle!Advance
    <3> QED
      BY <3>1, <3>3, <3>4 DEF Handled
  <2>3. CASE PoolStep
    <3>1. Exec!Evolves \/ UNCHANGED tasks
      BY <2>3, SidesStep, WorkersStep DEF LeonardoInv
    <3>2. UNCHANGED created
      BY <2>3, SidesStep
    <3>3. CASE UNCHANGED tasks
      BY <3>2, <3>3
    <3>4. CASE Exec!Evolves
      <4>1. PICK t \in TaskIds, row \in Exec!Rows :
              tasks' = [tasks EXCEPT ![t] = row] /\ Exec!RowStep(tasks[t], row)
        BY <3>4 DEF Exec!Evolves
      <4>2. CASE t \notin created
        BY <2>1, <3>2, <4>1, <4>2
      <4>3. CASE t \in created
        <5>1. /\ phase[t] = StageForApi(tasks[t])
              /\ phase' = [phase EXCEPT ![t] = StageForApi(row)]
          BY <2>1, <3>2, <4>1, <4>3
        <5>2. \/ StageForApi(row) = StageForApi(tasks[t])
              \/ StageForApi(row) \in Lifecycle!Successor[StageForApi(tasks[t])]
          BY <4>1
             DEF Exec!RowStep, Exec!StageForApi, StageForApi, Exec!RunningStage,
                 RunningStage, Exec!Lifecycle!Successor, Lifecycle!Successor,
                 Exec!Revocable, Revocable
        <5>3. CASE StageForApi(row) = phase[t]
          BY <5>1, <5>3
        <5>4. CASE StageForApi(row) \in Lifecycle!Successor[phase[t]]
          BY <5>1, <5>4 DEF Lifecycle!Next, Lifecycle!Advance
        <5> QED
          BY <5>1, <5>2, <5>3, <5>4
      <4> QED
        BY <4>2, <4>3
    <3> QED
      BY <3>1, <3>3, <3>4
  <2>4. CASE ReaderStep \/ UNCHANGED vars
    BY <2>4 DEF ReaderStep, Reader!QueriesNext, vars
  <2> QED
    BY <2>2, <2>3, <2>4 DEF Next
<1> QED
  BY <1>1, <1>2, Invariant, PTL DEF Spec, ImplementsLifecycle, Lifecycle!Spec
=============================================================================
