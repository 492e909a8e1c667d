----------------------------- MODULE Submission ------------------------------
(***************************************************************************)
(* POST /api/v1/research: src/src/api/routers/research.py,                 *)
(* create_research_task, with get_task_by_idempotency_key and create_task  *)
(* of src/src/crud/tasks.py and send_task of the Celery application.       *)
(*                                                                         *)
(* Requests are handled concurrently; a client that repeats a request is   *)
(* another request with the same key.  The task a request creates has the  *)
(* request's own identity as its id (a fresh uuid in the code).            *)
(***************************************************************************)
EXTENDS TaskModel

CONSTANTS
  TaskIds,        \* the requests, and the ids of the tasks they may create
  KeyOf,          \* the Idempotency-Key of each request, or NoKey
  NoKey,
  PayloadOf,      \* what _request_fingerprint digests, for each request
  ValidPayloads,  \* payloads whose sources are known and not repeated
  Faults          \* kinds of fault that may happen

ApiFaultKinds == {"crash", "db", "redis"}

ASSUME ApiFaultsAssumption == Faults \subseteq ApiFaultKinds

VARIABLES
  tasks,    \* table "tasks"; the defaults of a row that is not created yet
  created,  \* the tasks whose row is committed
  queue,    \* copies of each task's message that no worker has started
  req       \* the handler of each request

vars == <<tasks, created, queue, req>>

Codes == {"none", "202", "409", "422", "500"}

(* reply is the status code; task is the task a 202 names.                 *)
Handlers ==
  [pc    : {"start", "insert", "send", "done"},
   reply : Codes,
   task  : TaskIds]

TypeOK ==
  /\ tasks \in [TaskIds -> Rows]
  /\ created \in SUBSET TaskIds
  /\ queue \in [TaskIds -> Nat]
  /\ req \in [TaskIds -> Handlers]

Init ==
  /\ tasks = [t \in TaskIds |-> NewRow]
  /\ created = {}
  /\ queue = [t \in TaskIds |-> 0]
  /\ req = [r \in TaskIds |-> [pc |-> "start", reply |-> "none", task |-> r]]

Reply(r, code, t) ==
  req' = [req EXCEPT ![r] = [pc |-> "done", reply |-> code, task |-> t]]

Valid(r) == PayloadOf[r] \in ValidPayloads

Keyed(r) == KeyOf[r] # NoKey

(* The rows the unique column idempotency_key has for the key of r.        *)
Holders(r) == {t \in created : KeyOf[t] = KeyOf[r]}

(* Duplicate or unknown sources.                                           *)
Reject(r) ==
  /\ req[r].pc = "start"
  /\ ~Valid(r)
  /\ Reply(r, "422", r)
  /\ UNCHANGED <<tasks, created, queue>>

(* Mutants of LookUp: a replay is enqueued once more; any second use of a  *)
(* key is a conflict.                                                      *)
LookUpResending(r) ==
  /\ req[r].pc = "start"
  /\ Valid(r) /\ Keyed(r)
  /\ \E t \in Holders(r) :
       /\ PayloadOf[t] = PayloadOf[r]
       /\ Reply(r, "202", t)
       /\ queue' = [queue EXCEPT ![t] = @ + 1]
  /\ UNCHANGED <<tasks, created>>

LookUpRefusing(r) ==
  /\ req[r].pc = "start"
  /\ Valid(r) /\ Keyed(r)
  /\ \E t \in Holders(r) : Reply(r, "409", t)
  /\ UNCHANGED <<tasks, created, queue>>

(* get_task_by_idempotency_key finds a row: its payload decides.           *)
LookUp(r) ==
  /\ req[r].pc = "start"
  /\ Valid(r) /\ Keyed(r)
  /\ \E t \in Holders(r) :
       IF PayloadOf[t] = PayloadOf[r]
       THEN Reply(r, "202", t)
       ELSE Reply(r, "409", r)
  /\ UNCHANGED <<tasks, created, queue>>

(* It finds none, or the request has no key: a row is to be inserted.      *)
GoOnToInsert(r) ==
  /\ req[r].pc = "start"
  /\ Valid(r)
  /\ Keyed(r) => Holders(r) = {}
  /\ req' = [req EXCEPT ![r].pc = "insert"]
  /\ UNCHANGED <<tasks, created, queue>>

Conflict(r) == Keyed(r) /\ Holders(r) # {}

Store(r) ==
  /\ created' = created \union {r}
  /\ tasks' = [tasks EXCEPT ![r] = NewRow]

(* Mutants of Insert: no unique constraint on the key; the row is flushed  *)
(* but not committed.                                                      *)
InsertUnconstrained(r) ==
  /\ req[r].pc = "insert"
  /\ Store(r)
  /\ req' = [req EXCEPT ![r].pc = "send"]
  /\ UNCHANGED queue

InsertUncommitted(r) ==
  /\ req[r].pc = "insert"
  /\ ~Conflict(r)
  /\ req' = [req EXCEPT ![r].pc = "send"]
  /\ UNCHANGED <<tasks, created, queue>>

(* create_task commits.                                                    *)
Insert(r) ==
  /\ req[r].pc = "insert"
  /\ ~Conflict(r)
  /\ Store(r)
  /\ req' = [req EXCEPT ![r].pc = "send"]
  /\ UNCHANGED queue

(* Mutant of InsertConflict: the answer is a code the handler never gives. *)
InsertConflictUnavailable(r) ==
  /\ req[r].pc = "insert"
  /\ Conflict(r)
  /\ Reply(r, "503", r)
  /\ UNCHANGED <<tasks, created, queue>>

(* A concurrent request with the same key was first: IntegrityError.       *)
InsertConflict(r) ==
  /\ req[r].pc = "insert"
  /\ Conflict(r)
  /\ Reply(r, "500", r)
  /\ UNCHANGED <<tasks, created, queue>>

Publish(r) == queue' = [queue EXCEPT ![r] = @ + 1]

(* Mutant of Send: the branch for keyed requests forgets send_task.        *)
SendUnkeyedOnly(r) ==
  /\ req[r].pc = "send"
  /\ IF Keyed(r) THEN UNCHANGED queue ELSE Publish(r)
  /\ Reply(r, "202", r)
  /\ UNCHANGED <<tasks, created>>

(* Refresh of create_task, send_task, response.                            *)
Send(r) ==
  /\ req[r].pc = "send"
  /\ Publish(r)
  /\ Reply(r, "202", r)
  /\ UNCHANGED <<tasks, created>>

(* send_task raises; the broker may have taken the message all the same.   *)
SendRaises(r) ==
  /\ "redis" \in Faults
  /\ req[r].pc = "send"
  /\ Publish(r) \/ UNCHANGED queue
  /\ Reply(r, "500", r)
  /\ UNCHANGED <<tasks, created>>

(* A database call raises: the lookup, the commit, which may have been     *)
(* applied, or the refresh that precedes send_task.                        *)
DbRaises(r) ==
  /\ "db" \in Faults
  /\ \/ /\ req[r].pc = "start" /\ Valid(r) /\ Keyed(r)
        /\ UNCHANGED <<tasks, created>>
     \/ /\ req[r].pc = "insert"
        /\ \/ UNCHANGED <<tasks, created>>
           \/ ~Conflict(r) /\ Store(r)
     \/ /\ req[r].pc = "send"
        /\ UNCHANGED <<tasks, created>>
  /\ Reply(r, "500", r)
  /\ UNCHANGED queue

(* The API process dies with the request in hand; nobody is answered.      *)
ApiCrash(r) ==
  /\ "crash" \in Faults
  /\ req[r].pc # "done"
  /\ Reply(r, "none", r)
  /\ UNCHANGED <<tasks, created, queue>>

Handle(r) ==
  \/ Reject(r)
  \/ LookUp(r)
  \/ GoOnToInsert(r)
  \/ Insert(r)
  \/ InsertConflict(r)
  \/ Send(r)

HandlerFault(r) ==
  \/ SendRaises(r)
  \/ DbRaises(r)
  \/ ApiCrash(r)

Next == \E r \in TaskIds : Handle(r) \/ HandlerFault(r)

Spec == Init /\ [][Next]_vars
-----------------------------------------------------------------------------
Accepted(r) == req[r].reply = "202"

(* Requests that share a key and are accepted share the task and the       *)
(* payload, however their lookups and commits interleave: the key names    *)
(* one task (research.py:81-101, the unique column of models/task.py:43).  *)
KeyNamesOneTask ==
  \A r, s \in TaskIds :
    Accepted(r) /\ Accepted(s) /\ Keyed(r) /\ KeyOf[r] = KeyOf[s] =>
      /\ req[r].task = req[s].task
      /\ PayloadOf[r] = PayloadOf[s]

(* A request is refused with 409 only when its key belongs to a task with  *)
(* another payload (research.py:84-88).                                    *)
RefusalIsJustified ==
  \A r \in TaskIds :
    req[r].reply = "409" =>
      \E t \in created : KeyOf[t] = KeyOf[r] /\ PayloadOf[t] # PayloadOf[r]

(* The API publishes at most one message for a task, replays included.     *)
EnqueuedOnce == \A t \in TaskIds : queue[t] <= 1

(* A worker that receives a message finds the row: every message names a   *)
(* committed task, and every 202 does.                                     *)
MessagesHaveRows ==
  /\ \A t \in TaskIds : queue[t] > 0 => t \in created
  /\ \A r \in TaskIds : Accepted(r) => req[r].task \in created

Quiet == \A r \in TaskIds : req[r].pc = "done"

(* A committed row is left without a message only by a handler that has    *)
(* failed or died: both branches that create a task enqueue it, and a      *)
(* request that loses the race for its key leaves nothing behind.          *)
OrphansComeFromFailures ==
  Quiet =>
    \A t \in created : queue[t] = 0 => req[t].reply \in {"500", "none"}
=============================================================================
