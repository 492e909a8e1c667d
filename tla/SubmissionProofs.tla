-------------------------- MODULE SubmissionProofs ---------------------------
(***************************************************************************)
(* The safety properties of POST /research, for every set of requests,     *)
(* every assignment of keys and payloads to them and every set of faults.  *)
(*                                                                         *)
(* The inductive invariant adds to the properties that a key has one row,  *)
(* and where each handler stands with its own row and its own message.     *)
(***************************************************************************)
EXTENDS Submission, TLAPS

(* The unique column idempotency_key.                                      *)
KeysUnique ==
  \A s, t \in created : Keyed(s) /\ KeyOf[s] = KeyOf[t] => s = t

(* A handler, the row it may create and the message it may send.           *)
RequestOK(r) ==
  /\ req[r].pc \in {"start", "insert"} => r \notin created
  /\ req[r].pc = "send" => r \in created /\ queue[r] = 0
  /\ req[r].pc # "done" => req[r].reply = "none"
  /\ queue[r] > 0 => queue[r] = 1 /\ r \in created /\ req[r].pc = "done"
  /\ r \in created /\ queue[r] = 0 =>
       req[r].pc = "send" \/ req[r].reply \in {"500", "none"}

(* What a client has been told.                                            *)
AnswerOK(r) ==
  /\ Accepted(r) =>
       /\ req[r].task \in created
       /\ KeyOf[req[r].task] = KeyOf[r]
       /\ PayloadOf[req[r].task] = PayloadOf[r]
  /\ req[r].reply = "409" =>
       \E t \in created : KeyOf[t] = KeyOf[r] /\ PayloadOf[t] # PayloadOf[r]

IInv ==
  /\ TypeOK
  /\ KeysUnique
  /\ \A r \in TaskIds : RequestOK(r)
  /\ \A r \in TaskIds : AnswerOK(r)

(* The defaults of a new row are well typed.                               *)
LEMMA NewRowType == NewRow \in Rows
  BY DEF NewRow, Rows, Statuses, Stages

(* A handler disturbs nothing but its own row, message and answer.         *)
LEMMA HandlerStep ==
  ASSUME IInv, NEW r \in TaskIds, NEW new \in Handlers,
         req' = [req EXCEPT ![r] = new],
         \/ UNCHANGED <<tasks, created>>
         \/ Store(r) /\ ~Conflict(r) /\ r \notin created,
         UNCHANGED queue \/ Publish(r),
         RequestOK(r)', AnswerOK(r)'
  PROVE  IInv'
<1>1. /\ tasks \in [TaskIds -> Rows] /\ created \in SUBSET TaskIds
      /\ queue \in [TaskIds -> Nat] /\ req \in [TaskIds -> Handlers]
  BY DEF IInv, TypeOK
<1>2. /\ tasks' \in [TaskIds -> Rows] /\ created' \in SUBSET TaskIds
      /\ queue' \in [TaskIds -> Nat] /\ req' \in [TaskIds -> Handlers]
  BY <1>1, NewRowType DEF Store, Publish
<1>3. /\ created \subseteq created'
      /\ \A t \in TaskIds : t # r =>
           /\ t \in created' <=> t \in created
           /\ queue'[t] = queue[t]
           /\ req'[t] = req[t]
  BY <1>1 DEF Store, Publish
<1>4. KeysUnique'
  <2>1. CASE UNCHANGED <<tasks, created>>
    BY <2>1 DEF IInv, KeysUnique, Keyed
  <2>2. CASE Store(r) /\ ~Conflict(r)
    BY <1>1, <2>2 DEF IInv, KeysUnique, Keyed, Conflict, Holders, Store
  <2> QED
    BY <2>1, <2>2
<1>5. ASSUME NEW t \in TaskIds, t # r PROVE RequestOK(t)' /\ AnswerOK(t)'
  BY <1>3, <1>5 DEF IInv, RequestOK, AnswerOK, Accepted
<1> QED
  BY <1>2, <1>4, <1>5 DEF IInv, TypeOK

(* A handler that answers without having touched the tables or the broker. *)
LEMMA ReplyStep ==
  ASSUME IInv, NEW r \in TaskIds, NEW code \in Codes, NEW t \in TaskIds,
         Reply(r, code, t), UNCHANGED <<tasks, created, queue>>,
         \/ req[r].pc = "start" /\ code \in {"202", "409", "422"}
         \/ code \in {"500", "none"},
         code = "202" =>
           t \in created /\ KeyOf[t] = KeyOf[r] /\ PayloadOf[t] = PayloadOf[r],
         code = "409" =>
           \E s \in created : KeyOf[s] = KeyOf[r] /\ PayloadOf[s] # PayloadOf[r]
  PROVE  IInv'
<1> DEFINE new == [pc |-> "done", reply |-> code, task |-> t]
<1>1. new \in Handlers /\ new.pc = "done" /\ new.reply = code /\ new.task = t
  BY DEF Handlers
<1>2. req' = [req EXCEPT ![r] = new] /\ req'[r] = new
  BY DEF Reply, IInv, TypeOK
<1> HIDE DEF new
<1>3. RequestOK(r)'
  BY <1>1, <1>2 DEF IInv, RequestOK, TypeOK
<1>4. AnswerOK(r)'
  BY <1>1, <1>2 DEF AnswerOK, Accepted
<1> QED
  BY <1>1, <1>2, <1>3, <1>4, HandlerStep

(* The lookup found nothing: nothing is stored yet.                        *)
LEMMA GoOnToInsertStep ==
  ASSUME IInv, NEW r \in TaskIds, GoOnToInsert(r)
  PROVE  IInv'
<1> DEFINE new == [req[r] EXCEPT !.pc = "insert"]
<1>1. req[r] \in Handlers /\ req[r].pc = "start" /\ req \in [TaskIds -> Handlers]
  BY DEF GoOnToInsert, IInv, TypeOK
<1>2. /\ new \in Handlers /\ new.pc = "insert" /\ new.reply = req[r].reply
      /\ req' = [req EXCEPT ![r] = new] /\ req'[r] = new
  BY <1>1 DEF Handlers, GoOnToInsert
<1> HIDE DEF new
<1>3. RequestOK(r)' /\ AnswerOK(r)'
  BY <1>1, <1>2 DEF IInv, RequestOK, AnswerOK, Accepted, GoOnToInsert
<1> QED
  BY <1>2, <1>3, HandlerStep DEF GoOnToInsert

(* The row is committed: the key was free, and is taken from now on.       *)
LEMMA InsertStep ==
  ASSUME IInv, NEW r \in TaskIds, Insert(r)
  PROVE  IInv'
<1> DEFINE new == [req[r] EXCEPT !.pc = "send"]
<1>1. /\ req[r] \in Handlers /\ req[r].pc = "insert"
      /\ req \in [TaskIds -> Handlers] /\ queue \in [TaskIds -> Nat]
  BY DEF Insert, IInv, TypeOK
<1>2. /\ new \in Handlers /\ new.pc = "send" /\ new.reply = req[r].reply
      /\ req' = [req EXCEPT ![r] = new] /\ req'[r] = new
  BY <1>1 DEF Handlers, Insert
<1> HIDE DEF new
<1>3. /\ r \notin created /\ queue[r] = 0 /\ req[r].reply = "none"
  BY <1>1 DEF IInv, RequestOK
<1>4. RequestOK(r)' /\ AnswerOK(r)'
  BY <1>1, <1>2, <1>3 DEF RequestOK, AnswerOK, Accepted, Insert, Store
<1> QED
  BY <1>2, <1>3, <1>4, HandlerStep DEF Insert

(* send_task, whether it raises or not: the row is there, no message was.  *)
LEMMA SendStep ==
  ASSUME IInv, NEW r \in TaskIds, req[r].pc = "send",
         NEW code \in {"202", "500"}, Reply(r, code, r),
         \/ Publish(r)
         \/ code = "500" /\ UNCHANGED queue,
         UNCHANGED <<tasks, created>>
  PROVE  IInv'
<1> DEFINE new == [pc |-> "done", reply |-> code, task |-> r]
<1>1. new \in Handlers /\ new.pc = "done" /\ new.reply = code /\ new.task = r
  BY DEF Handlers, Codes
<1>2. req' = [req EXCEPT ![r] = new] /\ req'[r] = new
  BY DEF Reply, IInv, TypeOK
<1> HIDE DEF new
<1>3. r \in created /\ queue[r] = 0 /\ queue \in [TaskIds -> Nat]
  BY DEF IInv, RequestOK, TypeOK
<1>4. RequestOK(r)'
  BY <1>1, <1>2, <1>3 DEF RequestOK, Publish
<1>5. AnswerOK(r)'
  BY <1>1, <1>2, <1>3 DEF AnswerOK, Accepted
<1> QED
  BY <1>1, <1>2, <1>4, <1>5, HandlerStep

(* The commit of the row raises although it has been applied.              *)
LEMMA LostInsertStep ==
  ASSUME IInv, NEW r \in TaskIds, req[r].pc = "insert", ~Conflict(r), Store(r),
         Reply(r, "500", r), UNCHANGED queue
  PROVE  IInv'
<1> DEFINE new == [pc |-> "done", reply |-> "500", task |-> r]
<1>1. new \in Handlers /\ new.pc = "done" /\ new.reply = "500"
  BY DEF Handlers, Codes
<1>2. req' = [req EXCEPT ![r] = new] /\ req'[r] = new
  BY DEF Reply, IInv, TypeOK
<1> HIDE DEF new
<1>3. r \notin created /\ queue[r] = 0 /\ queue \in [TaskIds -> Nat]
  BY DEF IInv, RequestOK, TypeOK
<1>4. RequestOK(r)' /\ AnswerOK(r)'
  BY <1>1, <1>2, <1>3 DEF RequestOK, AnswerOK, Accepted, Store
<1> QED
  BY <1>1, <1>2, <1>3, <1>4, HandlerStep

(* The initial state satisfies the inductive invariant.                    *)
LEMMA InitIInv == Init => IInv
<1> SUFFICES ASSUME Init PROVE IInv
  OBVIOUS
<1>1. \A r \in TaskIds : /\ req[r].pc = "start" /\ req[r].reply = "none"
                         /\ queue[r] = 0 /\ r \notin created
  BY DEF Init
<1>2. TypeOK
  BY NewRowType DEF Init, TypeOK, Handlers, Codes
<1>3. KeysUnique
  BY DEF Init, KeysUnique
<1> QED
  BY <1>1, <1>2, <1>3 DEF IInv, RequestOK, AnswerOK, Accepted

(* Every step keeps the inductive invariant.                               *)
LEMMA NextIInv == IInv /\ [Next]_vars => IInv'
<1> SUFFICES ASSUME IInv, [Next]_vars PROVE IInv'
  OBVIOUS
<1>1. CASE UNCHANGED vars
  BY <1>1 DEF vars, IInv, TypeOK, KeysUnique, Keyed, RequestOK, AnswerOK, Accepted
<1>2. ASSUME NEW r \in TaskIds, Handle(r) PROVE IInv'
  <2>1. CASE Reject(r)
    BY <2>1, ReplyStep DEF Reject, Codes
  <2>2. CASE LookUp(r)
    <3>1. PICK t \in created :
            /\ KeyOf[t] = KeyOf[r]
            /\ IF PayloadOf[t] = PayloadOf[r] THEN Reply(r, "202", t)
                                              ELSE Reply(r, "409", r)
      BY <2>2 DEF LookUp, Holders
    <3>2. t \in TaskIds /\ req[r].pc = "start" /\ UNCHANGED <<tasks, created, queue>>
      BY <2>2 DEF LookUp, IInv, TypeOK
    <3>3. CASE PayloadOf[t] = PayloadOf[r]
      BY <3>1, <3>2, <3>3, ReplyStep DEF Codes
    <3>4. CASE PayloadOf[t] # PayloadOf[r]
      BY <3>1, <3>2, <3>4, ReplyStep DEF Codes
    <3> QED
      BY <3>3, <3>4
  <2>3. CASE InsertConflict(r)
    BY <2>3, ReplyStep DEF InsertConflict, Codes
  <2>4. CASE Send(r)
    BY <2>4, SendStep DEF Send
  <2> QED
    BY <1>2, <2>1, <2>2, <2>3, <2>4, GoOnToInsertStep, InsertStep DEF Handle
<1>3. ASSUME NEW r \in TaskIds, HandlerFault(r) PROVE IInv'
  <2>1. CASE SendRaises(r)
    BY <2>1, SendStep DEF SendRaises
  <2>2. CASE DbRaises(r)
    <3>1. CASE UNCHANGED <<tasks, created>>
      BY <2>2, <3>1, ReplyStep DEF DbRaises, Codes
    <3>2. CASE req[r].pc = "insert" /\ ~Conflict(r) /\ Store(r)
      BY <2>2, <3>2, LostInsertStep DEF DbRaises
    <3> QED
      BY <2>2, <3>1, <3>2 DEF DbRaises
  <2>3. CASE ApiCrash(r)
    BY <2>3, ReplyStep DEF ApiCrash, Codes
  <2> QED
    BY <1>3, <2>1, <2>2, <2>3 DEF HandlerFault
<1> QED
  BY <1>1, <1>2, <1>3 DEF Next

(* IInv holds in every reachable state.                                    *)
THEOREM Invariant == Spec => []IInv
  BY InitIInv, NextIInv, PTL DEF Spec

(* Handlers, rows and messages are well typed.                             *)
THEOREM TypeCorrect == Spec => []TypeOK
<1>1. IInv => TypeOK
  BY DEF IInv
<1> QED
  BY <1>1, Invariant, PTL

(* An idempotency key names one task, however lookups and commits race.    *)
THEOREM KeysNameOneTask == Spec => []KeyNamesOneTask
<1>1. IInv => KeyNamesOneTask
  BY DEF IInv, AnswerOK, KeysUnique, Keyed, KeyNamesOneTask
<1> QED
  BY <1>1, Invariant, PTL

(* A 409 is only ever given for a key whose task has another payload.      *)
THEOREM RefusalsAreJustified == Spec => []RefusalIsJustified
<1>1. IInv => RefusalIsJustified
  BY DEF IInv, AnswerOK, RefusalIsJustified
<1> QED
  BY <1>1, Invariant, PTL

(* No interleaving of replays and faults sends a task twice.               *)
THEOREM TasksAreEnqueuedOnce == Spec => []EnqueuedOnce
<1>1. IInv => EnqueuedOnce
  BY DEF IInv, TypeOK, RequestOK, EnqueuedOnce
<1> QED
  BY <1>1, Invariant, PTL

(* Every message and every 202 names a committed row.                      *)
THEOREM MessagesNameRows == Spec => []MessagesHaveRows
<1>1. IInv => MessagesHaveRows
  BY DEF IInv, RequestOK, AnswerOK, MessagesHaveRows
<1> QED
  BY <1>1, Invariant, PTL

(* A row without a message is the work of a handler that failed or died.   *)
THEOREM OnlyFailuresOrphan == Spec => []OrphansComeFromFailures
<1>1. IInv => OrphansComeFromFailures
  BY DEF IInv, TypeOK, RequestOK, OrphansComeFromFailures, Quiet
<1> QED
  BY <1>1, Invariant, PTL
=============================================================================
