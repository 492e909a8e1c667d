--------------------------- MODULE SemanticScholar ---------------------------
(***************************************************************************)
(* The Semantic Scholar client of one worker process and the searches      *)
(* that SearchAgent.run gathers on it.  The client, its semaphore and its  *)
(* lock live as long as the process; every task runs in an event loop of   *)
(* its own, and searches in several passes.  The primitives of asyncio     *)
(* bind to a loop when a caller first has to wait, and raise when a caller *)
(* has to wait in another loop.  A step runs from one await to the next.   *)
(* Source: src/src/sources/semantic_scholar.py, src/src/agents/search.py.  *)
(***************************************************************************)
EXTENDS Integers, FiniteSets

CONSTANTS
  Searches,     \* the searches of one pass, a subtask each
  Slots,        \* the initial value of _semaphore
  MinInterval,  \* _min_interval
  Timeout,      \* SOURCE_TIMEOUT_SECONDS
  MaxAttempts,  \* stop_after_attempt
  Penalties,    \* the values of Retry-After
  MaxLoops      \* bound: tasks of the process

ASSUME SearchesAssumption == IsFiniteSet(Searches)
ASSUME SlotsAssumption == Slots \in Nat \ {0}
ASSUME TimesAssumption == /\ MinInterval \in Nat /\ Timeout \in Nat
                          /\ Penalties \subseteq Nat
ASSUME AttemptsAssumption == MaxAttempts \in Nat \ {0}
ASSUME BoundsAssumption == MaxLoops \in Nat \ {0}

VARIABLES
  loop,         \* the event loop of the current task
  elapsed,      \* the time since the searches began
  lastRequest,  \* _last_request, on the same clock
  semLoop,      \* the loop _semaphore is bound to, 0 for none
  lockLoop,     \* the loop _rate_lock is bound to, 0 for none
  free,         \* the value of _semaphore
  locked,       \* whether _rate_lock is held
  pc,           \* where each search is
  wake,         \* when a sleeping search wakes up
  asked,        \* how many requests each search has sent
  outcome,      \* what the last one of them came to
  result        \* what the search came to

vars == <<loop, elapsed, lastRequest, semLoop, lockLoop, free, locked,
          pc, wake, asked, outcome, result>>

Places == {"ready", "slot", "lock", "pause", "request", "penalty", "backoff", "done"}

(* Inside "async with self._semaphore".                                    *)
Holding(s) == pc[s] \in {"lock", "pause", "request", "penalty"}
Holders == {s \in Searches : Holding(s)}

TypeOK ==
  /\ loop \in 1..MaxLoops
  /\ elapsed \in 0..Timeout /\ lastRequest \in (-MinInterval)..Timeout
  /\ semLoop \in 0..loop /\ lockLoop \in 0..loop
  /\ free \in 0..Slots
  /\ locked \in BOOLEAN
  /\ pc \in [Searches -> Places]
  /\ wake \in [Searches -> Nat]
  /\ asked \in [Searches -> 0..MaxAttempts]
  /\ outcome \in [Searches -> {"none", "answer", "failed", "fatal"}]
  /\ result \in [Searches -> {"pending", "papers", "empty", "timeout"}]

StartSearches ==
  /\ elapsed' = 0
  /\ pc' = [s \in Searches |-> "ready"]
  /\ wake' = [s \in Searches |-> 0]
  /\ asked' = [s \in Searches |-> 0]
  /\ outcome' = [s \in Searches |-> "none"]
  /\ result' = [s \in Searches |-> "pending"]

Init ==
  /\ loop = 1
  /\ elapsed = 0 /\ lastRequest = -MinInterval
  /\ semLoop = 0 /\ lockLoop = 0
  /\ free = Slots /\ locked = FALSE
  /\ pc = [s \in Searches |-> "ready"]
  /\ wake = [s \in Searches |-> 0]
  /\ asked = [s \in Searches |-> 0]
  /\ outcome = [s \in Searches |-> "none"]
  /\ result = [s \in Searches |-> "pending"]

clock == <<loop, elapsed>>

Waiting(place) == \E s \in Searches : pc[s] = place

(* search returns, with papers or with an empty list.                      *)
Finish(s, r) ==
  /\ pc' = [pc EXCEPT ![s] = "done"]
  /\ wake' = [wake EXCEPT ![s] = 0]
  /\ result' = [result EXCEPT ![s] = r]

Sleep(s, place, until) ==
  /\ pc' = [pc EXCEPT ![s] = place]
  /\ wake' = [wake EXCEPT ![s] = until]
  /\ UNCHANGED result

Wait(s, place) == Sleep(s, place, 0)

(* _rate_limit leaves the lock, and the request goes out in the same step. *)
Send(s) ==
  /\ locked' = FALSE
  /\ lastRequest' = elapsed
  /\ asked' = [asked EXCEPT ![s] = @ + 1]
  /\ Wait(s, "request")

(* Mutant of TakeLock: the lock does not cover the sleep.                  *)
TakeLockBriefly(s) ==
  /\ ~locked
  /\ \/ /\ elapsed - lastRequest >= MinInterval
        /\ Send(s)
     \/ /\ elapsed - lastRequest < MinInterval
        /\ Sleep(s, "pause", lastRequest + MinInterval)
        /\ UNCHANGED <<locked, lastRequest, asked>>

TakeLock(s) ==
  /\ ~locked
  /\ \/ /\ elapsed - lastRequest >= MinInterval
        /\ Send(s)
     \/ /\ elapsed - lastRequest < MinInterval
        /\ locked' = TRUE
        /\ Sleep(s, "pause", lastRequest + MinInterval)
        /\ UNCHANGED <<lastRequest, asked>>

(* A search that has just got a slot comes to the lock.  It has to wait    *)
(* behind its holder and those that wait already; the lock of another loop *)
(* raises, search catches that and the slot is given back.                 *)
ComeToLock(s) ==
  \/ /\ ~Waiting("lock")
     /\ TakeLock(s)
     /\ free' = free - 1
     /\ UNCHANGED lockLoop
  \/ /\ locked \/ Waiting("lock")
     /\ \/ /\ lockLoop \in {0, loop}
           /\ lockLoop' = loop
           /\ free' = free - 1
           /\ Wait(s, "lock")
        \/ /\ lockLoop \notin {0, loop}
           /\ Finish(s, "empty")
           /\ UNCHANGED <<lockLoop, free>>
     /\ UNCHANGED <<locked, lastRequest, asked>>

(* An attempt of the retry loop begins.                                    *)
Attempt(s) ==
  /\ pc[s] = "ready" \/ (pc[s] = "backoff" /\ elapsed >= wake[s])
  /\ \/ /\ free > 0 /\ ~Waiting("slot")
        /\ ComeToLock(s)
        /\ UNCHANGED semLoop
     \/ /\ free = 0 \/ Waiting("slot")
        /\ \/ /\ semLoop \in {0, loop}
              /\ semLoop' = loop
              /\ Wait(s, "slot")
           \/ /\ semLoop \notin {0, loop}
              /\ Finish(s, "empty")
              /\ UNCHANGED semLoop
        /\ UNCHANGED <<lockLoop, free, locked, lastRequest, asked>>
  /\ UNCHANGED <<clock, outcome>>

(* A slot has become free, and so has the lock.                            *)
GetSlot(s) ==
  /\ pc[s] = "slot" /\ free > 0
  /\ ComeToLock(s)
  /\ UNCHANGED <<clock, semLoop, outcome>>

GetLock(s) ==
  /\ pc[s] = "lock"
  /\ TakeLock(s)
  /\ UNCHANGED <<clock, semLoop, lockLoop, free, outcome>>

PauseOver(s) ==
  /\ pc[s] = "pause" /\ elapsed >= wake[s]
  /\ Send(s)
  /\ UNCHANGED <<clock, semLoop, lockLoop, free, outcome>>

(* wait_exponential(multiplier=1, min=2, max=30)                           *)
Backoff(k) ==
  LET d == 2^(k - 1) IN IF d < 2 THEN 2 ELSE IF d > 30 THEN 30 ELSE d

(* Mutant of FailAttempt: one attempt too many.                            *)
FailAttemptOnceMore(s) ==
  \/ asked[s] <= MaxAttempts /\ Sleep(s, "backoff", elapsed + Backoff(asked[s]))
  \/ asked[s] > MaxAttempts /\ Finish(s, "empty")

(* An httpx error leaves the attempt.                                      *)
FailAttempt(s) ==
  \/ asked[s] < MaxAttempts /\ Sleep(s, "backoff", elapsed + Backoff(asked[s]))
  \/ asked[s] >= MaxAttempts /\ Finish(s, "empty")

(* The response, or its absence.  A status other than 2xx and 429, and any *)
(* error of the transport, is retried; what is not an httpx error ends the *)
(* search, as does a Retry-After that is not a number.  After a 429 the    *)
(* search sleeps in its slot.                                              *)
Respond(s, o) ==
  /\ pc[s] = "request"
  /\ outcome' = [outcome EXCEPT ![s] = IF o = "limited" THEN "failed" ELSE o]
  /\ \/ o = "answer" /\ free' = free + 1 /\ Finish(s, "papers")
     \/ o = "fatal" /\ free' = free + 1 /\ Finish(s, "empty")
     \/ o = "failed" /\ free' = free + 1 /\ FailAttempt(s)
     \/ /\ o = "limited"
        /\ \E p \in Penalties : Sleep(s, "penalty", elapsed + p)
        /\ UNCHANGED free
  /\ UNCHANGED <<clock, semLoop, lockLoop, locked, lastRequest, asked>>

PenaltyOver(s) ==
  /\ pc[s] = "penalty" /\ elapsed >= wake[s]
  /\ free' = free + 1
  /\ FailAttempt(s)
  /\ UNCHANGED <<clock, semLoop, lockLoop, locked, lastRequest, asked, outcome>>

(* Mutant of Cancel: the slot is lost with the search.                     *)
CancelInSlot(s) ==
  /\ elapsed = Timeout /\ pc[s] # "done"
  /\ locked' = (locked /\ pc[s] # "pause")
  /\ Finish(s, "timeout")
  /\ UNCHANGED <<clock, semLoop, lockLoop, free, lastRequest, asked, outcome>>

(* wait_for cancels the search wherever it is; the context managers give   *)
(* back what it holds.                                                     *)
Cancel(s) ==
  /\ elapsed = Timeout /\ pc[s] # "done"
  /\ locked' = (locked /\ pc[s] # "pause")
  /\ free' = IF Holding(s) THEN free + 1 ELSE free
  /\ Finish(s, "timeout")
  /\ UNCHANGED <<clock, semLoop, lockLoop, lastRequest, asked, outcome>>

Tick ==
  /\ elapsed < Timeout /\ \E s \in Searches : pc[s] # "done"
  /\ elapsed' = elapsed + 1
  /\ UNCHANGED <<loop, lastRequest, semLoop, lockLoop, free, locked, pc,
                 wake, asked, outcome, result>>

(* gather returns when all searches have; another pass begins some time    *)
(* later, in the same task or in a new one.                                *)
NextPass ==
  /\ \A s \in Searches : pc[s] = "done"
  /\ loop' \in {loop, loop + 1} \intersect 1..MaxLoops
  /\ \E gap \in 0..MinInterval :
       lastRequest' = IF lastRequest - elapsed - gap < -MinInterval
                        THEN -MinInterval ELSE lastRequest - elapsed - gap
  /\ StartSearches
  /\ UNCHANGED <<semLoop, lockLoop, free, locked>>

Step(s) ==
  \/ Attempt(s) \/ GetSlot(s) \/ GetLock(s) \/ PauseOver(s) \/ PenaltyOver(s)
  \/ Cancel(s)
  \/ \E o \in {"answer", "failed", "limited", "fatal"} : Respond(s, o)

Next == Tick \/ NextPass \/ \E s \in Searches : Step(s)

Spec == Init /\ [][Next]_vars
-----------------------------------------------------------------------------
(* No slot and no lock is ever lost or given back twice, wherever the      *)
(* timeout catches a search: the semaphore counts the searches inside it,  *)
(* and the lock is held by the one search that sleeps in it.               *)
SlotsAccounted ==
  /\ free = Slots - Cardinality(Holders)
  /\ locked = (\E s \in Searches : pc[s] = "pause")
  /\ \A s, t \in Searches : pc[s] = "pause" /\ pc[t] = "pause" => s = t

(* Every request goes out at least the minimal interval after the one      *)
(* before it, across searches, passes, tasks and cancelled sleeps.         *)
RequestsSpaced ==
  [][\A s \in Searches :
       asked'[s] > asked[s] =>
         elapsed - lastRequest >= MinInterval /\ lastRequest' = elapsed]_vars

(* A search comes back empty only when the service refused it for good or  *)
(* failed it as often as the retries allow.                                *)
EmptyForCause(s) ==
  result[s] = "empty" =>
    \/ outcome[s] = "fatal"
    \/ outcome[s] = "failed" /\ asked[s] = MaxAttempts

(* In the first task of a process the searches end empty for cause.        *)
FirstTaskGivesUpForCause == loop = 1 => \A s \in Searches : EmptyForCause(s)

(* docs/architecture.md:220: the search agent "Calls all registered        *)
(* sources concurrently via asyncio.gather".  A search that comes back     *)
(* empty has called the source.                                            *)
SourcesAreCalled == \A s \in Searches : result[s] = "empty" => asked[s] > 0
=============================================================================
