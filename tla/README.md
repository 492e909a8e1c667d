# Leonardo: specification and verification

Leonardo accepts research questions over HTTP, queues them with Celery, lets a
worker drive a LangGraph workflow of four LLM agents over them, and serves the
report. This directory holds TLA+ modules translated from `src/src/`, the TLC
configurations that check them on small instances, and theorems that TLAPS
proves for every value of the constants.

Paths below are relative to `src/src/` unless they begin with `docs/`.

## 1. Inventory

| Component | State | Operations | Interacts with |
|---|---|---|---|
| Task rows (`models/task.py`, `crud/tasks.py`) | one row per task: request, status, stage, error, progress counters | `create_task`, `get_task`, `get_task_by_idempotency_key`, `update_task` | everyone, by shared state |
| Report rows (`models/report.py`, `crud/reports.py`) | at most one row per task | `upsert_report`, `get_report` | workers write, API reads |
| Submission (`api/routers/research.py`) | one handler per request | `POST /research` | database, then broker |
| Broker and Celery (`tasks/celery_app.py`) | one message per enqueued task | send, receive, acknowledge, redeliver | API and workers |
| Task execution (`tasks/research_task.py`) | one session with its copy of the row, state of the workflow | load, mark running, run nodes, persist progress, publish progress, persist final state, save report, mark failed | database, result backend, graph |
| Research graph (`graph/`) | `ResearchState` | planner, search, analysis, report; routing | agents |
| Agents (`agents/`) | none of their own | one `run` each | LLM client, sources, paper rows |
| Paper rows (`models/paper.py`, `crud/papers.py`) | rows without a unique constraint | `get_paper_by_identity`, `create_paper` | search agents of all workers, internal endpoint |
| Status and report queries (`api/routers/research.py`) | one handler per poll | `GET /research/{id}`, `/status`, `/report` | task row, then report row |
| LLM client (`llm/`) | the attempts of one call | retry with backoff and timeout | agents |
| Semantic Scholar (`sources/semantic_scholar.py`) | semaphore, lock and last request of the process | search, rate limit, retry | search agent, which cancels it |
| arXiv (`sources/arxiv.py`) | a thread per search | search | search agent |
| Rate limiter (`api/middleware/rate_limit.py`) | window of timestamps per client | admit or refuse | every request |
| Internal routers (`api/routers/{tasks,papers,reports}.py`) | none | unchecked writes of operators | task, paper, report rows |

What is hard here, and a unit test hardly reaches:

* **Two sessions, one row.** `update_task` sets attributes on the object its
  session loaded and SQLAlchemy sends only those that differ from that copy.
  Two executions of one task, or an execution and an operator, overwrite each
  other column by column.
* **Several commits per outcome.** A task is committed as completed before its
  report is committed; a row is committed before its message is sent; papers
  are committed one by one.
* **Failures of the error path.** `mark_task_failed` uses the session that has
  just failed; a refresh may fail although the commit before it has not;
  `build_graph` runs between the first commit and the `try`.
* **Delivery.** A message is acknowledged before it is executed, so a crash
  loses it; the Redis transport restores prefetched messages after a visibility
  timeout, so it may also be executed twice.
* **Check, then act.** Idempotency keys, papers and reports are looked up in one
  statement and inserted in another.
* **Cancellation.** A timeout cancels a search wherever it is: in a queue for
  the semaphore or the lock, asleep inside either, or in a request.
* **One client, many event loops.** Every task runs under an `asyncio.run` of its
  own (`research_task.py:204`); locks and pools live as long as the process.
* **The loop of the graph**, bounded by iterations, by thresholds on what a
  pass has found, and by LangGraph's recursion limit.

What makes each component correct: a task follows its lifecycle and ends with
an outcome whose columns and report agree; a key names one task; a message
names a committed row; the workflow is bounded and reports only what its last
pass found; an answer given to a client is not taken back; no paper that was
found is passed over and only races or kept blanks store one twice; no slot or lock is lost
and requests keep their distance; findings and sources match the papers they
come from; no window admits too many requests. `PROJECT.json` lists every
hazard at its line, with the properties that would catch it.

## 2. Modules and the code

| Module | Code | Content |
|---|---|---|
| `TaskModel` | `models/task.py`, `crud/tasks.py:48-58`, `research.py:31-45` | a row, the API's stage, the column-wise UPDATE (`Flush`) |
| `TaskLifecycle` | the contract of `docs/api.md` section 3.2 | abstract specification: the phases of a task and their successors |
| `Routing` | `graph/builder.py`, `graph/edges.py` | the edges of the workflow and `RouteAfterAnalysis` |
| `ResearchGraph` | `graph/`, the `run` methods of `agents/` | one run of the workflow with its data |
| `TaskExecution` | `tasks/research_task.py`, `crud/` | any number of workers over the tables and the queue |
| `Operators` | `api/routers/{tasks,reports}.py` | PATCH of a task and PUT of a report next to the executions; extends `TaskExecution` |
| `Submission` | `research.py:61-122`, `crud/tasks.py:15-33` | `POST /research` |
| `Queries` | `research.py:125-210` | the three GETs of a task |
| `Leonardo` | the whole | `Submission`, `TaskExecution` and `Queries` over one database and one broker |
| `PaperStore` | `agents/search.py`, `crud/papers.py`, `api/routers/papers.py` | collection, deduplication and storage of papers by concurrent executions and operators |
| `Analysis` | `agents/analysis.py`, `agents/report.py`, `llm/base.py` | batches of concurrent, retried calls; findings; sources and citations |
| `SemanticScholar` | `sources/semantic_scholar.py`, `agents/search.py:57-65` | the client of one process under the searches of successive tasks |
| `RateLimiter` | `api/middleware/rate_limit.py` | the sliding window of each client |
| `*Proofs` | | theorems about the module they are named after |
| `MC*` | | instances for TLC |

**How a function becomes actions.** A step is the code between two awaits at which
other coroutines or processes may interleave: calls of the database, the broker,
an agent, a source or the model, sleeps, and the acquisition of a lock.
`update_task` takes two steps, its commit and its refresh, and the
refresh is joined with the code that follows it up to the next such await. One
variable `pc` for each execution, handler, search or call names the place where
it waits. So `persist_final_state` is `PersistFinal` (commit), `LookUpReport`
(refresh and `db.get`), `SaveReport` or `SaveReportConflict` (the commit of
`upsert_report`), and `RefreshReport`.

**TaskExecution.** `ex[w]` is the execution worker `w` is busy with: `cached` is
its session's object, `seen` what `upsert_report` looked up, `poisoned` whether
the session has had a failed flush or commit and was not rolled back. Faults are
switched on by the constant `Faults`: a crash at any point (`crash`), a database call
that raises (`db`; its commit applied or not), a refresh that gets no connection
(`refresh`), `build_graph` raising (`build`), an agent or the recursion limit raising
(`node`), and `update_state` raising (`redis`). `CommitLost` is the set of outcomes of a
commit that raises.

Database errors inside the `try` come in two kinds. A commit or a statement that fails
leaves the session in need of a rollback (`DbRaisesInsideTry`), and the `except` clause
cannot write. The commit of `update_task` and of `upsert_report` gives the connection
back, and the refresh that follows has to get one again: if it cannot, there is
nothing to roll back, and `mark_task_failed` works (`RefreshRaises`). It reads the row anew where
the refresh of that row failed (`Reload`), and not after the refresh of a report. After the
commit of the completion, this turns a completed task into a failed one. `Revocable` is
the condition that such a fault is among those considered; `ReportBacked`,
`OutcomesStand`, `AnswersNeverRevert` and `TaskLifecycle` allow this one step under it and nothing else.

**Operators.** A PATCH reads the row (`ReadTask`) and later sends the columns
its payload names where they differ from what it has read (`UpdateTask`, the same
`Flush`); a PUT looks the report up and later commits it.

**ResearchGraph.** A paper is an identity and a finding is the identity of its
paper. A search returns any set of papers and analysis keeps any subset, so every
answer of the LLM and of the sources is covered. `limit` is LangGraph's recursion
limit, one of `RecursionLimits`. LangGraph compares it with the number of the step before it
looks whether any node is left, and `__start__` has step 0: a run of n nodes needs a
limit of n + 1, and one of exactly n raises after its last node.

**Submission.** The task a request would create bears the request's identity. A
repeated request is another request with the same key. `Holders` is the unique
column `idempotency_key`.

**Leonardo** instantiates the three components and interleaves them; each keeps
the other components' own variables unchanged and all of them share `tasks`,
`created`, `reports` and `queue`. One client polls each task: `answer` is what
it was last told about the report, `shown` the status it was last shown. `struck` is
history: the tasks hit by a fault that leaves their rows as they are (a process that died, a
database call or `build_graph` that raised).

**PaperStore.** Titles and ids stand for stripped, lower-case ones; `padded` is the
columns whose value the source gave with blanks around it. They are stored like
that, and the look-up, which strips the paper's columns and not the row's, misses
such a row by that column (`crud/papers.py:31-35`). `PaperCreate` accepts a title of
nothing but blanks (`Valid`). A PATCH sets any columns (`Edited`), also to values that
`PaperCreate` would refuse. A row remembers who wrote it, when, and when it had
been looked up; `gone` keeps what was edited or deleted.

**Analysis.** Call 0 is the report's, the others belong to their papers. A call is
asked, sleeps for `Delay(attempt, limit)` after a failure, and is answered or given
up; `EndBatch` is the return of `gather`.

**SemanticScholar.** `elapsed` is the time since the searches of the current pass
began. The deadline of `wait_for` is the same for all, as `gather` starts them
together. `loop` is the event loop of the task, `semLoop` and `lockLoop` those that
the semaphore and the lock are bound to: asyncio binds them when a caller first has
to wait, and raises when one has to wait in another loop. Which waiter a freed
slot wakes is left open.

**RateLimiter.** `bucket[c]` is the deque. `admitted[c]` and `refused[c]` are
history and decide nothing. The clock does not run backwards; a restart of the
process forgets all windows and is not modelled.

Abstractions that a reader should know of:

* Of a task row, the request columns (constant), the timestamps and the progress
  counters other than `iterations_used` are left out. An error is set or not; an
  exception whose text is empty is not told apart.
* A DOI or arXiv id of nothing but blanks is not modelled in `PaperStore`; in `Analysis`
  an id may be empty, which a citation takes for none and the key of a source does not.
* In `TaskExecution` the coverage of a pass is chosen when the route is taken.
  No pass keeps the data of the one before, so this loses nothing; the
  recursion limit is left to `ResearchGraph`, where it is an error of astream
  like any other (here: `NodeRaises`).
* `get_task` returning `None` in a worker is left out. `OnlyCommittedTasksRun`
  shows that it cannot happen while no operator deletes rows.
* `send_task` retried by the Celery client may duplicate a message; the effect
  is that of `Redeliver`.
* Every task has the same bound on iterations.
* The last `update_state(FAILURE)` may raise after `mark_task_failed`. The
  execution ends there either way.
* A PATCH of a paper is one step: only operators touch a row once it is written.

An operator whose comment begins "Mutant of" is a plausible mistake in the definition
below it. No specification uses it; with it in that definition's place, the property
`PROJECT.json` names for it is violated.

External code, modelled from how it is used: SQLAlchemy (identity map, UPDATE of
net changes, a session that needs a rollback after a failed flush), Celery's
early acknowledgement, the Redis transport's visibility timeout, LangGraph's
recursion limit, the primitives of asyncio, tenacity's retry loop, httpx.

## 3. Runs

| Run | Bounds | Shows |
|---|---|---|
| `MCResearchGraph` | 3 papers, 3 iterations, threshold 2, limits 6, 8 and 9 | justification and currency of the report, no run is cut off that has room, termination |
| `MCTaskExecution` | 2 tasks, 2 workers, 3 iterations, every fault | columns agree, reports belong to tasks that were completed, outcomes stand but for a failed refresh, progress is monotone, the task lifecycle is implemented |
| `MCTaskExecutionRevoked` | 1 task, 1 worker, every fault | violation: a completed task becomes failed (section 5) |
| `MCTaskExecutionRedelivered` | 1 task, 2 workers, 1 redelivery, agent and result backend faults | a task at rest is settled; every task settles |
| `MCSubmission` | 5 requests (3 with one key, one of these with another payload; 1 without; 1 invalid), every fault | the key names one task, refusals are justified, nothing is enqueued twice, orphans come from failures only |
| `MCLeonardo` | 2 requests with one key, 1 worker, 2 iterations, every fault of every part, both clients ask for status and report | end-to-end lifecycle, only committed tasks run, answers to clients do not revert, every request concludes that no unhandled fault has struck |
| `MCOperators` | 1 task, 1 worker, 1 PATCH, 1 PUT, every fault | an execution records its outcome past a PATCH and a PUT |
| `MCPaperStore` | 2 executions, 3 answers of the sources, 2 requests of operators, 2 payloads of PATCH | nothing valid is passed over, twins come from races or kept blanks, the search's own deduplication is exact |
| `MCAnalysis` | 3 papers, batches of 2, 3 attempts, 3 references | findings in order, delays add up, the sources are the findings' references, the run ends |
| `MCSemanticScholar` | 3 searches, 2 slots, 2 attempts, deadline 5, 2 tasks | slots and lock are never lost, requests keep their distance, empty results have a cause in the first task |
| `MCRateLimiter` | 2 clients, limit 2, window 2, 6 instants | no window holds more than the limit, every refusal is justified |
| `MCSemanticScholarSecondTask` | as `MCSemanticScholar` | violation: a search comes back empty without a request (section 5) |

Why the bounds are enough. Three iterations are the default of
`ResearchTaskCreate.max_iterations` and let the loop be entered, repeated and
exhausted; threshold 2 among 3 papers separates none, some and enough. Executions
of different tasks share nothing but workers, so two tasks suffice; two workers
give every overlap of two executions of one task. Three requests with a key give
a winner, a loser of the race and a conflicting payload; the others cover the
remaining branches of the handler. In `MCLeonardo` the two requests race for one
key, so that one task is admitted and one worker is enough. A run of three iterations has
`2 * 3 + 2 = 8` nodes: limit 6 cuts it off under way, limit 8 after its last node, limit 9
is just enough. Batches of 2 over 3 papers give a full
and a short batch, and two calls that overtake each other. Two slots for three
searches make one wait for the semaphore and two for the lock; deadline 5 falls
into every place a search can be in, penalty 2 into the backoff. The papers of
`MCPaperStore` share a title, a DOI or an arXiv id pairwise, one has blanks around
its title, one around its DOI, one no title and one no URL; a PATCH takes the title away
or sets DOI and arXiv id. In the rate limiter the window falls
between, on and beyond the timestamps. The code's defaults (batch 5, five slots,
60 requests in 60 s) differ in size only.

Real bounds, beyond which a property fails:

* `MaxRedeliveries`: with two redeliveries, three executions overlap and
  `RestingTasksAreSettled` fails (section 5). With none,
  `OutcomesStand`, `ProgressNeverReverts`, `ImplementsLifecycle` and
  `AnswersNeverRevert` hold under every fault; with one they do not, so the
  theorems about them assume none.
* `MaxPatches`: one PATCH cannot hide an outcome, because the session reads the
  row anew before it writes. Two PATCHes can: the first changes the copy, the second
  the row.

`CHECK_DEADLOCK FALSE` is set where executions, requests or runs come to an end
and nothing is left to do. `MCLeonardo`, `MCSemanticScholar*` and `MCRateLimiter`
keep the deadlock check: clients poll and searches go on for ever, and the rate
limiter always admits or refuses.

## 4. Fairness

* `ResearchGraph`: weak fairness of the next step. The worker's event loop drives
  `astream`, and every agent call is bounded by `LLM_TIMEOUT_SECONDS` or by the
  `wait_for` with which the search agent bounds each source.
* `TaskExecution`: weak fairness of each busy worker's own steps, faults excluded
  (they may happen, and never must), and of the reception of each waiting
  message. Messages are finite in number, so weak fairness is enough for
  reception: a worker stays idle in the end.
* `Leonardo`: the same, plus each handler and each polling client.
* `Analysis`: each call's step (`wait_for` ends an attempt that is not answered),
  each sleep, and the end of a batch. An answer never comes of itself: a call may
  fail until it is given up.

No fairness is assumed of faults or redelivery. `EveryTaskSettles` is checked without
crashes, database and build failures because the code does not promise it with
them (next section). `EveryRequestConcludes` is checked with every fault, and leaves
out the tasks that such a fault has struck: nothing else keeps a client waiting.

## 5. Where the code and its documentation part

Two runs exhibit a violation.

`MCTaskExecutionRevoked`: `docs/api.md:63` calls `completed` and `failed` terminal. When no
connection can be had for the refresh after the commit of the completion
(`crud/tasks.py:57`) or of the report (`crud/reports.py:25`), the `except` clause finds a
session that works and fails the completed task (`research_task.py:191`). A client
that has seen the task completed, or even its report, is then told of a failure.
`OutcomesStand` and `OutcomesAreFinal` say that this is the only way.

`MCSemanticScholarSecondTask`: the client of
Semantic Scholar creates its lock once for the process. As soon as a search has had to
wait for it, it is bound to the event loop of that task. In a later task of
the same process a search that has to wait gets a `RuntimeError`, which `search`
catches; it returns no papers and has sent no request
(`sources/semantic_scholar.py:34`). `FirstTaskGivesUpForCause` shows that this cannot
happen in the first task.

The models show these as well; they have no run of their own.

* A redelivered message sets a completed task back to running: `mark_task_running`
  does not look at the status (`docs/api.md:63`: terminal).
* Three executions of a task may leave it failed with no error: the last writes
  `status` only, past a stale copy of `error` (`docs/api.md:52`).
* A duplicate execution that loaded the row while it was pending writes
  `status = running` past the stage `done` of the first, and the API shows a
  running task as queued (`docs/api.md:64` excludes that).
* After a failed commit or statement inside the `try`, the `except` clause writes through the same
  session, raises, and leaves the task running (`docs/implementation_plan.md:154-156`).
* An exception of `build_graph` (`research_task.py:164`) escapes before the `try`
  and leaves the task running.
* A crashed worker's task stays running: the message is gone and the graph
  has no checkpointer, although `docs/architecture.md:537` says the next worker
  resumes it.
* When `send_task` raises, the row is committed already: the client gets a 500, not
  the 503 of `docs/architecture.md:538`, and its retry a 202 for a task nobody will
  execute.
* Between the two commits of an outcome the report of a completed task is "not
  found" (`docs/api.md:181`), and it stays so after a crash there, although
  `docs/api.md:51` calls a completed task "report finalized and persisted".
* A second search replaces the papers (`search.py:79`); `docs/architecture.md:189` says it
  appends.
* The setting `MAX_SEARCH_ITERATIONS` (default 2) is never reached: the state always
  carries `tasks.max_iterations`, whose default is 3 (`graph/edges.py:16`).
* The search tells papers apart by the triple of DOI, arXiv id and title, not by
  "(doi or arxiv_id, title_hash)" (`docs/architecture.md:220`): one paper from two
  sources stays twice in the state. The table holds "deduplicated" records
  (`docs/architecture.md:383`) as long as no two executions race.
* `docs/api.md:262-264` asks that the source of every finding be among the sources, that
  these be distinct by `doi || arxiv_id || normalized_url`, and that citations be mappable to
  them. The code tells sources apart by title, DOI and arXiv id: of
  findings with one title, no ids and different URLs all but one cite a URL that is not
  among the sources, and one DOI under two titles is listed twice. `ReportIsBacked`
  claims no more than the code's key gives.
* A paper stored with blanks around its title, DOI or arXiv id is not found by them
  (`crud/papers.py:31-35`), so that the table may hold it twice without a race
  (`docs/architecture.md:383`).
* `docs/architecture.md:534` grants LLM calls up to 3 retries; `LLM_MAX_RETRIES` is the number of
  attempts (`llm/base.py:63`). Their timeout defaults to 45 s (`docs/architecture.md:535`: 30 s).
  A search of Semantic Scholar makes four attempts, 2, 2 and 4 s apart
  (`sources/semantic_scholar.py:61-62`).

## 6. Proofs

All theorems hold for every value of the constants that satisfies the named
assumptions of the modules: natural numbers for bounds and times (positive ones
where the code divides the work by them), finite sets where something is counted,
`NoTask` no task, "operator" no execution, faults among the known kinds, answers of
the sources that are sequences of papers, PATCH payloads that pass the validation of
`ResearchTaskUpdate`. No
assumption is made on the number of tasks, workers, papers, searches or clients.
Whatever a theorem assumes beyond that it states itself.

**`ResearchGraphProofs`.** Each safety invariant of `ResearchGraph`: type
correctness, `IterationBound`, `ReportJustified`, `FindingsAreCurrent`,
`EndHasReport`, `NeverCutOff`. Most of them are
not inductive alone. `IInv` is their conjunction with two facts: how many searches
have been made at each node (`IterationsAtNode`: when search is next, an iteration
is left), and how many supersteps have been taken in terms of them (`StepsAtNode`).
`NeverCutOff` follows because the last node runs in superstep
`2 * iteration + 2`, `iteration <= MaxIterations`, and the limit is greater than that.

**`SubmissionProofs`.** Each safety property of `Submission`, for every set of
requests and every assignment of keys and payloads. `IInv` adds that a key has one
row (`KeysUnique`), where a handler stands with its own row and message
(`RequestOK`: before the insert there is no row, between insert and send a row
and no message), and what a client has been told (`AnswerOK`). Keys are unique
because the insert is refused when one is taken; the lookup before it only decides
between 202, 409 and 500.

**`TaskExecutionProofs`** has four parts. The first: `TypeOK` is inductive, so
`TypeCorrect` holds with any
faults and any number of redeliveries. Two lemmas say what a step leaves alone: a
task at rest (`RestingStep`) and every stored report (`ReportsStay`).

The second, under the further assumption `MaxRedeliveries = 0`,
which is where the code keeps these properties: `StageMatchesStatus`,
`ReportBacked`, `IterationsBounded`, `OutcomesStand`, `ProgressNeverReverts`, and
that `TaskExecution` implements `TaskLifecycle`, for every number of tasks and
workers and every set of faults; and `TerminalIsFinal` (`OutcomesAreFinal`) under the
hypothesis it needs, that no refresh fails after its commit. The argument:

1. `Exclusive`: one worker at most has a task in hand, and then no message for
   it waits. So nobody else writes its row.
2. Therefore the session's copy is the row itself, as long as the session is usable
   (`InStep`), and the column-wise UPDATE stores exactly what is wanted
   (`FlushCurrent`, `UpdateOutcome`).
3. `InStep` also says, for each point, which stage the row may be in: before a node
   runs, one that the lifecycle lets precede it (`StageBefore`); after
   `persist_progress`, its own. The iterations of the row and of the state differ
   only between a search and the update that follows it.
4. A session that needs a rollback (`poisoned`) is in the `except` clause and writes no
   more; that is why a commit or a statement that fails after the task was completed does not turn
   it into a failed one, and why one before leaves it running. Only a refresh without
   a connection brings a usable session of a completed task there.
5. `WorkerStep` is the frame: a step of a worker disturbs one row, one report and
   its own state. `RowStep` says what it may do to the row. The three action
   properties follow from `NextIInv` and `RowStep` alone.

The third part is about duplicate executions. `RestingTasksSettle` states
`RestingTasksAreSettled` under two assumptions: no more than one message is redelivered, so
that no task has more than two executions, and only agents and
the result backend fail (`Faults \subseteq {"node", "redis"}`; after a crash or a
failure of the database a task does stay running). `IInv` is of no use here, since
the copy of a row is not the row. `SettlingInv` counts what is still to
come: as long as two executions of a task have not recorded their outcome, its row and their
copies show none (`Clean`), so that the first to do so writes all of its columns; when
one is left, whatever its copy shows of an outcome the row still shows (`InTerms`), so
that the columns its UPDATE leaves out are right already; when none is left,
the outcome is `Recorded`. With three executions of one task the middle step fails, and
nothing is claimed.

The fourth part is about operators. `OperatorsTypeCorrect` holds for any number of
PATCHes, PUTs and redeliveries. `OutcomesGetRecorded` states `OutcomesAreRecorded` for
every set of tasks and workers, every set of faults, any payload and any number of PUTs,
when there is one PATCH at most and no redelivery. The row of a task now has two
writers: the one session that executes it (`Alone`), and the operator's. `PatchedInv`
splits the run at the operator's UPDATE. As long as it may still come (`PatchToCome`), the row and
the session's copy show no outcome (`Clean`); the UPDATE changes only the row, so
afterwards whatever the copy shows of an outcome the row shows too (`InTerms`), and the
UPDATE of the outcome leaves out no column that it needs. A refresh makes the copy the row again, and the
`UPDATE`s in between (`MarkRunning`, `PersistProgress`) write no outcome. After the completion
an execution may still fail its task, when a refresh fails; then the same is said of
failures only (`NotFailed`, `FailureInTerms`). A second PATCH
breaks this: the copy can take an outcome from the first that the second removes
from the row.

**`LeonardoProofs`.** The composition, by the interface between its parts.
`CommitInv`: as long as the row of a task is not committed or its message not sent,
the task is untouched: its row is new, nobody has it in hand, no message waits and
no report is stored. Handlers keep it because they write only their own
row, and commit before they send; workers keep it because a task at rest stays at rest. It gives
`OnlyCommittedTasksRun` for any faults and any number of redeliveries, and that
the API never changes a row in use (`HandlersKeepRows`). With no redelivery, the
invariant `IInv` of the executions then carries over to the system, where tasks are sent
one after the other instead of all at the start (`PublishIInv`); its lemmas are
cited through an instance without operators, after `SameStep` has identified the actions. From it
follow the refinement of `TaskLifecycle` from before the commit, and
`AnswersNeverRevert`, by `ToldTrue`: what a client was told is still true, or was a success
that a failed refresh has taken back, since outcomes stand and reports stay.

**`PaperStoreProofs`.** Each invariant of `PaperStore`. `PassedPapersWereStored` and
`TwinsComeFromRaces` hold whatever
the sources answer and whatever `Dedupe` makes of it. The first needs that no row
vanishes without a trace (`gone`). The second needs what a failed look-up knows when
its insert comes later (`LookedUp`): of the rows older than the look-up, none
agrees with the paper in a column that it keeps without blanks. `TypeOK` and
`QueueStandsForFound` rest on `StoreInv`: a queue is `Dedupe` of what was found, and an
execution that inserts stands at a valid paper of its queue. What `Dedupe`
computes is the lemma `DedupedPapers`: every key of its argument, no key twice, and each
paper later in the argument than the one before it.

**`AnalysisProofs`.** Each invariant of `Analysis`, for every number of papers and
attempts, every batch size and any delays. `Inv` says what is known of a call at each
place (`InCall`) and that the calls go batch by batch (`BatchByBatch`).
`FindingsInOrder` follows because `FindingsOf` appends the findings of a batch in the order
of its papers and all papers of a later batch are greater. `SleepAddsUp` is an induction
on the attempts: one more doubles the backoff (`SleepsOnceMore`), which needs
`2^(k+1) = 2 * 2^k`, proved by counting subsets (`PowerOfTwo`), since the provers
know nothing of powers. `ReportIsBacked` follows from what `Distinct` computes
(`DistinctSources`).

**Folds and induction.** `Dedupe`, `Distinct` and `FindingsOf` are folds of the community
modules, and the induction theorems of the library take an operator, which the
provers cannot instantiate. Both are got around in `PaperStoreProofs` and
`AnalysisProofs`: `NatSetInduction` states induction for a set of numbers and is proved
from the well-foundedness of `<`, and `FoldTableExists` shows that the recursive function
within the definition of a fold exists, so that the fold equals its step by step
evaluation (`DedupeSteps`, `DistinctSteps`, `FindingsSteps`).

**`SemanticScholarProofs`.** `TypeOK`, `SlotsAccounted`, `FirstTaskGivesUpForCause`
and `RequestsSpaced`. Slots are counted with the cardinality of the searches inside
the semaphore, step by step; the last property needs that the search that pauses
holds the lock and wakes no earlier than the interval after the last request.

**`RateLimiterProofs`.** `TypeOK`, `SlidingWindow` and `RefusalJustified`. The deque
is always the end of the client's history of admissions, and what is cut off is
older than the window (`IsTail`, `ForgottenAreOld`); so its length decides about
all admissions.

The inductive invariants were checked with TLC on the bounds of the runs before they
were proved.

So every invariant and every action property a passing run checks is a theorem too,
those about single executions under `MaxRedeliveries = 0`.
Model-checked only: liveness
(termination, settling, conclusion of every request), which TLAPS cannot reach.
Neither proved nor checked: what becomes of a task with more than two
executions at once, or of one with two PATCHes, beyond type correctness
(`TypeCorrect`, `OperatorsTypeCorrect`).

## 7. Not modelled

* arXiv: its library waits and retries in a thread of its own and a search
  that times out leaves that thread behind. What the pipeline sees of it, a search
  with or without papers, is in `PaperStore` and `ResearchGraph`. The
  registry, and the conversion of records to papers (an arXiv id keeps its version suffix).
* Plain-text completions of the LLM client, used by a smoke script only, and the
  construction of its providers.
* Internal endpoints: POST of a task, PATCH of a report (which changes no column the
  models keep), lists and single reads.
* The planner's subtasks: how many there are and what they say. The planner runs or
  raises.
* Health checks, logging, configuration, migrations, prompts and the layout of the
  report. They hold no state that a property above depends on.
