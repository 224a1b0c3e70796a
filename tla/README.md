# A verification development for GovBudgetChecker

TLA+ modules of the parts of GovBudgetChecker where several processes, tasks or
stores must agree, the TLC runs that check them on small instances, and TLAPS
proofs of the most important safety properties. Paths below are relative to
the repository. `PROJECT.json` gives, for every definition, the lines it
models.

## 1. The system

A budget or final-account report (a PDF) is uploaded and becomes a *job*: a
directory `uploads/<job>` with the PDF, `status.json` and what the analysis
leaves behind. `POST /analyze` and `/reanalyze` queue the job; a worker parses
the PDF (with OCR for scanned pages), runs rules and, in dual mode, AI
checks, materializes fiscal facts, builds a report and stores it. People then
review the result, correct facts and decide on the open points.

The same code runs as one process (role `all`), or as an API process and any
number of worker processes on one upload directory. Every process is an asyncio
event loop: its steps do not interleave between two awaits, the steps of
different processes always do. PostgreSQL is optional; with it the database is
the authority for results and the files are mirrors.

### Components, their state and what they promise

| component | state | operations | what makes it correct | module |
|---|---|---|---|---|
| durable job queue (`api/job_queue.py`, `api/worker.py`) | `.worker-claim.json`; per process: asyncio queue, `_enqueued`, `_active` | start, resume, poll, enqueue, dequeue, take, refresh, take over and release a claim, stop | an accepted job is analysed and ends; one process at a time; nothing ended is run again | `JobQueue`, `JobContract` |
| pipeline frame (`_run_pipeline` in `api/main.py`) | `status.json`, `.cancel-request.json` | enter, look for a cancellation, time out, write the last status | cancellations reach the run they are meant for | `JobQueue` |
| start and cancel (`api/runtime.py`, `api/routes/jobs.py`) | `status.json`, `.cancel-request.json` | `start_analysis`, `cancel_job` | one active analysis per job | `JobQueue`, `ResultStore` |
| pipeline body (`_run_pipeline_body`) | `status.json`, then the database, then the mirror | begin, processing, yield, ingest, commit, mirror, finish, fail | a run that was superseded leaves nothing | `ResultStore` |
| result store (`analysis_result_store.py`) | `analysis_jobs`, `analysis_results`, `persistence.json` | `persist_analysis_job_snapshot` with retries, replay at startup | a generation names one result | `ResultStore` |
| fact snapshots (`analysis_fact_snapshot.py`) | `analysis_fact_snapshots`, `analysis_revision_results`, `analysis_versions/` | persist, publish, mirror | what is current is complete; compare-and-set of the current revision | `ResultStore` |
| rebuild of history (`historical_rebuild.py` and its script) | staged candidates, batch events | stage, publish, roll back, mirror | never replaces an analysis it did not see | `ResultStore` |
| human review (`review_lifecycle_service.py`, `review_session_store.py`) | `review_sessions`, slot status, edit lock in `.issue_workflow.json` | start, complete, reopen, decide, confirm a scope, the hook of a new analysis, slot sync | one review at a time; a completed review is locked, what is locked is what was judged | `ReviewLifecycle` |
| document scope outbox (`document_scope.py`) | decisions with `dispatch_status`, an advisory lock per job | confirm, dispatch, retry, mark, apply | every decision is delivered; no analysis is complete without the latest | `ScopeOutbox`, `ScopeGate` |
| issue workflow (`issue_workflow_store.py`) | locked file with a revision, mirror in PostgreSQL, a signal file | decide, package, ignore, lock, mirror, recover at startup | the mirror never goes back and gets to what the file says | `WorkflowMirror`, `ReviewLifecycle` |
| material slots (`material_slot_*.py`) | slot rows | bind a version, refresh the status | the review part of the status; no deadlock | `ReviewLifecycle`, `LockOrder` |
| locks of the transactions (slots, reviews, results, imports, repair, rebuild) | row and advisory locks | each transaction's locks in their order | nobody waits in a circle | `LockOrder` |
| dual analysis (`analyze_dual.py`, `rule_process.py`, `check_progress.py`) | two tasks, a thread and its child process, the queue of audits, `check_progress.json` | begin, rules, audit, time limits, cancel, fall back, merge | it ends, leaves nothing behind, and says truly what became of its tracks | `DualAnalysis` |
| scanned pages (`ocr_tiles.py`, `ocr_tiled_pipeline.py`) | one checkpoint file per page, beside it a lock | enter, ask, record, plan, judge a region, finish | no answer is lost or asked for twice; the status says what there is | `PageCheckpoint` |
| corrections (`correction_overlay_store.py`) | append-only file | append with a comparison of the basis token | no correction of an unseen report | not modelled |
| merging of findings | in memory | pair and merge | | not modelled (a pure function) |
| rules, parsing, organizations, users, reporting tasks, front end | rows and files, or none | sequential | | not modelled |

### How they interact

`start_analysis` writes `queued` to `status.json`, invalidates the reviews
(which clears the result fingerprint), persists the row and hands the job to the
queue, or leaves it to the pollers of other processes. A worker task takes the claim
file, looks at the status again, and runs `_run_pipeline`, which runs the body as
an inner task. The body stores the fact snapshot, commits the result with
`publish_snapshot` in the same transaction, mirrors it to the files and writes
the final status. Errors, timeouts and cancellations write `error` to
`status.json` and persist that, from the body or from the frame. Review
sessions bind to `job:generation`. The scope outbox calls `reanalyze_job` from
the poller. Completing a review writes an edit lock into the workflow file, which every
edit of an issue looks at. The body's check stage is a dual analysis, whose audits
wait in one line per process; the parsing stage reads scanned pages through
their checkpoints and gives the job back to the queue when its budget is used up.

### What is hard

* Processes talk through files only; the claim is create/stat/unlink by path,
  with a TTL instead of an owner that can be asked.
* `status.json` is rewritten whole by the service, the resume pass, the body and
  the frame, from reads that may be old.
* A database call may be retried after it has taken effect, and may land long
  after the state it describes has changed.
* Two authorities: the database says what is current, the files are written
  before and after it, and a failure between them must leave something readable.
* A stop, a crash and a restart may come between any two of these.

`PROJECT.json` lists these hazards at their lines with the properties that cover
each.

## 2. Modules

### JobContract, JobQueue

`JobContract` is what the caller of `start_analysis` is promised: an accepted
job is active until its analysis ends, it does end, and only a further accepted
request reopens it. `JobQueue` has no knowledge of it; `JobQueue!Contract` is the
refinement mapping (`status` to `phase`, accepted requests to `accepted`).

State: `status`, `waiting`, `claim`, `stale`, `cancel` are the files of a job;
`life`, `queue`, `pc`, `attempt`, `found`, `accepting` are a process. `pc[p][j]`
is where the worker task for `j` is: in `_acquire_claim` (`create`, `stat`,
`unlink`), in `_run_job` before the pipeline (`claimed`), in the pipeline
(`started`, `working`, `cancelling`, `timing_out`, `returned`), in its
`finally` (`ending`, `release`). Operations on the claim file are one action each,
because processes interleave between them; between them a process does nothing else
(`LoopFree`). Reading or rewriting another file is one step with the
computation around it.

Abstractions: time (a claim is fresh or past its TTL; a cancel request is newer
or older than the `ts` of `status.json`; `retry_not_before` is in the future or not);
`done`, `degraded` and `review_required` are one status; `cancelled` is status
`error` with `pipeline_cancelled`. `owed` and `expired` are history. The
status probe cache saves reading an unchanged file. Not in the module: the
inline fallback (a run without a claim), deletion of a job.

### ResultStore

One job. `row` is its row in `analysis_jobs` with the generation
(`analysis_revision`), the fingerprint and the current revision; `result`, `snap`,
`core`, `pending` the tables beside it; `file`, `archive`, `pointer`, `sync` the job
directory. A content is the revision that computed it (with a database every
successful result carries its revision, so two are never equal), `Empty` for
all errors (they have the same fingerprint) or `Legacy`.

`persist_analysis_job_snapshot` is a call that stays open over several steps
(`calls`). Each attempt is one transaction: it commits (`PersistCommits`), or
fails (`PersistFails`), and the failed one may have committed without the
caller hearing of it. The callers are `start_analysis` (`Api`), the bodies
(`Runs`), and the replay at startup (`Sync`); the rebuild tool (`Candidates`)
uses the tables directly. `pc[r]` is the step of the body of run `r`. A crash ends a
caller at any point. `MayOverlap` says whether two runs of the job may overlap, which the
claim rules out only while no claim expires (`ClaimGuardsRun`).

Left out: the content checks of snapshots, which are taken as passed; the slot,
scope and projection updates in the same transaction; a pipeline without a
database.

### ReviewLifecycle

One slot with its document versions. `slot`, `session`, `job` are rows of the
database; `lock` and `resolved` are in the workflow file. A request of a reviewer
is one transaction: `Open` takes the row lock of the slot (`owner`), reads what
`_load_state` reads (`view`) and, with `ReadIssues`, the file; then it is one of
`StartReview`, `WriteLock` and `FinishCompletion` (`complete_review`),
`ReopenReview`, `DecideObligation`, `ConfirmScope`. The edit lock is written *inside*
the transaction and cleared *after* it (`ClearLock`), so `CommitFails`, `Compensate` and
`Crash` come between. The `Analyzer` is `start_analysis` with its hook and the run
up to the slot sync, which reads (`SyncRead`) and writes (`SyncWrite`) without
the row lock. `Edit`, `Bind`, `Upload` are the other writers. A lock's identity is
(session, basis); the basis of a session never changes, so its number stands for both.

Simplifications: one obligation and one issue per version; `invalidate_review` has
no caller and is left out; the status stays `completed` after a scope
confirmation or a reopening while the analysis is not current
(`tests/test_review_lifecycle_pg.py:922` wants it so); a new analysis of an old
version sets the slot back to `uploaded`.

### LockOrder

`script[c]` is the list of locks that the transaction of connection `c` takes, in the
order of its code, and `taken[c]` how many it has. `Allocate`, `Register`, ...,
`Publish` are those lists, one per service function. `Operations` says whether
the repair of identities and the publication of rebuilt history run as well:
they take the version and the job in another order than the storing of a result, and
with either of them two transactions can wait for each other. Locks below a
row that is already held (snapshots under the job, tasks under the slot) and
key-share locks are left out.

### WorkflowMirror

`file` is `.issue_workflow.json` with its revision, `mirror` the tables, `call[c]`
the snapshot a call of `persist_workflow_state` has in hand, `signal` the
persistence file. Writers are one step (they hold the file lock); a mirror is
another step, any time later, and may fail, be given up after it committed, or
die. `Covered` is the early return of the mirror. `life` is history: it tells a
file that was lost and made again from the one before.

### ScopeGate, ScopeOutbox

`ScopeGate` is what a reviewer is promised of a confirmation: a decision ends the
completeness of the analysis, only an analysis with the latest decision restores
it, and so decisions take effect one after the other. `ScopeOutbox!Gate` is the
refinement mapping (the rows of a job to their number and to those applied, its row to
`complete` and `basis`).

`decisions[j]` are the rows of a job with their `dispatch_status`, `result` and `file`
its row and its `status.json`, `dispatcher[d]` a call of `dispatch_pending` with
the rows it has read and the row it is at. `Take` is the try of the advisory lock,
`Look` the reading of the status file, `Start` and `Announce` the two halves of
`reanalyze_job`, `Mark` the update. The dispatcher holds a connection throughout and `Announce`
needs a second one from the same `Pool`. The pipeline (`Begin`, `Load`,
`Commit`, ...) runs elsewhere.

Simplifications: the order and `LIMIT 10` of the rows; the best-effort write of
the row is taken to succeed when its connection is there. A queued decision whose
analysis fails is not tried again by a dispatcher, in the code and here:
`Awaited` asks that the failure shows. If all connections of the pool are held by
dispatchers that wait for a second one, none goes on; the run has one to spare.

### DualAnalysis

Two analyses (or more) in one event loop. `main[j]` is where `_analyze` waits,
`rule[j]` and `ai[j]` its two tasks, `call[j]` the thread that watches the child process
of the rules, `queue` and `auditor` the line and the lock of the audits, `progress`
the file of the tracks. `Cancel` may come wherever the analysis waits; `RuleCancelled`
and `AiCancelled` say what it does to the tasks: one that has not begun never
does, a running rule task waits for its thread, an audit gives back its
ticket.

Simplifications: what is found, the progress snapshots and their generation guard;
"degraded" counts as failed; `AI_SEQUENTIAL_MODE` is on. The time limit of
the rules counts the wait for a thread, that of the audit does not count the
queue.

### PageCheckpoint

`file` is the checkpoint, `inside` who holds its lock, `mem[w]` the state in memory.
A pass loads the checkpoint if its identity fits (`view`: the orientation that the
probes of this pass found), asks for what is missing, one request at a
time (`AskTile`, `AskPiece`, `Answer`), makes the plan of the regions to read again, asks for
their pieces, judges each region and writes the status. A pass may run out
of its budget (`late`) at any answer, or be cut off (`Interrupt`) at any point.

Simplifications: a region is covered when all its pieces came out well; corrupt
checkpoints, the budget of the whole document and the probing itself are left out. A
page whose probes disagree from pass to pass starts anew each time (`MaxTurns` bounds it).

### MC modules and proofs

The `MC` modules extend the specifications and define the symmetry sets; the `.cfg`
files give the constants their values. The `Proofs` modules hold the theorems. Definitions whose comment starts with "Mutant of" are plausible bugs,
one per checked property; nothing in the specification uses them. Each was put in
the place of its original to see TLC report the property.

## 3. Runs

| run | instance | checks | outcome |
|---|---|---|---|
| `queue_safety` | 2 processes, 1 job, 2 requests, 1 crash, 1 cancellation, 1 OCR round, stalls | `TypeOK`, `ClaimGuardsRun`, `OnlyUserCancels`, `TerminalIsFinal` | holds, 890,574 states |
| `queue_contract` | 1 process, 2 jobs, 1 worker task, 1 crash, 1 stop, OCR rounds, resume | `KeepsContract` | holds, 70,717 states |
| `store_safety` | 1 run, 1 candidate, 1 request, 2 failures, 1 crash, 1 rollback | `TypeOK`, `ResultIsCurrent`, `CurrentIsComplete`, `TokenIdentifiesResult`, `ReplacesItsBase` | holds, 1,237,807 states |
| `review_safety` | 2 requests, 2 sessions, 2 results, 1 failure or crash | `TypeOK`, `OneActive`, `CompletionIsLocked`, `LockHasOwner`, `LockedAsJudged`, `UnlockedAfterInvalidation` | holds, 486,802 states |
| `review_versions` | 2 requests, 2 versions, no failure | `CompletionIsLocked` | holds, 596,086 states |
| `review_reopen` | 1 request, 3 sessions | `ReopenUnlocks` | violated |
| `outbox_delivery` | 1 job, 2 decisions, 2 dispatchers, 3 connections, 2 faults | `TypeOK`, `GateClosed`, `Awaited`, `KeepsGate`, `Delivered` | holds, 24,692 states |
| `workflow_mirror` | 1 issue, 2 mirrors, 2 faults, 1 loss of the file | `TypeOK`, `MirrorIsFile`, `MirrorForward`, `Converges` | holds, 308,310 states |
| `lock_order` | 4 connections, 2 materials | `TypeOK`, `NoDeadlock` | holds, 413,509 states |
| `lock_repair` | 2 connections, 1 material, with the repair | `NoDeadlock` | violated |
| `dual_analysis` | 2 analyses, 1 thread | `TypeOK`, `AuditInTurn`, `NothingOutlives`, `TracksTellTruth`, `NoMaskedFailure`, `EveryoneEnds` | holds, 223,657 states |
| `page_checkpoint` | 2 processes, 2 tiles, 2 regions of 2 pieces, 2 turns, 2 interruptions | `TypeOK`, `AnswersSaved`, `RightfullyGivenUp`, `StatusTruth`, `NothingUndone`, `ReadInTheEnd` | holds, 74,362 states |

What the two violated ones show:

* `review_reopen`: `start_review` looks for an active session only. Started over a
  review that is completed on the same analysis, it makes a second session, and the
  lock of the first stays in the file. Reopening then clears the lock of the second
  session, which was never written. The issues cannot be edited, though the
  message of the refused edit advises to reopen, and a test says that this helps.
* `lock_repair`: storing a result locks the job and at its end the version; the
  repair of an identity locks version and then job. PostgreSQL ends one of them with an
  error. `Operations = {"rebuild"}` shows the same of the publication of rebuilt history.

### Known deviations

What the models were seen to do in instances that are not kept as runs, because no
document promises otherwise or only a corner is at stake. The properties of the
runs are stated so that they allow these.

* A resume pass (queue) reads all status files first and rewrites each as `queued`
  later. A job that another process finishes in between is run again; with
  `ResumeOnStart = TRUE` and two processes `TerminalIsFinal` fails.
* Stopping a worker (queue) cancels its tasks, and `_run_pipeline` takes every
  cancellation for the user's: the job ends with `pipeline_cancelled`.
* The age of a claim and its removal are two operations. Of two processes that
  find the same expired claim the slower one removes the new claim of the faster.
* A cancel request is kept only while it is newer than `status.json`. One made just before a
  write of the body is dropped by the next run, when the OCR round ends there.
* A rollback (store) restores the whole row with its generation, so the next
  result takes the number the rolled back candidate had: a token `job:generation`
  may name two analyses. `TokenIdentifiesResult` stops at the first rollback.
* The replay at startup may publish a rolled back candidate again, when its mirror
  was written into a status that waits for a retry. `ReplacesItsBase` holds the replay to
  a base only while nothing was rolled back.
* An error after the publication is archived under a made-up revision and
  `current.json` moved to it, although the database names another one.
* A dispatcher (outbox) that read a decision before its analysis applied it may
  start the analysis a second time.
* Once the workflow file is lost, mirrors of the new file are dropped while their
  revision is below that of the mirror. The comment at
  `issue_workflow_store.py:384` ("so a newer local state is never silently dropped") is about
  equal revisions, and there only keys and the number of packages are compared. An older mirror's "synced" may replace a newer
  "pending_retry".

### Bounds

All counters named `Max...` bound what the environment does (requests, crashes, failures, rounds,
versions, losses of the file), never what the code does; `MaxRevision`, `MaxGen` and
`MaxSessions` end the growth of a number. Two processes are enough for the races
on a claim, a checkpoint or a row: each step concerns the one that takes it and the one
that holds it. One job suffices in `queue_safety`, as jobs share only the
queue; two jobs and one worker task make `queue_contract` meet a full worker.
Two failures with two attempts reach the exhausted retry of the store, hence
the replay; the third attempt of the code adds only a longer wait. Two sessions are enough
for a review that replaces another, three for the reopening over both. Two decisions let the
second overtake the first; two mirrors arrive out of order; two transactions are a
circle, four leave room for longer ones; two analyses on one thread wait for each
other in both queues; two tiles and two pieces let a pass end between any two answers.
The review has two configurations, because failures and a second version
together are too many states for one run. The numbers of the theorems below are unbounded.

Runs with a crash, a stop or a bound may end, so deadlock is not checked in those
configurations of the queue and the store; the other modules have no terminal
state. That nothing gets stuck is what the liveness properties say.

### Fairness

`JobQueue!Fairness`: the event loop runs ready callbacks in FIFO order, so a step of a
task that keeps becoming possible is taken (strong fairness of `Dequeue`,
`MarkRequeued`, `Poll` and the steps of a worker task); a body ends, because
`_run_pipeline` gives it a wall-clock limit; a process that is down is started
again by its supervisor; an orphaned claim ages and `retry_not_before`
passes (weak fairness). Nothing makes requests, cancellations, crashes, stops,
stalls or OCR rounds happen. Rounds are bounded: a job whose OCR service is
down for ever yields for ever, in the code as well. 

`ScopeOutbox!Fairness`: the poller of every process calls the dispatcher again and
again; waiters for a connection are served in FIFO order, hence strong fairness of `Fetch` and
`Announce`; the pipeline of a job goes on. Users, crashes and failures are not fair.

`WorkflowMirror!Fairness`: a mirror that is not cut off ends (it has a time limit), and
the server is started again some day, which mirrors the file (`Sync`). Without
the second, a failed mirror with no later write stays behind.

`DualAnalysis!Fairness`: one of the steps of an analysis is taken while one is possible: the
loop runs what is ready, the thread of the rules looks at its deadline, and every call of a model has
a time limit. The executor starts what waits in FIFO order (strong fairness of
`StartChild`). That a child ever answers is not assumed.

`PageCheckpoint!Fairness`: a job with a pending page is taken up again (the queue's
contract), a request is answered or times out, and a tile that is asked for again
and again is answered well at last. The last is an assumption on the OCR service,
without which a page is never read; it is not made of the pieces of regions.

`ResultStore`, `ReviewLifecycle` and `LockOrder` have no fairness and no liveness
property.

## 4. Proofs

`JobQueueProofs`, for any sets of processes and jobs and any bounds:

* `TypeCorrect`: `SafetySpec => []TypeOK`, one lemma per group of actions.
* `ClaimGuards`: `SafetySpec => []ClaimGuardsRun`. The inductive invariant is
  `ClaimInv`. A task that holds the claim stands in its file, which is not
  enough by itself: the step that could take it away is another process's unlink, so
  the invariant also says that nobody is about to unlink a claim that never
  expired, and that a claim is stale only for a job in `expired`.
* `AtMostOneRun`: the consequence for two processes.
* `UserCancels`: `SafetySpec => []OnlyUserCancels`. The invariant (`UserInv`) follows a
  cancel request from the request to the status: a request file, a cancellation
  seen by a run, and the status `cancelled` are all owed to somebody who asked.
  It holds until the first orderly stop, which cancels like a user (known deviations).
* `JobsQueuedOnce`, `ClaimsHaveRuns`: the bookkeeping of one process (`WorkerInv`). A job is
  in its queue at most once and not while a task runs it, no more tasks run than may,
  and a claim that names a living process belongs to a run in it, expired or
  not. The last is the converse of `ClaimGuardsRun`: no claim is left behind that only its
  age could free.
* `ManyKeepContract`, `OneKeepsContract`: the refinement of `JobContract`, without its
  fairness. Several processes implement it under `~ResumeOnStart` while no claim
  expires, which is a hypothesis of the theorem because it is what is known to fail otherwise
  (known deviations). A single process implements it without any condition, through
  stalls, crashes, stops and resume passes: what its resume pass has read and not yet
  rewritten is neither queued nor run, so nothing ends it in between (`OneInv`).
* `TerminalStays`: under `~ResumeOnStart`, `SafetySpec => TerminalIsFinal`. The
  inductive invariant `WorkInv` says that a task in the pipeline works on a job that
  is active until that task writes its end. With resume on start, the default,
  the property fails for several processes (known deviations).
* `OneTerminalStays`: with a single process it holds with resume on start, too.

`ResultStoreProofs`, for any sets of runs and candidates, any number of
attempts and any bounds, overlapping runs or not:

* `TypeCorrect`: `Spec => []TypeOK`.
* `ResultCurrent`, `CurrentComplete`: from the inductive invariant `StoreInv`.
  Neither property is inductive. A rollback restores what `batch` remembers, so the
  invariant says that a batch remembers only what was consistent and complete
  (`BatchesComplete`); and an attempt stores what was put together when the call was
  opened, so it says that a payload with the result of a revision always carries the
  receipt that makes the same transaction publish it (`RevisionsHaveReceipts`).
* `TokenIdentifies`: from `TokenInv`, which adds that the row is at the latest
  generation that holds a result and that its fingerprint, while it has one, is
  that result (`RowIsLatest`). A forgotten fingerprint costs a generation,
  never reuses one. The first rollback ends this (known deviations).
* `RevisionReplacesItsBase`: from `BaseInv`. A payload that waited through any
  number of attempts still names what its revision was computed against, or nothing,
  and then there is already a current revision it cannot replace (`Knows`). The base
  of a revision is final once its body has begun or its candidate is staged
  (`Fixed`), and what `status.json` holds, which the replay reads, was published
  before (`FileFollows`).

`WorkflowMirrorProofs`, for any issues, any number of mirrors under way and any bounds:

* `TypeCorrect`, `MirrorCorrect` (`MirrorIsFile`), `NeverBack` (`MirrorForward`). The
  invariant (`Follows`) is about every snapshot, those under way and that of the mirror: of
  the file's present life it is not ahead of the file, and at the file's revision it
  has the file's content.

`LockOrderProofs`, for any number of connections and of materials, without repair and
rebuild:

* `TypeCorrect` and `NoDeadlocks`. Locks get a rank: identity 0, slot 1, job 2,
  document 3, version 4, and for two materials the smaller key first. Every
  transaction takes its locks by rising rank, except those of sessions and decisions,
  which only a transaction that holds the slot ever asks for. A set of connections that all
  wait for one another would have one whose wanted lock has the highest rank, and
  nobody in the set can hold that. The documented order has the versions before the
  jobs; the proof shows that the order the code really has is as good.

`ScopeOutboxProofs`, for any jobs, dispatchers, size of the pool, decisions and faults:

* `TypeCorrect`, `GateIsClosed` (`GateClosed`), `AwaitedHolds` (`Awaited`), `NeverBack`
  (`StatusForward`: a row's status never goes back). `OutboxInv` says of a job (`JobInv`) that its row is open from the first
  write of an analysis to its commit, that the analysis which has loaded a decision
  has loaded the latest, and that only the latest can be unapplied; and of a
  dispatcher (`RecordInv`) that what it has started and not marked is either going on or
  applied. The two lean on each other: a mark made late is harmless because the
  decision is then applied, and no decision is confirmed under an analysis that has
  loaded the one before, because the row is open.
* `OutboxKeepsGate` (`KeepsGate`): the outbox implements `ScopeGate`, one lemma per kind of
  step: a confirmation decides, a write of an active status reopens, a commit completes, and
  everything a dispatcher does but `Announce` is not seen. `NonePassedOver`: every decision
  but the latest has been applied.

`PageCheckpointProofs`, for any workers, views, numbers of tiles, regions and pieces:

* `TypeCorrect`, `AllSaved` (`AnswersSaved`), `GivenUpRightly` (`RightfullyGivenUp`),
  `StatusIsTrue` (`StatusTruth`), `NeverUndone` (`NothingUndone`). `PageInv` says that one
  worker is inside, that file and memory are each proper (a plan only after all tiles, a
  verdict only after all pieces), and that the memory is ahead of the file by at most
  the regions found recovered, or is of another view.

`DualAnalysisProofs`, for any analyses, threads and local checks:

* `TypeCorrect`, `AuditsInTurn` (`AuditInTurn`), `NothingIsLeft` (`NothingOutlives`),
  `TracksAreTrue` (`TracksTellTruth`), `NoFailureMasked` (`NoMaskedFailure`). The invariant has
  a part for the line (`LineInv`: nobody is in it twice, whoever waits or audits is in it, the
  holder of the lock is the head) and, for each analysis, what its thread, its step, its
  result and its progress file know of its tasks (`CallInv`, `MainInv`, `ResultInv`). A
  cancellation may come between any two steps, so each part is stated for the
  steps of winding up as well.
* `LineAlwaysMoves`: while anybody is in the line, its first may take the lock, has it, or is
  about to leave. This is the safety core of `EveryoneEnds`: the line never waits for
  an analysis that is gone.
* `NobodyOvertakes`: no step changes the order of those who stay in the line.

`ReviewLifecycleProofs`, for any reviewers and any bounds on versions, sessions, generations
and faults:

* `TypeCorrect`, `OneReview` (`OneActive`), `CompletionLocked` (`CompletionIsLocked`),
  `LocksHaveOwners` (`LockHasOwner`), `JudgedIsLocked` (`LockedAsJudged`) and
  `UnlockedRightly` (`UnlockedAfterInvalidation`). The properties relate two stores that no
  transaction spans, so `ReviewInv` says what is true in between: a lock written and not
  yet committed belongs to a session that is still in progress, and stands unless another
  request's compensation has removed it (`Uncommitted`); what is still to be cleared belongs
  to sessions that are invalidated, which is for good (`Gone`); a lock names a session of its
  own version (`Named`); and only the latest session is ever active, of a version no later
  than the current one (`Numbered`). The last is why binding a later version leaves no lock
  on the version that becomes current.

Assumptions: the `ASSUME`s of the modules, which only say that the
special values differ from the ordinary ones, that bounds are natural numbers, that
the sets of dispatchers, workers and analyses are finite, and that there is at least
one attempt, connection, tile and view.

Only model-checked: liveness, which is out of the prover's reach: the fairness part of
`KeepsContract`, `Delivered`, `Converges`, `EveryoneEnds` and `ReadInTheEnd`. Every other
property of a passing run is a theorem. Three of the
theorems have a condition, because without it the property is known to fail:
`TerminalStays` has `~ResumeOnStart` (or one process, `OneTerminalStays`),
`UserCancels` ends with the first orderly stop, and `ManyKeepContract` with the first claim
that expires. The run `queue_safety` has the first two conditions, `queue_contract` a single
process.

## 5. What is left

* Not modelled: the correction overlay (one locked step, a comparison of tokens on data
  that is not modelled); the reporting tasks (compare-and-set in single
  transactions); the pairing of findings, the rules and the parser (sequential functions of
  data, out of TLC's reach as they stand: tens of thousands of lines of text patterns
  and tables, whose errors are not errors of state); organizations, users and audit
  (single writes); migrations; the front end. The rules and their tables make up most of the
  implementation's lines, and are the reason why the map covers a small part of them.
* Planned: an inline run without a claim in `JobQueue`; the budget of a document over
  several pages; the promise of the result store as an abstract register with
  compare-and-set, and its refinement.
