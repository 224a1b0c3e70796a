------------------------------ MODULE JobQueue ------------------------------
(***************************************************************************)
(* The durable job queue (api/job_queue.py), the process that hosts it     *)
(* (api/worker.py, the lifespan of api/main.py) and the frame of the       *)
(* pipeline it runs (_run_pipeline in api/main.py).                        *)
(*                                                                         *)
(* Several processes share one upload directory and talk only through the *)
(* files of a job: status.json (status), .worker-claim.json (claim) and    *)
(* .cancel-request.json (cancel).  A process is an asyncio event loop: its *)
(* own steps do not interleave between two awaits, but the steps of two    *)
(* processes interleave between any two file operations.  The claim file   *)
(* is what keeps the processes apart, so its operations are one action     *)
(* each; the other files are read and written in one step.                 *)
(*                                                                         *)
(* Time is abstract: a claim's mtime is fresh or past the TTL (stale), a   *)
(* cancel request is newer or older than the ts of status.json, and a      *)
(* retry_not_before is in the future (waiting) or not.                     *)
(***************************************************************************)
EXTENDS Naturals, Sequences, FiniteSets

CONSTANTS
    Instances,      \* processes that host a DurableJobQueue
    Jobs,           \* job directories
    NoOne,          \* the claim file does not exist
    Orphan,         \* the claim file holds the token of a run that is gone
    MaxWorkers,     \* JOB_QUEUE_WORKERS: worker tasks of one process
    ResumeOnStart,  \* JOB_QUEUE_RESUME_ON_START
    LoopsMayStall,  \* may an event loop miss its heartbeats for a whole TTL?
    MaxSubmits,     \* bound: accepted requests per job
    MaxYields,      \* bound: OCR rounds that put one job back in the queue
    MaxCrashes,     \* bound: crashes, over all processes
    MaxStops,       \* bound: graceful stops, over all processes
    MaxCancels      \* bound: user cancellations, over all jobs

ASSUME QueueAssumption ==
    /\ NoOne \notin Instances
    /\ Orphan \notin Instances \cup {NoOne}
    /\ MaxWorkers \in Nat \ {0}
    /\ ResumeOnStart \in BOOLEAN
    /\ LoopsMayStall \in BOOLEAN
    /\ {MaxSubmits, MaxYields, MaxCrashes, MaxStops, MaxCancels} \subseteq Nat

VARIABLES
    status,     \* status[j]: the "status" of status.json
    waiting,    \* jobs whose retry_not_before lies in the future
    claim,      \* claim[j]: whose token the claim file holds
    stale,      \* jobs whose claim file is older than the TTL
    cancel,     \* cancel[j]: the cancel request, relative to status.json's ts
    life,       \* life[p]: the process is down, starting, up or stopping
    queue,      \* queue[p]: the asyncio queue (its set of members: _enqueued)
    pc,         \* pc[p][j]: where p's worker task for j is ("idle": none)
    attempt,    \* attempt[p]: the iteration of the loop in _acquire_claim
    found,      \* found[p]: jobs a resume pass has read but not yet requeued
    accepting,  \* accepting[p]: start_analysis wrote "queued", enqueue not yet
    submits, yields, crashes, stops, cancels, \* counters of the bounds
    expired,    \* history: jobs one of whose claims has outlived the TTL
    owed        \* history: jobs cancelled by the user since the last request

files == <<status, waiting, claim, stale, cancel>>
procs == <<life, queue, pc, attempt, found, accepting>>
bounds == <<submits, yields, crashes, stops, cancels>>
history == <<expired, owed>>
vars == <<files, procs, bounds, history>>

Resumable == {"queued", "processing"}
\* "done" stands for done, degraded and review_required; "cancelled" is
\* status "error" with error "pipeline_cancelled".
Terminal == {"done", "error", "cancelled"}
Statuses == {"uploaded"} \cup Resumable \cup Terminal

\* A worker task is between two awaits: nothing else runs in its process.
Synchronous == {"create", "stat", "unlink", "claimed", "release"}
\* _run_pipeline is on the stack; in the last two it is waiting for the inner
\* task to unwind after a CancelledError or a TimeoutError.
Unwinding == {"cancelling", "timing_out"}
Running == {"started", "working", "returned"} \cup Unwinding
\* The worker task believes it holds the claim of the job.
Holding == {"claimed", "ending", "release"} \cup Running
Steps == {"idle"} \cup Synchronous \cup Holding

Active(p) == {j \in Jobs : pc[p][j] # "idle"}
Enqueued(p) == {queue[p][i] : i \in 1..Len(queue[p])}
LoopFree(p) == \A j \in Jobs : pc[p][j] \notin Synchronous

Goto(p, j, step) == pc' = [pc EXCEPT ![p][j] = step]

\* status.json is rewritten with a new ts: an earlier request becomes older.
WriteStatus(j, s) ==
    /\ status' = [status EXCEPT ![j] = s]
    /\ cancel' = [cancel EXCEPT ![j] = IF @ = "newer" THEN "older" ELSE @]

\* enqueue: once per process, whether queued or being run.
Enqueue(p, j) ==
    queue' = [queue EXCEPT ![p] =
                IF j \in Enqueued(p) \cup Active(p) THEN @ ELSE Append(@, j)]

TypeOK ==
    /\ status \in [Jobs -> Statuses]
    /\ waiting \subseteq Jobs
    /\ claim \in [Jobs -> Instances \cup {NoOne, Orphan}]
    /\ stale \subseteq Jobs
    /\ cancel \in [Jobs -> {"none", "newer", "older"}]
    /\ life \in [Instances -> {"down", "starting", "up", "stopping"}]
    /\ queue \in [Instances -> Seq(Jobs)]
    /\ pc \in [Instances -> [Jobs -> Steps]]
    /\ attempt \in [Instances -> 1..2]
    /\ found \in [Instances -> SUBSET Jobs]
    /\ accepting \in [Instances -> SUBSET Jobs]
    /\ submits \in [Jobs -> Nat]
    /\ yields \in [Jobs -> Nat]
    /\ {crashes, stops, cancels} \subseteq Nat
    /\ expired \subseteq Jobs
    /\ owed \subseteq Jobs

Init ==
    /\ status = [j \in Jobs |-> "uploaded"]
    /\ waiting = {}
    /\ claim = [j \in Jobs |-> NoOne]
    /\ stale = {}
    /\ cancel = [j \in Jobs |-> "none"]
    /\ life = [p \in Instances |-> "down"]
    /\ queue = [p \in Instances |-> <<>>]
    /\ pc = [p \in Instances |-> [j \in Jobs |-> "idle"]]
    /\ attempt = [p \in Instances |-> 1]
    /\ found = [p \in Instances |-> {}]
    /\ accepting = [p \in Instances |-> {}]
    /\ submits = [j \in Jobs |-> 0]
    /\ yields = [j \in Jobs |-> 0]
    /\ crashes = 0 /\ stops = 0 /\ cancels = 0
    /\ expired = {} /\ owed = {}

-----------------------------------------------------------------------------
(* start_analysis, the user's cancellation and the passage of time.        *)

\* Everything up to the first await: the guard and the write of "queued".
AcceptRequest(j) ==
    /\ submits[j] < MaxSubmits
    /\ status[j] \notin Resumable
    /\ WriteStatus(j, "queued")
    /\ waiting' = waiting \ {j}
    /\ submits' = [submits EXCEPT ![j] = @ + 1]
    /\ owed' = owed \ {j}
    /\ UNCHANGED <<claim, stale, yields, crashes, stops, cancels, expired>>

\* In a process without a queue (role "api"): the pollers will find the job.
Submit(j) ==
    /\ AcceptRequest(j)
    /\ UNCHANGED procs

\* In a process that hosts a queue: enqueue follows after two awaits.
SubmitLocal(p, j) ==
    /\ life[p] = "up" /\ LoopFree(p)
    /\ AcceptRequest(j)
    /\ accepting' = [accepting EXCEPT ![p] = @ \cup {j}]
    /\ UNCHANGED <<life, queue, pc, attempt, found>>

EnqueueAccepted(p, j) ==
    /\ life[p] = "up" /\ LoopFree(p)
    /\ j \in accepting[p]
    /\ Enqueue(p, j)
    /\ accepting' = [accepting EXCEPT ![p] = @ \ {j}]
    /\ UNCHANGED <<files, life, pc, attempt, found, bounds, history>>

\* POST /api/jobs/{job_id}/cancel, while the job is active.
CancelJob(j) ==
    /\ cancels < MaxCancels
    /\ status[j] \in Resumable
    /\ cancel' = [cancel EXCEPT ![j] = "newer"]
    /\ cancels' = cancels + 1
    /\ owed' = owed \cup {j}
    /\ UNCHANGED <<status, waiting, claim, stale, procs, submits, yields,
                   crashes, stops, expired>>

RetryDue(j) ==
    /\ j \in waiting
    /\ waiting' = waiting \ {j}
    /\ UNCHANGED <<status, claim, stale, cancel, procs, bounds, history>>

\* The claim's mtime passes the TTL: nobody refreshes an orphan, and a live
\* owner fails to only while its event loop is blocked.
Expire(j) ==
    /\ claim[j] # NoOne /\ j \notin stale
    /\ claim[j] = Orphan \/ LoopsMayStall
    /\ stale' = stale \cup {j}
    /\ expired' = expired \cup {j}
    /\ UNCHANGED <<status, waiting, claim, cancel, procs, bounds, owed>>

-----------------------------------------------------------------------------
(* The life of a process.                                                  *)

\* Mutant of Start: the resume pass does not look at the status.
StartReadingAll(p) ==
    /\ life[p] = "down"
    /\ life' = [life EXCEPT ![p] = "starting"]
    /\ found' = [found EXCEPT ![p] = Jobs \ waiting]
    /\ UNCHANGED <<files, queue, pc, attempt, accepting, bounds, history>>

\* start: the resume pass first reads every status file (in a thread).
Start(p) ==
    /\ life[p] = "down"
    /\ life' = [life EXCEPT ![p] = IF ResumeOnStart THEN "starting" ELSE "up"]
    /\ found' = [found EXCEPT ![p] =
                    IF ResumeOnStart
                    THEN {j \in Jobs : status[j] \in Resumable} \ waiting
                    ELSE {}]
    /\ UNCHANGED <<files, queue, pc, attempt, accepting, bounds, history>>

\* ... then rewrites what it read as "queued" and enqueues the job.
MarkRequeued(p, j) ==
    /\ life[p] = "starting" /\ LoopFree(p)
    /\ j \in found[p]
    /\ WriteStatus(j, "queued")
    /\ waiting' = waiting \ {j}
    /\ Enqueue(p, j)
    /\ found' = [found EXCEPT ![p] = @ \ {j}]
    /\ UNCHANGED <<claim, stale, life, pc, attempt, accepting, bounds, history>>

EndResume(p) ==
    /\ life[p] = "starting" /\ found[p] = {}
    /\ life' = [life EXCEPT ![p] = "up"]
    /\ UNCHANGED <<files, queue, pc, attempt, found, accepting, bounds, history>>

\* One job of a pass of the poller: no rewrite, only enqueue.
Poll(p, j) ==
    /\ life[p] = "up" /\ LoopFree(p)
    /\ status[j] \in Resumable /\ j \notin waiting
    /\ j \notin Enqueued(p) \cup Active(p)
    /\ Enqueue(p, j)
    /\ UNCHANGED <<files, life, pc, attempt, found, accepting, bounds, history>>

Orphaned(p, jobs) ==
    [j \in Jobs |-> IF j \in jobs /\ claim[j] = p THEN Orphan ELSE claim[j]]

Crash(p) ==
    /\ crashes < MaxCrashes
    /\ life[p] # "down"
    /\ life' = [life EXCEPT ![p] = "down"]
    /\ queue' = [queue EXCEPT ![p] = <<>>]
    /\ pc' = [pc EXCEPT ![p] = [j \in Jobs |-> "idle"]]
    /\ found' = [found EXCEPT ![p] = {}]
    /\ accepting' = [accepting EXCEPT ![p] = {}]
    /\ claim' = Orphaned(p, Jobs)
    /\ crashes' = crashes + 1
    /\ UNCHANGED <<status, waiting, stale, cancel, attempt, submits, yields,
                   stops, cancels, history>>

\* stop: every worker task is cancelled at the await it is suspended in.  A
\* task already in the finally block of _run_job loses its release when it is
\* caught waiting for the heartbeat task ("skipped").
BeginStop(p) ==
    /\ stops < MaxStops
    /\ life[p] = "up" /\ LoopFree(p)
    /\ life' = [life EXCEPT ![p] = "stopping"]
    /\ queue' = [queue EXCEPT ![p] = <<>>]
    /\ accepting' = [accepting EXCEPT ![p] = {}]
    /\ \E skipped \in SUBSET {j \in Jobs : pc[p][j] = "ending"} :
          /\ pc' = [pc EXCEPT ![p] = [j \in Jobs |->
                       IF j \in skipped THEN "idle"
                       ELSE IF pc[p][j] \in Unwinding THEN "ending"
                       ELSE IF pc[p][j] \in Running THEN "cancelling"
                       ELSE pc[p][j]]]
          /\ claim' = Orphaned(p, skipped)
    /\ stops' = stops + 1
    /\ UNCHANGED <<status, waiting, stale, cancel, attempt, found, submits,
                   yields, crashes, cancels, history>>

Stopped(p) ==
    /\ life[p] = "stopping" /\ Active(p) = {}
    /\ life' = [life EXCEPT ![p] = "down"]
    /\ UNCHANGED <<files, queue, pc, attempt, found, accepting, bounds, history>>

-----------------------------------------------------------------------------
(* A worker task: taking the claim (_worker_loop, _run_job,                *)
(* _acquire_claim).                                                        *)

Dequeue(p) ==
    /\ life[p] \in {"starting", "up"} /\ LoopFree(p)
    /\ queue[p] # <<>>
    /\ Cardinality(Active(p)) < MaxWorkers
    /\ queue' = [queue EXCEPT ![p] = Tail(@)]
    /\ Goto(p, Head(queue[p]), "create")
    /\ attempt' = [attempt EXCEPT ![p] = 1]
    /\ UNCHANGED <<files, life, found, accepting, bounds, history>>

\* Mutant of NextAttempt: the loop has no last iteration.
NextAttemptForever(p, j) ==
    /\ Goto(p, j, "create")
    /\ attempt' = [attempt EXCEPT ![p] = @ + 1]

\* continue: a second iteration, after which the job is given up.
NextAttempt(p, j) ==
    /\ Goto(p, j, IF attempt[p] = 1 THEN "create" ELSE "idle")
    /\ attempt' = [attempt EXCEPT ![p] = 2]

\* open("x"): creates the claim file or fails because it exists.
CreateClaim(p, j) ==
    /\ pc[p][j] = "create"
    /\ IF claim[j] = NoOne
       THEN /\ claim' = [claim EXCEPT ![j] = p]
            /\ Goto(p, j, "claimed")
       ELSE /\ Goto(p, j, "stat")
            /\ UNCHANGED claim
    /\ UNCHANGED <<status, waiting, stale, cancel, life, queue, attempt, found,
                   accepting, bounds, history>>

\* Mutant of StatClaim: the age of the claim is not compared with the TTL.
StatClaimIgnoringAge(p, j) ==
    /\ pc[p][j] = "stat"
    /\ IF claim[j] = NoOne
       THEN NextAttempt(p, j)
       ELSE Goto(p, j, "unlink") /\ UNCHANGED attempt
    /\ UNCHANGED <<files, life, queue, found, accepting, bounds, history>>

StatClaim(p, j) ==
    /\ pc[p][j] = "stat"
    /\ \/ /\ claim[j] = NoOne
          /\ NextAttempt(p, j)
       \/ /\ claim[j] # NoOne /\ j \notin stale
          /\ Goto(p, j, "idle")
          /\ UNCHANGED attempt
       \/ /\ claim[j] # NoOne /\ j \in stale
          /\ Goto(p, j, "unlink")
          /\ UNCHANGED attempt
    /\ UNCHANGED <<files, life, queue, found, accepting, bounds, history>>

\* unlink by path: whatever claim is there by now.
UnlinkStaleClaim(p, j) ==
    /\ pc[p][j] = "unlink"
    /\ claim' = [claim EXCEPT ![j] = NoOne]
    /\ stale' = stale \ {j}
    /\ NextAttempt(p, j)
    /\ UNCHANGED <<status, waiting, cancel, life, queue, found, accepting,
                   bounds, history>>

-----------------------------------------------------------------------------
(* The claimed job: the status check of _run_job and _run_pipeline.        *)

\* Mutant of EnterPipeline: a request of an earlier analysis is not dropped.
EnterPipelineKeepingRequest(p, j) ==
    /\ pc[p][j] = "claimed"
    /\ Goto(p, j, IF status[j] \notin Resumable THEN "ending"
                  ELSE IF cancel[j] # "none" THEN "cancelling" ELSE "started")
    /\ UNCHANGED <<files, life, queue, attempt, found, accepting, bounds, history>>

\* Mutant of EnterPipeline: the status is not looked at once more under the
\* claim.
EnterPipelineUnchecked(p, j) ==
    /\ pc[p][j] = "claimed"
    /\ cancel' = [cancel EXCEPT ![j] = IF @ = "older" THEN "none" ELSE @]
    /\ Goto(p, j, IF cancel[j] = "newer" THEN "cancelling" ELSE "started")
    /\ UNCHANGED <<status, waiting, claim, stale, life, queue, attempt, found,
                   accepting, bounds, history>>

\* A request older than status.json is dropped; one that is kept is seen
\* before the inner task runs at all.
EnterPipeline(p, j) ==
    /\ pc[p][j] = "claimed"
    /\ IF status[j] \notin Resumable
       THEN /\ Goto(p, j, "ending")
            /\ UNCHANGED cancel
       ELSE /\ cancel' = [cancel EXCEPT ![j] = IF @ = "older" THEN "none" ELSE @]
            /\ Goto(p, j, IF cancel[j] = "newer" THEN "cancelling" ELSE "started")
    /\ UNCHANGED <<status, waiting, claim, stale, life, queue, attempt, found,
                   accepting, bounds, history>>

\* The body writes "processing", first and at each stage it reaches.
WriteProcessing(p, j) ==
    /\ pc[p][j] \in {"started", "working"} /\ LoopFree(p)
    /\ WriteStatus(j, "processing")
    /\ waiting' = waiting \ {j}
    /\ Goto(p, j, "working")
    /\ UNCHANGED <<claim, stale, life, queue, attempt, found, accepting, bounds,
                   history>>

\* The body ends with a result, or with an error wherever it was.
BodyEnds(p, j) ==
    /\ LoopFree(p)
    /\ \/ pc[p][j] = "working" /\ WriteStatus(j, "done")
       \/ pc[p][j] \in {"started", "working"} /\ WriteStatus(j, "error")
    /\ waiting' = waiting \ {j}
    /\ Goto(p, j, "returned")
    /\ UNCHANGED <<claim, stale, life, queue, attempt, found, accepting, bounds,
                   history>>

\* The OCR round used up its soft budget: back to the queue, not before 5 s.
BodyYields(p, j) ==
    /\ pc[p][j] = "working" /\ LoopFree(p)
    /\ yields[j] < MaxYields
    /\ WriteStatus(j, "queued")
    /\ waiting' = waiting \cup {j}
    /\ yields' = [yields EXCEPT ![j] = @ + 1]
    /\ Goto(p, j, "returned")
    /\ UNCHANGED <<claim, stale, life, queue, attempt, found, accepting,
                   submits, crashes, stops, cancels, history>>

\* The waiting loop wakes up at least once a second while the body runs.
InterruptBody(p, j) ==
    /\ pc[p][j] \in {"started", "working"} /\ LoopFree(p)
    /\ \/ cancel[j] # "none" /\ Goto(p, j, "cancelling")
       \/ cancel[j] = "none" /\ Goto(p, j, "timing_out")
    /\ UNCHANGED <<files, life, queue, attempt, found, accepting, bounds, history>>

\* The inner task has unwound; the error status is written.
WriteInterrupted(p, j) ==
    /\ pc[p][j] \in Unwinding /\ LoopFree(p)
    /\ WriteStatus(j, IF pc[p][j] = "cancelling" THEN "cancelled" ELSE "error")
    /\ waiting' = waiting \ {j}
    /\ Goto(p, j, "ending")
    /\ UNCHANGED <<claim, stale, life, queue, attempt, found, accepting, bounds,
                   history>>

\* The final status is read back and rewritten with the timing fields only.
ReturnFromPipeline(p, j) ==
    /\ pc[p][j] = "returned" /\ LoopFree(p)
    /\ Goto(p, j, "ending")
    /\ UNCHANGED <<files, life, queue, attempt, found, accepting, bounds, history>>

\* The heartbeat refreshes the claim only while it holds the run's own token.
Heartbeat(p, j) ==
    /\ pc[p][j] \in Running /\ LoopFree(p)
    /\ claim[j] = p /\ j \in stale
    /\ stale' = stale \ {j}
    /\ UNCHANGED <<status, waiting, claim, cancel, procs, bounds, history>>

\* _release_claim: read the token ...
CheckOwnClaim(p, j) ==
    /\ pc[p][j] = "ending" /\ LoopFree(p)
    /\ Goto(p, j, IF claim[j] = p THEN "release" ELSE "idle")
    /\ UNCHANGED <<files, life, queue, attempt, found, accepting, bounds, history>>

\* ... and unlink by path.
UnlinkOwnClaim(p, j) ==
    /\ pc[p][j] = "release"
    /\ claim' = [claim EXCEPT ![j] = NoOne]
    /\ stale' = stale \ {j}
    /\ Goto(p, j, "idle")
    /\ UNCHANGED <<status, waiting, cancel, life, queue, attempt, found,
                   accepting, bounds, history>>

-----------------------------------------------------------------------------

\* What the worker task for j does by itself, up to its return to queue.get.
TaskStep(p, j) ==
    \/ CreateClaim(p, j) \/ StatClaim(p, j) \/ UnlinkStaleClaim(p, j)
    \/ EnterPipeline(p, j) \/ WriteProcessing(p, j) \/ BodyEnds(p, j)
    \/ BodyYields(p, j) \/ InterruptBody(p, j) \/ WriteInterrupted(p, j)
    \/ ReturnFromPipeline(p, j) \/ CheckOwnClaim(p, j) \/ UnlinkOwnClaim(p, j)

ProcessStep(p) ==
    \/ Start(p) \/ EndResume(p) \/ Crash(p) \/ BeginStop(p) \/ Stopped(p)
    \/ Dequeue(p)

Next ==
    \/ \E p \in Instances : ProcessStep(p)
    \/ \E j \in Jobs : Submit(j) \/ CancelJob(j) \/ RetryDue(j) \/ Expire(j)
    \/ \E p \in Instances, j \in Jobs :
          \/ SubmitLocal(p, j) \/ EnqueueAccepted(p, j) \/ MarkRequeued(p, j)
          \/ Poll(p, j) \/ Heartbeat(p, j) \/ TaskStep(p, j)

SafetySpec == Init /\ [][Next]_vars

\* The event loop runs ready callbacks in FIFO order, so that a task that is
\* ready again and again is run (SF); a body ends because _run_pipeline gives
\* it a wall-clock limit; a process that is down is started again; an orphan
\* ages.  Requests, cancellations, crashes, stops and stalls need not happen.
Fairness ==
    /\ \A p \in Instances :
          /\ WF_vars(Start(p)) /\ WF_vars(EndResume(p)) /\ WF_vars(Stopped(p))
          /\ SF_vars(Dequeue(p))
    /\ \A p \in Instances, j \in Jobs :
          /\ SF_vars(MarkRequeued(p, j)) /\ SF_vars(Poll(p, j))
          /\ SF_vars(TaskStep(p, j) /\ pc' # pc)
    /\ \A j \in Jobs : WF_vars(RetryDue(j)) /\ WF_vars(claim[j] = Orphan /\ Expire(j))

Spec == SafetySpec /\ Fairness

-----------------------------------------------------------------------------
(* Properties.                                                             *)

\* As long as no claim on a job has outlived its TTL, the run of the job is
\* the one whose token is in the claim file; so two processes never analyse
\* the same job (_acquire_claim, _release_claim, _run_job).
ClaimGuardsRun ==
    \A p \in Instances, j \in Jobs \ expired :
        pc[p][j] \in Holding => claim[j] = p

\* A finished job is reopened by an accepted request only: neither a stale
\* queue entry, nor a second worker, nor a restart runs it again.
TerminalIsFinal ==
    [][\A j \in Jobs \ expired' :
          status[j] \in Terminal /\ status'[j] \notin Terminal
            => submits'[j] > submits[j]]_vars

\* status.json says "pipeline_cancelled" (cancel_requested: true) only when
\* the user cancelled this analysis: a request left over from an earlier one
\* is told apart by its ts (_run_pipeline, cancel_job).
OnlyUserCancels ==
    \A j \in Jobs \ expired : status[j] = "cancelled" => j \in owed

\* The queue keeps the promise of JobContract: an accepted job stays active
\* until its analysis ends, it does end, and nothing else reopens it.
Contract == INSTANCE JobContract WITH
    phase <- [j \in Jobs |->
                CASE status[j] = "queued" -> "queued"
                  [] status[j] = "processing" -> "running"
                  [] OTHER -> "ended"],
    accepted <- submits
KeepsContract == Contract!Spec
=============================================================================
