--------------------------- MODULE JobQueueProofs ---------------------------
(***************************************************************************)
(* Proofs about JobQueue, for any processes, any jobs and any bounds:      *)
(* type correctness, the guard that the claim file gives, the finality of  *)
(* a terminal status, that only the user cancels, the contract with the    *)
(* caller, and the bookkeeping of the worker tasks.                        *)
(***************************************************************************)
EXTENDS JobQueue, FiniteSetTheorems, TLAPS

-----------------------------------------------------------------------------
(* Type correctness.                                                       *)

\* The state only ever holds values of the declared shape (job_queue.py).
LEMMA TypeInit == Init => TypeOK
  BY QueueAssumption DEF Init, TypeOK, Statuses, Resumable, Terminal, Steps

\* Requests, cancellations and time keep the shape.
LEMMA TypeUser ==
  ASSUME TypeOK, NEW j \in Jobs,
         Submit(j) \/ CancelJob(j) \/ RetryDue(j) \/ Expire(j)
  PROVE  TypeOK'
<1>1. CASE Submit(j)
  BY <1>1 DEF Submit, AcceptRequest, WriteStatus, TypeOK, Statuses, Resumable, procs
<1>2. CASE CancelJob(j)
  BY <1>2 DEF CancelJob, TypeOK, procs
<1>3. CASE RetryDue(j)
  BY <1>3 DEF RetryDue, TypeOK, procs, bounds, history
<1>4. CASE Expire(j)
  BY <1>4 DEF Expire, TypeOK, procs, bounds
<1> QED BY <1>1, <1>2, <1>3, <1>4

\* The life of a process keeps the shape.
LEMMA TypeProcess ==
  ASSUME TypeOK, NEW p \in Instances, ProcessStep(p)
  PROVE  TypeOK'
<1>1. CASE Start(p)
  BY <1>1 DEF Start, TypeOK, files, bounds, history
<1>2. CASE EndResume(p)
  BY <1>2 DEF EndResume, TypeOK, files, bounds, history
<1>3. CASE Crash(p)
  BY <1>3 DEF Crash, Orphaned, TypeOK, Steps, history
<1>4. CASE BeginStop(p)
  BY <1>4 DEF BeginStop, Orphaned, TypeOK, Steps, Holding, Running, Unwinding, history
<1>5. CASE Stopped(p)
  BY <1>5 DEF Stopped, TypeOK, files, bounds, history
<1>6. CASE Dequeue(p)
  <2>1. queue[p] \in Seq(Jobs) /\ queue[p] # <<>>
    BY <1>6 DEF Dequeue, TypeOK
  <2>2. Head(queue[p]) \in Jobs /\ Tail(queue[p]) \in Seq(Jobs)
    BY <2>1
  <2> QED BY <1>6, <2>2 DEF Dequeue, Goto, TypeOK, Steps, Synchronous, files, bounds, history
<1> QED BY <1>1, <1>2, <1>3, <1>4, <1>5, <1>6 DEF ProcessStep

\* enqueue keeps every queue a sequence of jobs.
LEMMA EnqueueType ==
  ASSUME TypeOK, NEW p \in Instances, NEW j \in Jobs, Enqueue(p, j)
  PROVE  queue' \in [Instances -> Seq(Jobs)]
<1>1. Append(queue[p], j) \in Seq(Jobs)
  BY DEF TypeOK
<1> QED BY <1>1 DEF Enqueue, TypeOK

\* What a process does about one job outside its worker tasks.
LEMMA TypeDiscovery ==
  ASSUME TypeOK, NEW p \in Instances, NEW j \in Jobs,
         \/ SubmitLocal(p, j) \/ EnqueueAccepted(p, j) \/ MarkRequeued(p, j)
         \/ Poll(p, j) \/ Heartbeat(p, j)
  PROVE  TypeOK'
<1>1. CASE SubmitLocal(p, j)
  BY <1>1 DEF SubmitLocal, AcceptRequest, WriteStatus, TypeOK, Statuses, Resumable
<1>2. CASE EnqueueAccepted(p, j)
  BY <1>2, EnqueueType DEF EnqueueAccepted, TypeOK, files, bounds, history
<1>3. CASE MarkRequeued(p, j)
  BY <1>3, EnqueueType DEF MarkRequeued, WriteStatus, TypeOK, Statuses, Resumable, bounds, history
<1>4. CASE Poll(p, j)
  BY <1>4, EnqueueType DEF Poll, TypeOK, files, bounds, history
<1>5. CASE Heartbeat(p, j)
  BY <1>5 DEF Heartbeat, TypeOK, procs, bounds, history
<1> QED BY <1>1, <1>2, <1>3, <1>4, <1>5

\* A worker task moves to one of the steps of _worker_loop and _run_job.
LEMMA GotoType ==
  ASSUME TypeOK, NEW p \in Instances, NEW j \in Jobs, NEW step \in Steps,
         Goto(p, j, step)
  PROVE  pc' \in [Instances -> [Jobs -> Steps]]
  BY DEF TypeOK, Goto

\* The retry of _acquire_claim stays within its two attempts.
LEMMA NextAttemptType ==
  ASSUME TypeOK, NEW p \in Instances, NEW j \in Jobs, NextAttempt(p, j)
  PROVE  /\ pc' \in [Instances -> [Jobs -> Steps]]
         /\ attempt' \in [Instances -> 1..2]
<1>1. {"create", "idle"} \subseteq Steps
  BY DEF Steps, Synchronous
<1>2. pc' \in [Instances -> [Jobs -> Steps]]
  BY <1>1, GotoType DEF NextAttempt
<1>3. attempt' \in [Instances -> 1..2]
  <2>1. attempt \in [Instances -> 1..2] /\ 2 \in 1..2
    BY DEF TypeOK
  <2>2. attempt' = [attempt EXCEPT ![p] = 2]
    BY DEF NextAttempt
  <2> QED BY <2>1, <2>2, Zenon
<1> QED BY <1>2, <1>3

\* A worker task keeps the shape.
LEMMA TypeTask ==
  ASSUME TypeOK, NEW p \in Instances, NEW j \in Jobs, TaskStep(p, j)
  PROVE  TypeOK'
<1>s. Synchronous \cup Holding \cup {"idle"} \subseteq Steps
  BY DEF Steps
<1> USE DEF Synchronous, Holding, Running, Unwinding
<1>1. CASE CreateClaim(p, j)
  <2>0. Goto(p, j, "claimed") \/ Goto(p, j, "stat")
    BY <1>1, Zenon DEF CreateClaim
  <2>1. pc' \in [Instances -> [Jobs -> Steps]]
    BY <2>0, <1>s, GotoType
  <2>2. claim' \in [Jobs -> Instances \cup {NoOne, Orphan}]
    BY <1>1 DEF CreateClaim, TypeOK
  <2> QED BY <1>1, <2>1, <2>2 DEF CreateClaim, TypeOK, bounds, history
<1>2. CASE StatClaim(p, j)
  <2>1. /\ pc' \in [Instances -> [Jobs -> Steps]]
        /\ attempt' \in [Instances -> 1..2]
    <3>1. CASE NextAttempt(p, j)
      BY <3>1, NextAttemptType
    <3>2. CASE Goto(p, j, "idle") /\ UNCHANGED attempt
      BY <3>2, <1>s, GotoType DEF TypeOK
    <3>3. CASE Goto(p, j, "unlink") /\ UNCHANGED attempt
      BY <3>3, <1>s, GotoType DEF TypeOK
    <3> QED BY <1>2, <3>1, <3>2, <3>3 DEF StatClaim
  <2> QED BY <1>2, <2>1 DEF StatClaim, TypeOK, files, bounds, history
<1>3. CASE UnlinkStaleClaim(p, j)
  <2>1. /\ pc' \in [Instances -> [Jobs -> Steps]]
        /\ attempt' \in [Instances -> 1..2]
    BY <1>3, NextAttemptType DEF UnlinkStaleClaim
  <2> QED BY <1>3, <2>1 DEF UnlinkStaleClaim, TypeOK, bounds, history
<1>4. CASE EnterPipeline(p, j)
  <2>1. pc' \in [Instances -> [Jobs -> Steps]]
    BY <1>4, <1>s, GotoType DEF EnterPipeline
  <2>2. cancel' \in [Jobs -> {"none", "newer", "older"}]
    BY <1>4 DEF EnterPipeline, TypeOK
  <2> QED BY <1>4, <2>1, <2>2 DEF EnterPipeline, TypeOK, bounds, history
<1>5. CASE WriteProcessing(p, j)
  <2>1. pc' \in [Instances -> [Jobs -> Steps]]
    BY <1>5, <1>s, GotoType DEF WriteProcessing
  <2> QED BY <1>5, <2>1 DEF WriteProcessing, WriteStatus, TypeOK, Statuses,
                            Resumable, bounds, history
<1>6. CASE BodyEnds(p, j)
  <2>1. pc' \in [Instances -> [Jobs -> Steps]]
    BY <1>6, <1>s, GotoType DEF BodyEnds
  <2>2. WriteStatus(j, "done") \/ WriteStatus(j, "error")
    BY <1>6 DEF BodyEnds
  <2>3. /\ status' \in [Jobs -> Statuses]
        /\ cancel' \in [Jobs -> {"none", "newer", "older"}]
    BY <2>2 DEF WriteStatus, TypeOK, Statuses, Terminal
  <2> QED BY <1>6, <2>1, <2>3 DEF BodyEnds, TypeOK, bounds, history
<1>7. CASE BodyYields(p, j)
  <2>1. pc' \in [Instances -> [Jobs -> Steps]]
    BY <1>7, <1>s, GotoType DEF BodyYields
  <2> QED BY <1>7, <2>1 DEF BodyYields, WriteStatus, TypeOK, Statuses,
                            Resumable, history
<1>8. CASE InterruptBody(p, j)
  <2>1. pc' \in [Instances -> [Jobs -> Steps]]
    BY <1>8, <1>s, GotoType DEF InterruptBody
  <2> QED BY <1>8, <2>1 DEF InterruptBody, TypeOK, files, bounds, history
<1>9. CASE WriteInterrupted(p, j)
  <2>1. pc' \in [Instances -> [Jobs -> Steps]]
    BY <1>9, <1>s, GotoType DEF WriteInterrupted
  <2> QED BY <1>9, <2>1 DEF WriteInterrupted, WriteStatus, TypeOK, Statuses,
                            Terminal, bounds, history
<1>10. CASE ReturnFromPipeline(p, j)
  <2>1. pc' \in [Instances -> [Jobs -> Steps]]
    BY <1>10, <1>s, GotoType DEF ReturnFromPipeline
  <2> QED BY <1>10, <2>1 DEF ReturnFromPipeline, TypeOK, files, bounds, history
<1>11. CASE CheckOwnClaim(p, j)
  <2>1. pc' \in [Instances -> [Jobs -> Steps]]
    BY <1>11, <1>s, GotoType DEF CheckOwnClaim
  <2> QED BY <1>11, <2>1 DEF CheckOwnClaim, TypeOK, files, bounds, history
<1>12. CASE UnlinkOwnClaim(p, j)
  <2>1. pc' \in [Instances -> [Jobs -> Steps]]
    BY <1>12, <1>s, GotoType DEF UnlinkOwnClaim
  <2> QED BY <1>12, <2>1 DEF UnlinkOwnClaim, TypeOK, bounds, history
<1> QED BY <1>1, <1>2, <1>3, <1>4, <1>5, <1>6, <1>7, <1>8, <1>9, <1>10,
           <1>11, <1>12 DEF TaskStep

\* No step leaves the declared shape.
LEMMA TypeNext == TypeOK /\ [Next]_vars => TypeOK'
<1> SUFFICES ASSUME TypeOK, [Next]_vars PROVE TypeOK'
  OBVIOUS
<1>1. CASE UNCHANGED vars
  BY <1>1 DEF vars, files, procs, bounds, history, TypeOK
<1>2. CASE Next
  BY <1>2, TypeUser, TypeProcess, TypeDiscovery, TypeTask DEF Next
<1> QED BY <1>1, <1>2

\* TypeOK is an invariant of the queue.
THEOREM TypeCorrect == SafetySpec => []TypeOK
<1> QED BY TypeInit, TypeNext, PTL DEF SafetySpec

-----------------------------------------------------------------------------
(* The claim guards the run.  ClaimGuardsRun is not inductive by itself: a *)
(* contender about to unlink what it saw stale could remove a fresh claim. *)
(* Before the first claim on a job outlives its TTL there is no such       *)
(* contender, because no claim on the job is stale.                        *)

\* No contender for job j is about to remove a claim, and whoever believes
\* it holds the claim does (_acquire_claim, _release_claim).
ClaimInv ==
    \A j \in Jobs \ expired :
        /\ j \notin stale
        /\ \A p \in Instances :
              /\ pc[p][j] # "unlink"
              /\ pc[p][j] \in Holding => claim[j] = p

\* Nothing is held before the first process starts.
LEMMA ClaimInit == Init => ClaimInv
  BY DEF Init, ClaimInv, Holding, Running, Unwinding

\* A step that moves no worker task, touches no claim and ages none keeps
\* the invariant.
LEMMA ClaimFrame ==
  ASSUME ClaimInv, UNCHANGED <<pc, claim, expired>>, stale' \subseteq stale
  PROVE  ClaimInv'
  BY DEF ClaimInv

\* A worker task that moves from one step under the claim to another, or to
\* a step that neither holds nor removes a claim, keeps the invariant.
LEMMA ClaimMove ==
  ASSUME TypeOK, ClaimInv, NEW p \in Instances, NEW j \in Jobs, NEW step,
         Goto(p, j, step), UNCHANGED <<claim, expired>>, stale' \subseteq stale,
         step # "unlink", step \in Holding => pc[p][j] \in Holding
  PROVE  ClaimInv'
<1>1. \A q \in Instances, k \in Jobs :
         pc'[q][k] = IF q = p /\ k = j THEN step ELSE pc[q][k]
  BY DEF Goto, TypeOK
<1> QED BY <1>1 DEF ClaimInv

\* An unlink by path removes the task's own claim, or a claim on a job of
\* which the invariant says nothing any more.
LEMMA ClaimDrop ==
  ASSUME TypeOK, ClaimInv, NEW p \in Instances, NEW j \in Jobs, NEW step,
         Goto(p, j, step), step \notin Holding \cup {"unlink"},
         j \in expired \/ pc[p][j] \in Holding,
         claim' = [claim EXCEPT ![j] = NoOne], stale' = stale \ {j},
         UNCHANGED expired
  PROVE  ClaimInv'
<1>1. \A q \in Instances, k \in Jobs :
         pc'[q][k] = IF q = p /\ k = j THEN step ELSE pc[q][k]
  BY DEF Goto, TypeOK
<1>2. \A k \in Jobs : k # j => claim'[k] = claim[k]
  BY DEF TypeOK
<1>3. \A q \in Instances \ {p} : j \notin expired => pc[q][j] \notin Holding
  BY DEF ClaimInv
<1> QED BY <1>1, <1>2, <1>3 DEF ClaimInv

\* A process that goes away, or skips releases, orphans only claims of runs
\* it no longer has.
LEMMA ClaimOrphan ==
  ASSUME TypeOK, ClaimInv, NEW p \in Instances, NEW jobs \in SUBSET Jobs,
         NEW row \in [Jobs -> Steps], pc' = [pc EXCEPT ![p] = row],
         claim' = Orphaned(p, jobs), UNCHANGED <<stale, expired>>,
         \A j \in Jobs : /\ row[j] # "unlink"
                         /\ row[j] \in Holding => /\ pc[p][j] \in Holding
                                                  /\ j \notin jobs
  PROVE  ClaimInv'
<1>1. \A q \in Instances, k \in Jobs :
         pc'[q][k] = IF q = p THEN row[k] ELSE pc[q][k]
  BY DEF TypeOK
<1>2. \A k \in Jobs : claim'[k] = IF k \in jobs /\ claim[k] = p THEN Orphan ELSE claim[k]
  BY DEF Orphaned
<1> QED BY <1>1, <1>2 DEF ClaimInv

\* A worker task keeps the invariant.
LEMMA ClaimTask ==
  ASSUME TypeOK, ClaimInv, NEW p \in Instances, NEW j \in Jobs, TaskStep(p, j)
  PROVE  ClaimInv'
<1> USE DEF Holding, Running, Unwinding
<1>1. CASE CreateClaim(p, j)
  <2>1. CASE claim[j] = NoOne
    <3>1. /\ claim' = [claim EXCEPT ![j] = p]
          /\ Goto(p, j, "claimed")
          /\ UNCHANGED <<stale, expired>>
      BY <1>1, <2>1 DEF CreateClaim, history
    <3>2. \A q \in Instances, k \in Jobs :
             pc'[q][k] = IF q = p /\ k = j THEN "claimed" ELSE pc[q][k]
      BY <3>1 DEF Goto, TypeOK
    <3>3. \A k \in Jobs : claim'[k] = IF k = j THEN p ELSE claim[k]
      BY <3>1 DEF TypeOK
    <3>4. \A q \in Instances : j \notin expired => pc[q][j] \notin Holding
      BY <2>1, QueueAssumption DEF ClaimInv
    <3> QED BY <3>1, <3>2, <3>3, <3>4 DEF ClaimInv
  <2>2. CASE claim[j] # NoOne
    <3>1. Goto(p, j, "stat") /\ UNCHANGED <<claim, stale, expired>>
      BY <1>1, <2>2 DEF CreateClaim, history
    <3> QED BY <3>1, ClaimMove
  <2> QED BY <2>1, <2>2
<1>2. CASE StatClaim(p, j)
  <2>1. UNCHANGED <<claim, stale, expired>>
    BY <1>2 DEF StatClaim, files, history
  <2>2. CASE NextAttempt(p, j)
    BY <2>1, <2>2, ClaimMove DEF NextAttempt
  <2>3. CASE Goto(p, j, "idle")
    BY <2>1, <2>3, ClaimMove
  <2>4. CASE j \in stale /\ Goto(p, j, "unlink")
    <3>1. j \in expired
      BY <2>4 DEF ClaimInv
    <3>2. \A q \in Instances, k \in Jobs :
             pc'[q][k] = IF q = p /\ k = j THEN "unlink" ELSE pc[q][k]
      BY <2>4 DEF Goto, TypeOK
    <3> QED BY <2>1, <3>1, <3>2 DEF ClaimInv
  <2> QED BY <1>2, <2>2, <2>3, <2>4 DEF StatClaim
<1>3. CASE UnlinkStaleClaim(p, j)
  <2>1. j \in expired
    BY <1>3 DEF UnlinkStaleClaim, ClaimInv
  <2> QED BY <1>3, <2>1, ClaimDrop DEF UnlinkStaleClaim, NextAttempt, history
<1>4. CASE EnterPipeline(p, j)
  <2>1. \E step \in {"ending", "cancelling", "started"} : Goto(p, j, step)
    BY <1>4 DEF EnterPipeline
  <2> QED BY <1>4, <2>1, ClaimMove DEF EnterPipeline, history
<1>5. CASE WriteProcessing(p, j)
  BY <1>5, ClaimMove DEF WriteProcessing, history
<1>6. CASE BodyEnds(p, j)
  BY <1>6, ClaimMove DEF BodyEnds, history
<1>7. CASE BodyYields(p, j)
  BY <1>7, ClaimMove DEF BodyYields, history
<1>8. CASE InterruptBody(p, j)
  BY <1>8, ClaimMove DEF InterruptBody, files, history
<1>9. CASE WriteInterrupted(p, j)
  BY <1>9, ClaimMove DEF WriteInterrupted, history
<1>10. CASE ReturnFromPipeline(p, j)
  BY <1>10, ClaimMove DEF ReturnFromPipeline, files, history
<1>11. CASE CheckOwnClaim(p, j)
  <2>1. \E step \in {"release", "idle"} : Goto(p, j, step)
    BY <1>11 DEF CheckOwnClaim
  <2> QED BY <1>11, <2>1, ClaimMove DEF CheckOwnClaim, files, history
<1>12. CASE UnlinkOwnClaim(p, j)
  BY <1>12, ClaimDrop DEF UnlinkOwnClaim, history
<1> QED BY <1>1, <1>2, <1>3, <1>4, <1>5, <1>6, <1>7, <1>8, <1>9, <1>10,
           <1>11, <1>12 DEF TaskStep

\* The life of a process keeps the invariant.
LEMMA ClaimProcess ==
  ASSUME TypeOK, ClaimInv, NEW p \in Instances, ProcessStep(p)
  PROVE  ClaimInv'
<1>1. CASE Start(p)
  BY <1>1, ClaimFrame DEF Start, files, history
<1>2. CASE EndResume(p)
  BY <1>2, ClaimFrame DEF EndResume, files, history
<1>3. CASE Crash(p)
  <2> DEFINE row == [j \in Jobs |-> "idle"]
  <2>1. row \in [Jobs -> Steps]
    BY DEF Steps
  <2>2. /\ pc' = [pc EXCEPT ![p] = row]
        /\ claim' = Orphaned(p, Jobs)
        /\ UNCHANGED <<stale, expired>>
    BY <1>3 DEF Crash, history
  <2>3. \A j \in Jobs : row[j] # "unlink" /\ row[j] \notin Holding
    BY DEF Holding, Running, Unwinding
  <2> HIDE DEF row
  <2> QED BY <2>1, <2>2, <2>3, ClaimOrphan
<1>4. CASE BeginStop(p)
  <2> DEFINE row(skipped) == [j \in Jobs |->
                       IF j \in skipped THEN "idle"
                       ELSE IF pc[p][j] \in Unwinding THEN "ending"
                       ELSE IF pc[p][j] \in Running THEN "cancelling"
                       ELSE pc[p][j]]
  <2>1. PICK skipped \in SUBSET {j \in Jobs : pc[p][j] = "ending"} :
          /\ pc' = [pc EXCEPT ![p] = row(skipped)]
          /\ claim' = Orphaned(p, skipped)
          /\ UNCHANGED <<stale, expired>>
    BY <1>4 DEF BeginStop, history
  <2>2. \A j \in Jobs : pc[p][j] \in Steps /\ pc[p][j] # "unlink"
    BY <1>4 DEF BeginStop, LoopFree, Synchronous, TypeOK
  <2>3. row(skipped) \in [Jobs -> Steps]
    BY <2>2 DEF Steps, Holding, Running, Unwinding
  <2>4. \A j \in Jobs :
          /\ row(skipped)[j] # "unlink"
          /\ row(skipped)[j] \in Holding => pc[p][j] \in Holding /\ j \notin skipped
    BY <2>2 DEF Holding, Running, Unwinding
  <2>5. skipped \in SUBSET Jobs
    OBVIOUS
  <2> HIDE DEF row
  <2> QED BY <2>1, <2>3, <2>4, <2>5, ClaimOrphan
<1>5. CASE Stopped(p)
  BY <1>5, ClaimFrame DEF Stopped, files, history
<1>6. CASE Dequeue(p)
  <2>1. Head(queue[p]) \in Jobs
    <3>1. queue[p] \in Seq(Jobs) /\ queue[p] # <<>>
      BY <1>6 DEF Dequeue, TypeOK
    <3> QED BY <3>1
  <2>2. /\ Goto(p, Head(queue[p]), "create")
        /\ UNCHANGED <<claim, stale, expired>>
    BY <1>6 DEF Dequeue, files, history
  <2>3. "create" \notin Holding
    BY DEF Holding, Running, Unwinding
  <2> QED BY <2>1, <2>2, <2>3, ClaimMove
<1> QED BY <1>1, <1>2, <1>3, <1>4, <1>5, <1>6 DEF ProcessStep

\* Every step keeps the invariant.
LEMMA ClaimNext == TypeOK /\ ClaimInv /\ [Next]_vars => ClaimInv'
<1> SUFFICES ASSUME TypeOK, ClaimInv, [Next]_vars PROVE ClaimInv'
  OBVIOUS
<1>1. CASE UNCHANGED vars
  BY <1>1, ClaimFrame DEF vars, files, procs, history
<1>2. ASSUME NEW p \in Instances, ProcessStep(p) PROVE ClaimInv'
  BY <1>2, ClaimProcess
<1>3. ASSUME NEW j \in Jobs, Submit(j) \/ CancelJob(j) \/ RetryDue(j)
      PROVE  ClaimInv'
  BY <1>3, ClaimFrame DEF Submit, AcceptRequest, CancelJob, RetryDue, procs, history
<1>4. ASSUME NEW j \in Jobs, Expire(j) PROVE ClaimInv'
  BY <1>4 DEF Expire, procs, ClaimInv
<1>5. ASSUME NEW p \in Instances, NEW j \in Jobs,
             \/ SubmitLocal(p, j) \/ EnqueueAccepted(p, j)
             \/ MarkRequeued(p, j) \/ Poll(p, j) \/ Heartbeat(p, j)
      PROVE  ClaimInv'
  BY <1>5, ClaimFrame DEF SubmitLocal, AcceptRequest, EnqueueAccepted,
     MarkRequeued, Poll, Heartbeat, files, procs, history
<1>6. ASSUME NEW p \in Instances, NEW j \in Jobs, TaskStep(p, j) PROVE ClaimInv'
  BY <1>6, ClaimTask
<1> QED BY <1>1, <1>2, <1>3, <1>4, <1>5, <1>6 DEF Next

\* As long as no claim on a job has outlived its TTL, the run of the job is
\* the one whose token is in the claim file.
THEOREM ClaimGuards == SafetySpec => []ClaimGuardsRun
<1>1. Init => TypeOK /\ ClaimInv
  BY TypeInit, ClaimInit
<1>2. TypeOK /\ ClaimInv /\ [Next]_vars => TypeOK' /\ ClaimInv'
  BY TypeNext, ClaimNext
<1>3. ClaimInv => ClaimGuardsRun
  BY DEF ClaimInv, ClaimGuardsRun
<1> QED BY <1>1, <1>2, <1>3, PTL DEF SafetySpec

\* So two processes never run the pipeline of the same job.
THEOREM AtMostOneRun ==
  SafetySpec => [](\A j \in Jobs \ expired, p, q \in Instances :
                      pc[p][j] \in Running /\ pc[q][j] \in Running => p = q)
<1>1. ClaimGuardsRun => \A j \in Jobs \ expired, p, q \in Instances :
                           pc[p][j] \in Running /\ pc[q][j] \in Running => p = q
  BY DEF ClaimGuardsRun, Holding
<1> QED BY <1>1, ClaimGuards, PTL

-----------------------------------------------------------------------------
(* A terminal status is final, where processes do not rewrite what they    *)
(* read before they started (JOB_QUEUE_RESUME_ON_START off): a body that   *)
(* may still write "processing" or "queued" runs only while the status is  *)
(* not terminal, because nobody else writes it under the body's claim.     *)

\* A body runs only for a job whose status is not terminal, and no process
\* is in a resume pass (_run_job, start).
WorkInv ==
    /\ \A p \in Instances : life[p] # "starting"
    /\ \A p \in Instances, j \in Jobs \ expired :
          pc[p][j] \in {"started", "working"} => status[j] \in Resumable

\* A terminal status of j gives way only to an accepted request.
FinalStep ==
    \A j \in Jobs \ expired' :
        status[j] \in Terminal /\ status'[j] \notin Terminal
          => submits'[j] > submits[j]

\* The life of no process but p changes, and p enters no resume pass.
LifeKept == \A p \in Instances : life'[p] = "starting" => life[p] = "starting"

\* A step that writes no status and starts no body keeps the invariant.
LEMMA WorkFrame ==
  ASSUME WorkInv, UNCHANGED status, expired \subseteq expired', LifeKept,
         \A p \in Instances, j \in Jobs \ expired :
            pc'[p][j] \in {"started", "working"}
              => pc[p][j] \in {"started", "working"} \/ status[j] \in Resumable
  PROVE  WorkInv' /\ FinalStep
  BY DEF WorkInv, FinalStep, LifeKept

\* A running task that writes the status of its own job keeps the invariant:
\* as long as no claim of the job has expired it is the only one running it.
LEMMA WorkWrite ==
  ASSUME TypeOK, ClaimInv, WorkInv, NEW p \in Instances, NEW j \in Jobs,
         NEW s \in Statuses, NEW step, pc[p][j] \in Running,
         WriteStatus(j, s), Goto(p, j, step), UNCHANGED <<life, expired>>,
         s \in Terminal => step \notin {"started", "working"},
         s \in Resumable \/ s \in Terminal,
         s \in Resumable => pc[p][j] \in {"started", "working"}
  PROVE  WorkInv' /\ FinalStep
<1>1. \A q \in Instances, k \in Jobs :
         pc'[q][k] = IF q = p /\ k = j THEN step ELSE pc[q][k]
  BY DEF Goto, TypeOK
<1>2. \A k \in Jobs : status'[k] = IF k = j THEN s ELSE status[k]
  BY DEF WriteStatus, TypeOK
<1>3. \A q \in Instances \ {p} : j \notin expired => pc[q][j] \notin {"started", "working"}
  BY DEF ClaimInv, Holding, Running
<1>4. Resumable \cap Terminal = {}
  BY DEF Resumable, Terminal
<1>5. WorkInv'
  BY <1>1, <1>2, <1>3 DEF WorkInv
<1>6. FinalStep
  BY <1>2, <1>4 DEF WorkInv, FinalStep
<1> QED BY <1>5, <1>6

\* An accepted request writes "queued" and is counted.
LEMMA WorkAccept ==
  ASSUME TypeOK, WorkInv, NEW j \in Jobs, AcceptRequest(j), UNCHANGED <<life, pc>>
  PROVE  WorkInv' /\ FinalStep
<1>1. \A k \in Jobs : status'[k] = IF k = j THEN "queued" ELSE status[k]
  BY DEF AcceptRequest, WriteStatus, TypeOK
<1>2. submits'[j] > submits[j] /\ expired' = expired
  BY DEF AcceptRequest, TypeOK
<1> QED BY <1>1, <1>2 DEF WorkInv, FinalStep, Resumable

\* A worker task keeps the invariant and reopens nothing.
LEMMA WorkTask ==
  ASSUME TypeOK, ClaimInv, WorkInv, NEW p \in Instances, NEW j \in Jobs,
         TaskStep(p, j)
  PROVE  WorkInv' /\ FinalStep
<1>k. {"queued", "processing", "done", "error", "cancelled"} \subseteq Statuses
  BY DEF Statuses, Resumable, Terminal
<1>m. ASSUME NEW step, Goto(p, j, step),
             step \in {"started", "working"}
                => pc[p][j] \in {"started", "working"} \/ status[j] \in Resumable,
             UNCHANGED <<status, life, expired>>
      PROVE  WorkInv' /\ FinalStep
  <2>1. \A q \in Instances, k \in Jobs :
           pc'[q][k] = IF q = p /\ k = j THEN step ELSE pc[q][k]
    BY <1>m DEF Goto, TypeOK
  <2>2. \A q \in Instances, k \in Jobs \ expired :
            pc'[q][k] \in {"started", "working"}
              => pc[q][k] \in {"started", "working"} \/ status[k] \in Resumable
    BY <2>1, <1>m
  <2>3. LifeKept
    BY <1>m DEF LifeKept
  <2>4. expired \subseteq expired' /\ UNCHANGED status
    BY <1>m
  <2> QED BY <2>2, <2>3, <2>4, WorkFrame
<1>1. CASE CreateClaim(p, j)
  <2>1. Goto(p, j, "claimed") \/ Goto(p, j, "stat")
    BY <1>1, Zenon DEF CreateClaim
  <2> QED BY <1>1, <2>1, <1>m DEF CreateClaim, history
<1>2. CASE StatClaim(p, j)
  <2>1. \E step \in {"create", "idle", "unlink"} : Goto(p, j, step)
    BY <1>2 DEF StatClaim, NextAttempt
  <2> QED BY <1>2, <2>1, <1>m DEF StatClaim, files, history
<1>3. CASE UnlinkStaleClaim(p, j)
  <2>1. \E step \in {"create", "idle"} : Goto(p, j, step)
    BY <1>3 DEF UnlinkStaleClaim, NextAttempt
  <2> QED BY <1>3, <2>1, <1>m DEF UnlinkStaleClaim, history
<1>4. CASE EnterPipeline(p, j)
  <2>1. \E step \in {"ending", "cancelling", "started"} :
           Goto(p, j, step) /\ (step = "started" => status[j] \in Resumable)
    BY <1>4 DEF EnterPipeline
  <2> QED BY <1>4, <2>1, <1>m DEF EnterPipeline, history
<1>5. CASE WriteProcessing(p, j)
  BY <1>5, <1>k, WorkWrite DEF WriteProcessing, Resumable, Terminal, Running, history
<1>6. CASE BodyEnds(p, j)
  BY <1>6, <1>k, WorkWrite DEF BodyEnds, Resumable, Terminal, Running, history
<1>7. CASE BodyYields(p, j)
  BY <1>7, <1>k, WorkWrite DEF BodyYields, Resumable, Terminal, Running, history
<1>8. CASE InterruptBody(p, j)
  BY <1>8, <1>m DEF InterruptBody, files, history
<1>9. CASE WriteInterrupted(p, j)
  BY <1>9, <1>k, WorkWrite DEF WriteInterrupted, Resumable, Terminal, Running, history
<1>10. CASE ReturnFromPipeline(p, j)
  BY <1>10, <1>m DEF ReturnFromPipeline, files, history
<1>11. CASE CheckOwnClaim(p, j)
  <2>1. \E step \in {"release", "idle"} : Goto(p, j, step)
    BY <1>11 DEF CheckOwnClaim
  <2> QED BY <1>11, <2>1, <1>m DEF CheckOwnClaim, files, history
<1>12. CASE UnlinkOwnClaim(p, j)
  BY <1>12, <1>m DEF UnlinkOwnClaim, history
<1> QED BY <1>1, <1>2, <1>3, <1>4, <1>5, <1>6, <1>7, <1>8, <1>9, <1>10,
           <1>11, <1>12 DEF TaskStep

\* The life of a process keeps the invariant and reopens nothing.
LEMMA WorkProcess ==
  ASSUME ~ResumeOnStart, TypeOK, WorkInv, NEW p \in Instances, ProcessStep(p)
  PROVE  WorkInv' /\ FinalStep
<1>1. CASE Start(p) \/ EndResume(p) \/ Stopped(p)
  BY <1>1, WorkFrame DEF Start, EndResume, Stopped, LifeKept, files, history, TypeOK
<1>2. CASE Crash(p)
  <2>1. \A q \in Instances, k \in Jobs : pc'[q][k] = IF q = p THEN "idle" ELSE pc[q][k]
    BY <1>2 DEF Crash, TypeOK
  <2> QED BY <1>2, <2>1, WorkFrame DEF Crash, LifeKept, history, TypeOK
<1>3. CASE BeginStop(p)
  <2>1. \A q \in Instances, k \in Jobs :
           pc'[q][k] \in {"started", "working"} => pc'[q][k] = pc[q][k]
    BY <1>3 DEF BeginStop, TypeOK, Running, Unwinding
  <2> QED BY <1>3, <2>1, WorkFrame DEF BeginStop, LifeKept, history, TypeOK
<1>4. CASE Dequeue(p)
  <2>1. \A q \in Instances, k \in Jobs :
           pc'[q][k] \in {"started", "working"} => pc'[q][k] = pc[q][k]
    BY <1>4 DEF Dequeue, Goto, TypeOK
  <2> QED BY <1>4, <2>1, WorkFrame DEF Dequeue, LifeKept, files, history
<1> QED BY <1>1, <1>2, <1>3, <1>4 DEF ProcessStep

\* Every step keeps the invariant and reopens nothing.
LEMMA WorkNext ==
  ASSUME ~ResumeOnStart, TypeOK, ClaimInv, WorkInv, [Next]_vars
  PROVE  WorkInv' /\ FinalStep
<1>1. CASE UNCHANGED vars
  BY <1>1, WorkFrame DEF vars, files, procs, history, LifeKept
<1>2. ASSUME NEW p \in Instances, ProcessStep(p) PROVE WorkInv' /\ FinalStep
  BY <1>2, WorkProcess
<1>3. ASSUME NEW j \in Jobs, Submit(j) PROVE WorkInv' /\ FinalStep
  BY <1>3, WorkAccept DEF Submit, procs
<1>4. ASSUME NEW j \in Jobs, CancelJob(j) \/ RetryDue(j) \/ Expire(j)
      PROVE  WorkInv' /\ FinalStep
  BY <1>4, WorkFrame DEF CancelJob, RetryDue, Expire, LifeKept, procs, history
<1>5. ASSUME NEW p \in Instances, NEW j \in Jobs, SubmitLocal(p, j)
      PROVE  WorkInv' /\ FinalStep
  BY <1>5, WorkAccept DEF SubmitLocal
<1>6. ASSUME NEW p \in Instances, NEW j \in Jobs,
             EnqueueAccepted(p, j) \/ Poll(p, j) \/ Heartbeat(p, j)
      PROVE  WorkInv' /\ FinalStep
  BY <1>6, WorkFrame DEF EnqueueAccepted, Poll, Heartbeat, LifeKept, files,
     procs, history
<1>7. ASSUME NEW p \in Instances, NEW j \in Jobs, MarkRequeued(p, j)
      PROVE  WorkInv' /\ FinalStep
  BY <1>7 DEF MarkRequeued, WorkInv
<1>8. ASSUME NEW p \in Instances, NEW j \in Jobs, TaskStep(p, j)
      PROVE  WorkInv' /\ FinalStep
  BY <1>8, WorkTask
<1> QED BY <1>1, <1>2, <1>3, <1>4, <1>5, <1>6, <1>7, <1>8 DEF Next

\* A finished job is reopened by an accepted request only.
THEOREM TerminalStays ==
  ASSUME ~ResumeOnStart
  PROVE  SafetySpec => TerminalIsFinal
<1>1. Init => TypeOK /\ ClaimInv /\ WorkInv
  BY TypeInit, ClaimInit DEF Init, WorkInv
<1>2. TypeOK /\ ClaimInv /\ WorkInv /\ [Next]_vars
         => TypeOK' /\ ClaimInv' /\ WorkInv' /\ [FinalStep]_vars
  BY TypeNext, ClaimNext, WorkNext
<1>3. [FinalStep]_vars =>
         [\A j \in Jobs \ expired' :
             status[j] \in Terminal /\ status'[j] \notin Terminal
               => submits'[j] > submits[j]]_vars
  BY DEF FinalStep
<1> QED BY <1>1, <1>2, <1>3, PTL DEF SafetySpec, TerminalIsFinal
-----------------------------------------------------------------------------
(* Only the user cancels, up to the first graceful stop (a stop cancels    *)
(* the tasks of a process, and _run_pipeline takes any cancellation for    *)
(* the user's).  The request file is newer than status.json only if the    *)
(* user has asked since the last request for an analysis was accepted, and *)
(* a run that sees an older one has seen it grow old under its own writes. *)

\* A request or an interruption of a run that still holds the job is the user's.
UserRun(p, j) ==
    /\ pc[p][j] \in Unwinding => status[j] \in Resumable
    /\ pc[p][j] = "cancelling" => j \in owed
    /\ pc[p][j] \in {"started", "working"} /\ cancel[j] # "none" => j \in owed

UserInv ==
    /\ \A j \in Jobs : cancel[j] = "newer" => j \in owed
    /\ \A p \in Instances, j \in Jobs \ expired :
          pc[p][j] \in {"started", "working"} => status[j] \in Resumable
    /\ stops = 0 => /\ OnlyUserCancels
                    /\ \A p \in Instances, j \in Jobs \ expired : UserRun(p, j)

\* A step that leaves the status, the requests and what the user asked for
\* alone, and lets no run begin or be interrupted, keeps the invariant.
LEMMA UserFrame ==
  ASSUME UserInv, UNCHANGED <<status, cancel, owed>>, expired \subseteq expired',
         stops' = 0 => stops = 0,
         \A p \in Instances, j \in Jobs :
            pc'[p][j] \in {"started", "working"} \cup Unwinding => pc'[p][j] = pc[p][j]
  PROVE  UserInv'
<1>1. \A p \in Instances, j \in Jobs \ expired' :
         stops = 0 => UserRun(p, j) /\ (UserRun(p, j) => UserRun(p, j)')
  BY DEF UserInv, UserRun, Unwinding
<1> QED BY <1>1 DEF UserInv, OnlyUserCancels

\* The task p of job j moves, and leaves everything else of the invariant alone.
LEMMA UserMove ==
  ASSUME TypeOK, UserInv, NEW p \in Instances, NEW j \in Jobs, NEW step,
         Goto(p, j, step), UNCHANGED <<status, owed, expired, stops>>,
         cancel' = cancel \/ \E c \in {"none", "older"} :
                                cancel' = [cancel EXCEPT ![j] = IF @ = c THEN "none" ELSE @],
         step \in {"started", "working"} /\ j \notin expired => status[j] \in Resumable,
         stops = 0 /\ j \notin expired => UserRun(p, j)'
  PROVE  UserInv'
<1>1. \A q \in Instances, k \in Jobs :
         pc'[q][k] = IF q = p /\ k = j THEN step ELSE pc[q][k]
  BY DEF Goto, TypeOK
<1>2. \A k \in Jobs : cancel'[k] = cancel[k] \/ cancel'[k] = "none"
  BY DEF TypeOK
<1>3. \A q \in Instances, k \in Jobs \ expired :
         stops = 0 /\ (q # p \/ k # j) => UserRun(q, k)'
  BY <1>1, <1>2 DEF UserInv, UserRun
<1>4. \A q \in Instances, k \in Jobs \ expired : stops = 0 => UserRun(q, k)'
  BY <1>3
<1>5. \A k \in Jobs : cancel'[k] = "newer" => k \in owed
  BY <1>2 DEF UserInv
<1>6. \A q \in Instances, k \in Jobs \ expired :
         pc'[q][k] \in {"started", "working"} => status[k] \in Resumable
  BY <1>1 DEF UserInv
<1>7. stops = 0 => OnlyUserCancels'
  BY DEF UserInv, OnlyUserCancels
<1> QED BY <1>4, <1>5, <1>6, <1>7 DEF UserInv

\* A running task writes the status of its job.
LEMMA UserWrite ==
  ASSUME TypeOK, ClaimInv, UserInv, NEW p \in Instances, NEW j \in Jobs,
         NEW s \in Statuses, NEW step, pc[p][j] \in Running,
         WriteStatus(j, s), Goto(p, j, step), UNCHANGED <<owed, expired, stops>>,
         step \in {"started", "working", "returned", "ending"},
         step \in {"started", "working"} =>
            s \in Resumable /\ pc[p][j] \in {"started", "working"},
         s = "cancelled" => pc[p][j] = "cancelling"
  PROVE  UserInv'
<1>1. \A q \in Instances, k \in Jobs :
         pc'[q][k] = IF q = p /\ k = j THEN step ELSE pc[q][k]
  BY DEF Goto, TypeOK
<1>2. /\ \A k \in Jobs : status'[k] = IF k = j THEN s ELSE status[k]
      /\ \A k \in Jobs : k # j => cancel'[k] = cancel[k]
      /\ cancel'[j] # "newer" /\ (cancel[j] = "none" => cancel'[j] = "none")
  BY DEF WriteStatus, TypeOK
<1>3. \A q \in Instances \ {p} : j \notin expired => pc'[q][j] \notin Holding
  BY <1>1 DEF ClaimInv, Holding
<1>4. \A q \in Instances, k \in Jobs \ expired :
         pc'[q][k] \in {"started", "working"} => status'[k] \in Resumable
  BY <1>1, <1>2, <1>3 DEF UserInv, Holding, Running
<1>5. \A q \in Instances, k \in Jobs \ expired : stops = 0 => UserRun(q, k)'
  <2> SUFFICES ASSUME NEW q \in Instances, NEW k \in Jobs \ expired, stops = 0
               PROVE  UserRun(q, k)'
    OBVIOUS
  <2>1. UserRun(q, k)
    BY DEF UserInv
  <2>2. CASE k # j
    BY <1>1, <1>2, <2>1, <2>2 DEF UserRun
  <2>3. CASE k = j /\ q # p
    BY <1>3, <2>3 DEF UserRun, Holding, Running, Unwinding
  <2>4. CASE k = j /\ q = p
    BY <1>1, <1>2, <2>1, <2>4 DEF UserRun, Unwinding
  <2> QED BY <2>2, <2>3, <2>4
<1>6. stops = 0 => OnlyUserCancels'
  BY <1>2 DEF UserInv, OnlyUserCancels, UserRun
<1>7. \A k \in Jobs : cancel'[k] = "newer" => k \in owed
  BY <1>2 DEF UserInv
<1> QED BY <1>4, <1>5, <1>6, <1>7 DEF UserInv

\* "queued" is written by others than the run of the job: an accepted request,
\* which comes after the end of the run, or a resume pass.
LEMMA UserQueued ==
  ASSUME TypeOK, UserInv, NEW j \in Jobs, WriteStatus(j, "queued"),
         UNCHANGED <<pc, expired, stops>>,
         owed' = owed \/ (owed' = owed \ {j} /\ status[j] \notin Resumable)
  PROVE  UserInv'
<1>1. /\ \A k \in Jobs : status'[k] = IF k = j THEN "queued" ELSE status[k]
      /\ \A k \in Jobs : k # j => cancel'[k] = cancel[k]
      /\ cancel'[j] # "newer" /\ (cancel[j] = "none" => cancel'[j] = "none")
  BY DEF WriteStatus, TypeOK
<1>2. "queued" \in Resumable
  BY DEF Resumable
<1>3. \A q \in Instances, k \in Jobs \ expired : stops = 0 => UserRun(q, k)'
  <2> SUFFICES ASSUME NEW q \in Instances, NEW k \in Jobs \ expired, stops = 0
               PROVE  UserRun(q, k)'
    OBVIOUS
  <2>1. UserRun(q, k) /\ (pc[q][k] \in {"started", "working"} => status[k] \in Resumable)
    BY DEF UserInv
  <2>2. pc[q][k] = "cancelling" => status[k] \in Resumable
    BY <2>1 DEF UserRun, Unwinding
  <2> QED BY <1>1, <1>2, <2>1, <2>2 DEF UserRun
<1>4. stops = 0 => OnlyUserCancels'
  BY <1>1 DEF UserInv, OnlyUserCancels
<1>5. \A k \in Jobs : cancel'[k] = "newer" => k \in owed'
  BY <1>1 DEF UserInv
<1> QED BY <1>1, <1>2, <1>3, <1>4, <1>5 DEF UserInv
\* A worker task keeps the invariant.
LEMMA UserTask ==
  ASSUME TypeOK, ClaimInv, UserInv, NEW p \in Instances, NEW j \in Jobs,
         TaskStep(p, j)
  PROVE  UserInv'
<1>k. {"queued", "processing", "done", "error", "cancelled"} \subseteq Statuses
  BY DEF Statuses, Resumable, Terminal
<1>p. \A step : Goto(p, j, step) => pc'[p][j] = step
  BY DEF Goto, TypeOK
<1>m. ASSUME NEW step \in {"claimed", "stat", "create", "idle", "unlink", "ending", "release"},
             Goto(p, j, step), UNCHANGED <<status, cancel, owed, expired, stops>>
      PROVE  UserInv'
  <2>1. pc'[p][j] = step
    BY <1>m, <1>p
  <2>2. UserRun(p, j)'
    BY <2>1 DEF UserRun, Unwinding
  <2> QED BY <1>m, <2>2, UserMove
<1>1. CASE CreateClaim(p, j)
  <2>1. Goto(p, j, "claimed") \/ Goto(p, j, "stat")
    BY <1>1, Zenon DEF CreateClaim
  <2> QED BY <1>1, <2>1, <1>m DEF CreateClaim, bounds, history
<1>2. CASE StatClaim(p, j)
  <2>1. \E step \in {"create", "idle", "unlink"} : Goto(p, j, step)
    BY <1>2 DEF StatClaim, NextAttempt
  <2> QED BY <1>2, <2>1, <1>m DEF StatClaim, files, bounds, history
<1>3. CASE UnlinkStaleClaim(p, j)
  <2>1. \E step \in {"create", "idle"} : Goto(p, j, step)
    BY <1>3 DEF UnlinkStaleClaim, NextAttempt
  <2> QED BY <1>3, <2>1, <1>m DEF UnlinkStaleClaim, bounds, history
<1>4. CASE EnterPipeline(p, j)
  <2>1. CASE status[j] \notin Resumable
    BY <1>4, <2>1, <1>m DEF EnterPipeline, bounds, history
  <2>2. CASE status[j] \in Resumable
    <3>1. PICK step \in {"cancelling", "started"} :
             Goto(p, j, step) /\ (step = "cancelling" <=> cancel[j] = "newer")
      BY <1>4, <2>2 DEF EnterPipeline
    <3>2. /\ cancel' = [cancel EXCEPT ![j] = IF @ = "older" THEN "none" ELSE @]
          /\ UNCHANGED <<status, owed, expired, stops>>
      BY <1>4, <2>2 DEF EnterPipeline, bounds, history
    <3>3. pc'[p][j] = step
      BY <3>1, <1>p
    <3>4. cancel'[j] # "none" => cancel[j] = "newer"
      BY <3>2 DEF TypeOK
    <3>5. cancel[j] = "newer" => j \in owed
      BY DEF UserInv
    <3>6. UserRun(p, j)'
      BY <2>2, <3>1, <3>2, <3>3, <3>4, <3>5 DEF UserRun
    <3> QED BY <2>2, <3>1, <3>2, <3>6, UserMove
  <2> QED BY <2>1, <2>2
<1>5. CASE WriteProcessing(p, j)
  BY <1>5, <1>k, UserWrite DEF WriteProcessing, Resumable, Running, bounds, history
<1>6. CASE BodyEnds(p, j)
  BY <1>6, <1>k, UserWrite DEF BodyEnds, Running, bounds, history
<1>7. CASE BodyYields(p, j)
  BY <1>7, <1>k, UserWrite DEF BodyYields, Running, history
<1>8. CASE InterruptBody(p, j)
  <2>1. PICK step \in {"cancelling", "timing_out"} :
           Goto(p, j, step) /\ (step = "cancelling" => cancel[j] # "none")
    BY <1>8 DEF InterruptBody
  <2>2. /\ pc[p][j] \in {"started", "working"}
        /\ UNCHANGED <<status, cancel, owed, expired, stops>>
    BY <1>8 DEF InterruptBody, files, bounds, history
  <2>3. pc'[p][j] = step
    BY <2>1, <1>p
  <2>4. stops = 0 /\ j \notin expired => UserRun(p, j)'
    BY <2>1, <2>2, <2>3 DEF UserInv, UserRun
  <2> QED BY <2>1, <2>2, <2>4, UserMove
<1>9. CASE WriteInterrupted(p, j)
  BY <1>9, <1>k, UserWrite DEF WriteInterrupted, Running, bounds, history
<1>10. CASE ReturnFromPipeline(p, j)
  BY <1>10, <1>m DEF ReturnFromPipeline, files, bounds, history
<1>11. CASE CheckOwnClaim(p, j)
  <2>1. \E step \in {"release", "idle"} : Goto(p, j, step)
    BY <1>11 DEF CheckOwnClaim
  <2> QED BY <1>11, <2>1, <1>m DEF CheckOwnClaim, files, bounds, history
<1>12. CASE UnlinkOwnClaim(p, j)
  BY <1>12, <1>m DEF UnlinkOwnClaim, bounds, history
<1> QED BY <1>1, <1>2, <1>3, <1>4, <1>5, <1>6, <1>7, <1>8, <1>9, <1>10,
           <1>11, <1>12 DEF TaskStep

\* The life of a process keeps the invariant; a stop ends what it says.
LEMMA UserProcess ==
  ASSUME TypeOK, UserInv, NEW p \in Instances, ProcessStep(p)
  PROVE  UserInv'
<1>1. CASE Start(p) \/ EndResume(p) \/ Stopped(p)
  BY <1>1, UserFrame DEF Start, EndResume, Stopped, files, bounds, history
<1>2. CASE Crash(p)
  <2>1. \A q \in Instances, k \in Jobs : pc'[q][k] = IF q = p THEN "idle" ELSE pc[q][k]
    BY <1>2 DEF Crash, TypeOK
  <2>2. \A q \in Instances, k \in Jobs :
           pc'[q][k] \in {"started", "working"} \cup Unwinding => pc'[q][k] = pc[q][k]
    BY <2>1 DEF Unwinding
  <2> QED BY <1>2, <2>2, UserFrame DEF Crash, history
<1>3. CASE BeginStop(p)
  <2>1. stops' = stops + 1 /\ stops \in Nat
    BY <1>3 DEF BeginStop, TypeOK
  <2>2. stops' # 0
    BY <2>1
  <2>3. \A q \in Instances, k \in Jobs :
           pc'[q][k] \in {"started", "working"} => pc'[q][k] = pc[q][k]
    BY <1>3 DEF BeginStop, TypeOK, Running, Unwinding
  <2> QED BY <1>3, <2>2, <2>3 DEF BeginStop, UserInv, history
<1>4. CASE Dequeue(p)
  <2>1. \A q \in Instances, k \in Jobs :
           pc'[q][k] \in {"started", "working"} \cup Unwinding => pc'[q][k] = pc[q][k]
    BY <1>4 DEF Dequeue, Goto, TypeOK, Unwinding
  <2> QED BY <1>4, <2>1, UserFrame DEF Dequeue, files, bounds, history
<1> QED BY <1>1, <1>2, <1>3, <1>4 DEF ProcessStep

\* Every step keeps the invariant.
LEMMA UserNext ==
  ASSUME TypeOK, ClaimInv, UserInv, [Next]_vars
  PROVE  UserInv'
<1>1. CASE UNCHANGED vars
  BY <1>1, UserFrame DEF vars, files, procs, bounds, history
<1>2. ASSUME NEW p \in Instances, ProcessStep(p) PROVE UserInv'
  BY <1>2, UserProcess
<1>3. ASSUME NEW j \in Jobs, AcceptRequest(j), UNCHANGED pc PROVE UserInv'
  BY <1>3, UserQueued DEF AcceptRequest
<1>4. ASSUME NEW j \in Jobs, CancelJob(j) PROVE UserInv'
  <2>1. /\ UNCHANGED <<status, pc, expired, stops>> /\ owed' = owed \cup {j}
        /\ \A k \in Jobs : k # j => cancel'[k] = cancel[k]
    BY <1>4 DEF CancelJob, procs, TypeOK
  <2>2. \A q \in Instances, k \in Jobs \ expired : UserRun(q, k) => UserRun(q, k)'
    BY <2>1 DEF UserRun
  <2> QED BY <2>1, <2>2 DEF UserInv, OnlyUserCancels
<1>5. ASSUME NEW j \in Jobs, RetryDue(j) \/ Expire(j) PROVE UserInv'
  BY <1>5, UserFrame DEF RetryDue, Expire, procs, bounds, history
<1>6. ASSUME NEW p \in Instances, NEW j \in Jobs,
             EnqueueAccepted(p, j) \/ Poll(p, j) \/ Heartbeat(p, j)
      PROVE  UserInv'
  BY <1>6, UserFrame DEF EnqueueAccepted, Poll, Heartbeat, files, procs, bounds, history
<1>7. ASSUME NEW p \in Instances, NEW j \in Jobs, MarkRequeued(p, j) PROVE UserInv'
  BY <1>7, UserQueued DEF MarkRequeued, bounds, history
<1>8. ASSUME NEW p \in Instances, NEW j \in Jobs, TaskStep(p, j) PROVE UserInv'
  BY <1>8, UserTask
<1> QED BY <1>1, <1>2, <1>3, <1>4, <1>5, <1>6, <1>7, <1>8
        DEF Next, Submit, SubmitLocal, procs

\* status.json says "pipeline_cancelled" only for the user, with any number of
\* processes and crashes, and resume passes or none, until a process is stopped.
THEOREM UserCancels == SafetySpec => [](stops = 0 => OnlyUserCancels)
<1>1. Init => TypeOK /\ ClaimInv /\ UserInv
  BY TypeInit, ClaimInit
     DEF Init, UserInv, UserRun, OnlyUserCancels, Unwinding
<1>2. TypeOK /\ ClaimInv /\ UserInv /\ [Next]_vars => TypeOK' /\ ClaimInv' /\ UserInv'
  BY TypeNext, ClaimNext, UserNext
<1>3. UserInv => (stops = 0 => OnlyUserCancels)
  BY DEF UserInv
<1> QED BY <1>1, <1>2, <1>3, PTL DEF SafetySpec
-----------------------------------------------------------------------------
(* The queue implements the safety part of JobContract.  What both proofs  *)
(* need is that a job whose body runs, or that a resume pass is about to   *)
(* rewrite, is still active: then every write of a status is a step of the *)
(* contract, and a terminal status gives way to an accepted request only.  *)

StillActive ==
    \A p \in Instances, j \in Jobs :
        (pc[p][j] \in {"started", "working"} \/ (life[p] = "starting" /\ j \in found[p]))
            => status[j] \in Resumable

Phase(s) == CASE s = "queued" -> "queued"
              [] s = "processing" -> "running"
              [] OTHER -> "ended"

ContractStep == [Contract!Next]_(Contract!vars)

\* What the contract sees, and that it sees no step where no status is written.
LEMMA ContractFrame ==
  ASSUME UNCHANGED <<status, submits>>
  PROVE  ContractStep /\ FinalStep
  BY DEF ContractStep, Contract!vars, FinalStep

\* A status that is written while no request is accepted keeps an ended job ended.
LEMMA ContractWrite ==
  ASSUME TypeOK, NEW j \in Jobs, NEW s \in Statuses \ {"uploaded"}, WriteStatus(j, s),
         UNCHANGED submits, s \in Resumable => status[j] \in Resumable
  PROVE  ContractStep /\ FinalStep
<1> DEFINE phase == [k \in Jobs |-> Phase(status[k])]
<1>1. \A k \in Jobs : status'[k] = IF k = j THEN s ELSE status[k]
  BY DEF WriteStatus, TypeOK
<1>2. FinalStep
  BY <1>1 DEF FinalStep, Statuses, Resumable, Terminal
<1>3. phase' = [phase EXCEPT ![j] = Phase(s)]
  BY <1>1
<1>4. /\ Phase(status[j]) = "ended" => Phase(s) = "ended"
      /\ Phase(status[j]) \in {"queued", "running", "ended"}
      /\ Phase(s) \in {"queued", "running", "ended"}
  BY DEF Phase, Resumable, Statuses, Terminal
<1>5. phase[j] = Phase(status[j])
  OBVIOUS
<1>6. CASE Phase(s) = phase[j]
  <2>1. phase' = phase
    BY <1>3, <1>6
  <2> QED BY <1>2, <2>1 DEF ContractStep, Contract!vars, Phase
<1>7. CASE phase[j] = "queued" /\ Phase(s) = "running"
  <2>1. Contract!Begin(j)
    BY <1>3, <1>7 DEF Contract!Begin, Phase
  <2> QED BY <1>2, <2>1 DEF ContractStep, Contract!Next
<1>8. CASE phase[j] = "running" /\ Phase(s) = "queued"
  <2>1. Contract!Requeue(j)
    BY <1>3, <1>8 DEF Contract!Requeue, Phase
  <2> QED BY <1>2, <2>1 DEF ContractStep, Contract!Next
<1>9. CASE phase[j] # "ended" /\ Phase(s) = "ended"
  <2>1. Contract!End(j)
    BY <1>3, <1>9 DEF Contract!End, Phase
  <2> QED BY <1>2, <2>1 DEF ContractStep, Contract!Next
<1> QED BY <1>4, <1>5, <1>6, <1>7, <1>8, <1>9

\* An accepted request is the contract's.
LEMMA ContractAccept ==
  ASSUME TypeOK, NEW j \in Jobs, AcceptRequest(j)
  PROVE  ContractStep /\ FinalStep
<1> DEFINE phase == [k \in Jobs |-> Phase(status[k])]
<1>1. \A k \in Jobs : status'[k] = IF k = j THEN "queued" ELSE status[k]
  BY DEF AcceptRequest, WriteStatus, TypeOK
<1>2. submits' = [submits EXCEPT ![j] = @ + 1] /\ submits \in [Jobs -> Nat]
  BY DEF AcceptRequest, TypeOK
<1>3. FinalStep
  BY <1>1, <1>2 DEF FinalStep
<1>4. phase' = [phase EXCEPT ![j] = "queued"]
  BY <1>1 DEF Phase
<1>5. phase[j] = "ended"
  BY DEF AcceptRequest, Phase, Resumable
<1>6. Contract!Accept(j)
  BY <1>2, <1>4, <1>5 DEF Contract!Accept, Phase
<1> QED BY <1>3, <1>6 DEF ContractStep, Contract!Next

\* Every step of the queue is a step of the contract or invisible to it.
LEMMA ContractNext ==
  ASSUME TypeOK, StillActive, [Next]_vars
  PROVE  ContractStep /\ FinalStep
<1>k. {"queued", "processing", "done", "error", "cancelled"} \subseteq Statuses \ {"uploaded"}
  BY DEF Statuses, Resumable, Terminal
<1>1. CASE UNCHANGED vars
  BY <1>1, ContractFrame DEF vars, files, bounds
<1>2. ASSUME NEW p \in Instances, ProcessStep(p) PROVE ContractStep /\ FinalStep
  BY <1>2, ContractFrame DEF ProcessStep, Start, EndResume, Crash, BeginStop, Stopped,
     Dequeue, files, bounds
<1>3. ASSUME NEW j \in Jobs, AcceptRequest(j) PROVE ContractStep /\ FinalStep
  BY <1>3, ContractAccept
<1>4. ASSUME NEW j \in Jobs, CancelJob(j) \/ RetryDue(j) \/ Expire(j)
      PROVE  ContractStep /\ FinalStep
  BY <1>4, ContractFrame DEF CancelJob, RetryDue, Expire, bounds
<1>5. ASSUME NEW p \in Instances, NEW j \in Jobs,
             EnqueueAccepted(p, j) \/ Poll(p, j) \/ Heartbeat(p, j)
      PROVE  ContractStep /\ FinalStep
  BY <1>5, ContractFrame DEF EnqueueAccepted, Poll, Heartbeat, files, bounds
<1>6. ASSUME NEW p \in Instances, NEW j \in Jobs, MarkRequeued(p, j)
      PROVE  ContractStep /\ FinalStep
  <2>1. status[j] \in Resumable
    BY <1>6 DEF MarkRequeued, StillActive
  <2> QED BY <1>6, <1>k, <2>1, ContractWrite DEF MarkRequeued, bounds
<1>7. ASSUME NEW p \in Instances, NEW j \in Jobs, TaskStep(p, j)
      PROVE  ContractStep /\ FinalStep
  <2>1. pc[p][j] \in {"started", "working"} => status[j] \in Resumable
    BY DEF StillActive
  <2>2. CASE WriteProcessing(p, j)
    BY <1>k, <2>1, <2>2, ContractWrite DEF WriteProcessing, bounds
  <2>3. CASE BodyEnds(p, j)
    BY <1>k, <2>1, <2>3, ContractWrite DEF BodyEnds, bounds
  <2>4. CASE BodyYields(p, j)
    BY <1>k, <2>1, <2>4, ContractWrite DEF BodyYields
  <2>5. CASE WriteInterrupted(p, j)
    BY <1>k, <2>5, ContractWrite DEF WriteInterrupted, Resumable, bounds
  <2>6. CASE \/ CreateClaim(p, j) \/ StatClaim(p, j) \/ UnlinkStaleClaim(p, j)
             \/ EnterPipeline(p, j) \/ InterruptBody(p, j) \/ ReturnFromPipeline(p, j)
             \/ CheckOwnClaim(p, j) \/ UnlinkOwnClaim(p, j)
    BY <2>6, ContractFrame DEF CreateClaim, StatClaim, UnlinkStaleClaim, EnterPipeline,
       InterruptBody, ReturnFromPipeline, CheckOwnClaim, UnlinkOwnClaim, files, bounds
  <2> QED BY <1>7, <2>2, <2>3, <2>4, <2>5, <2>6 DEF TaskStep
<1> QED BY <1>1, <1>2, <1>3, <1>4, <1>5, <1>6, <1>7 DEF Next, Submit, SubmitLocal

\* At first no job has been asked for.
LEMMA ContractInit == Init => Contract!Init
  BY DEF Init, Contract!Init

\* With resume off, and as long as no claim has outlived its TTL, the processes
\* together keep the contract: an accepted job stays active until its analysis
\* ends, and only an accepted request makes it active again.
THEOREM ManyKeepContract ==
  ASSUME ~ResumeOnStart
  PROVE  SafetySpec /\ [](expired = {}) => Contract!SafetySpec
<1>1. Init => TypeOK /\ ClaimInv /\ WorkInv
  BY TypeInit, ClaimInit DEF Init, WorkInv
<1>2. TypeOK /\ ClaimInv /\ WorkInv /\ [Next]_vars => TypeOK' /\ ClaimInv' /\ WorkInv'
  BY TypeNext, ClaimNext, WorkNext
<1>3. WorkInv /\ expired = {} => StillActive
  BY DEF WorkInv, StillActive
<1>4. TypeOK /\ StillActive /\ [Next]_vars => [Contract!Next]_(Contract!vars)
  BY ContractNext DEF ContractStep
<1> QED BY <1>1, <1>2, <1>3, <1>4, ContractInit, PTL DEF SafetySpec, Contract!SafetySpec
-----------------------------------------------------------------------------
(* One process keeps the contract whatever happens, with its resume passes *)
(* and through crashes, stops and claims that age: a job that a resume     *)
(* pass has read and not yet rewritten is neither queued nor being run, so *)
(* that nothing ends it in between.                                        *)

OneProcess == \A p, q \in Instances : p = q

\* What a process knows of its jobs, from start through stop.
OneInv(p) ==
    /\ life[p] \in {"down", "stopping"} => queue[p] = <<>>
    /\ life[p] = "down" => \A j \in Jobs : pc[p][j] = "idle"
    /\ \A j \in found[p] : /\ life[p] = "starting" /\ status[j] \in Resumable
                           /\ pc[p][j] = "idle" /\ j \notin Enqueued(p)
    /\ \A j \in Jobs : pc[p][j] \in {"started", "working"} => status[j] \in Resumable

\* Enqueue adds at most the job itself to a queue.
LEMMA EnqueueIs ==
  ASSUME TypeOK, NEW p \in Instances, NEW j \in Jobs, Enqueue(p, j)
  PROVE  Enqueued(p)' \subseteq Enqueued(p) \cup {j}
<1>1. queue[p] \in Seq(Jobs) /\ queue \in [Instances -> Seq(Jobs)]
  BY DEF TypeOK
<1>2. queue'[p] = queue[p] \/ queue'[p] = Append(queue[p], j)
  BY <1>1 DEF Enqueue
<1>3. CASE queue'[p] = Append(queue[p], j)
  <2>1. /\ Len(Append(queue[p], j)) = Len(queue[p]) + 1
        /\ \A i \in 1..Len(queue[p]) + 1 :
              Append(queue[p], j)[i] = IF i <= Len(queue[p]) THEN queue[p][i] ELSE j
    BY <1>1
  <2>2. Len(queue[p]) \in Nat
    BY <1>1
  <2>3. \A i \in 1..Len(queue[p]) + 1 : i <= Len(queue[p]) => i \in 1..Len(queue[p])
    BY <2>2
  <2> QED BY <1>3, <2>1, <2>3 DEF Enqueued
<1> QED BY <1>2, <1>3 DEF Enqueued

\* Dequeue takes the head, and leaves no more than there was.
LEMMA DequeueIs ==
  ASSUME NEW q \in Seq(Jobs), q # <<>>
  PROVE  /\ \E i \in 1..Len(q) : q[i] = Head(q)
         /\ {Tail(q)[i] : i \in 1..Len(Tail(q))} \subseteq {q[i] : i \in 1..Len(q)}
<1>1. Len(q) \in Nat /\ Len(q) > 0 /\ Head(q) = q[1]
  OBVIOUS
<1>2. Len(Tail(q)) = Len(q) - 1 /\ \A i \in 1..Len(q) - 1 : Tail(q)[i] = q[i + 1]
  OBVIOUS
<1>3. \A i \in 1..Len(q) - 1 : i + 1 \in 1..Len(q)
  BY <1>1
<1> QED BY <1>1, <1>2, <1>3

\* A step that writes no status and starts no body, and adds nothing to what
\* the resume pass has found or to the queue.
LEMMA OneFrame ==
  ASSUME NEW p \in Instances, OneInv(p), UNCHANGED status,
         life'[p] = life[p], found'[p] \subseteq found[p], queue'[p] = queue[p],
         \A j \in Jobs : pc[p][j] = "idle" => pc'[p][j] = "idle",
         \A j \in Jobs : pc'[p][j] \in {"started", "working"} =>
             pc[p][j] \in {"started", "working"} \/ status[j] \in Resumable,
         found[p] \subseteq Jobs
  PROVE  OneInv(p)'
  BY DEF OneInv, Enqueued

\* A step of the worker task for j.
LEMMA OneTask ==
  ASSUME TypeOK, NEW p \in Instances, OneInv(p), NEW j \in Jobs, TaskStep(p, j)
  PROVE  OneInv(p)'
<1>1. /\ pc[p][j] # "idle" /\ UNCHANGED <<life, found, queue>>
      /\ \E step \in Steps :
            /\ Goto(p, j, step)
            /\ step \in {"started", "working"} => status'[j] \in Resumable
      /\ \A k \in Jobs \ {j} : status'[k] = status[k]
  <2>k. Synchronous \cup Holding \cup {"idle"} = Steps
    BY DEF Steps
  <2>w. ASSUME NEW s, WriteStatus(j, s)
        PROVE  \A k \in Jobs : status'[k] = IF k = j THEN s ELSE status[k]
    BY <2>w DEF WriteStatus, TypeOK
  <2> USE DEF Holding, Running, Unwinding, Synchronous
  <2>1. CASE CreateClaim(p, j)
    <3>1. Goto(p, j, "claimed") \/ Goto(p, j, "stat")
      BY <2>1, Zenon DEF CreateClaim
    <3> QED BY <2>1, <2>k, <3>1 DEF CreateClaim
  <2>2. CASE StatClaim(p, j)
    <3>1. \E step \in {"create", "idle", "unlink"} : Goto(p, j, step)
      BY <2>2 DEF StatClaim, NextAttempt
    <3> QED BY <2>2, <2>k, <3>1 DEF StatClaim, files
  <2>3. CASE UnlinkStaleClaim(p, j)
    <3>1. \E step \in {"create", "idle"} : Goto(p, j, step)
      BY <2>3 DEF UnlinkStaleClaim, NextAttempt
    <3> QED BY <2>3, <2>k, <3>1 DEF UnlinkStaleClaim
  <2>4. CASE EnterPipeline(p, j)
    <3>1. \E step \in {"ending", "cancelling", "started"} :
             Goto(p, j, step) /\ (step = "started" => status[j] \in Resumable)
      BY <2>4 DEF EnterPipeline
    <3> QED BY <2>4, <2>k, <3>1 DEF EnterPipeline
  <2>5. CASE WriteProcessing(p, j)
    BY <2>5, <2>k, <2>w DEF WriteProcessing, Resumable
  <2>6. CASE BodyEnds(p, j)
    BY <2>6, <2>k, <2>w DEF BodyEnds
  <2>7. CASE BodyYields(p, j)
    BY <2>7, <2>k, <2>w DEF BodyYields
  <2>8. CASE InterruptBody(p, j)
    BY <2>8, <2>k DEF InterruptBody, files
  <2>9. CASE WriteInterrupted(p, j)
    BY <2>9, <2>k, <2>w DEF WriteInterrupted
  <2>10. CASE ReturnFromPipeline(p, j)
    BY <2>10, <2>k DEF ReturnFromPipeline, files
  <2>11. CASE CheckOwnClaim(p, j)
    BY <2>11, <2>k DEF CheckOwnClaim, files
  <2>12. CASE UnlinkOwnClaim(p, j)
    BY <2>12, <2>k DEF UnlinkOwnClaim
  <2> QED BY <2>1, <2>2, <2>3, <2>4, <2>5, <2>6, <2>7, <2>8, <2>9, <2>10, <2>11, <2>12
          DEF TaskStep
<1>2. \A k \in Jobs : k # j => pc'[p][k] = pc[p][k]
  BY <1>1 DEF Goto, TypeOK
<1>3. pc'[p][j] \in {"started", "working"} => status'[j] \in Resumable
  BY <1>1 DEF Goto, TypeOK
<1>4. j \notin found[p] /\ life[p] # "down" /\ found[p] \subseteq Jobs
  BY <1>1 DEF OneInv, TypeOK
<1> QED BY <1>1, <1>2, <1>3, <1>4 DEF OneInv, Enqueued

\* An accepted request, and a job of the resume pass that is rewritten.
LEMMA OneQueued ==
  ASSUME TypeOK, NEW p \in Instances, OneInv(p), NEW j \in Jobs, WriteStatus(j, "queued"),
         UNCHANGED <<pc, life>>, found'[p] \subseteq found[p],
         Enqueued(p)' = Enqueued(p) \/ (Enqueued(p)' \subseteq Enqueued(p) \cup {j} /\ j \notin found'[p]),
         life[p] \in {"down", "stopping"} => queue'[p] = queue[p]
  PROVE  OneInv(p)'
<1>1. \A k \in Jobs : status'[k] = IF k = j THEN "queued" ELSE status[k]
  BY DEF WriteStatus, TypeOK
<1>2. found[p] \subseteq Jobs /\ "queued" \in Resumable
  BY DEF TypeOK, Resumable
<1> QED BY <1>1, <1>2 DEF OneInv

\* The life of the process.
LEMMA OneLife ==
  ASSUME TypeOK, NEW p \in Instances, OneInv(p), ProcessStep(p)
  PROVE  OneInv(p)'
<1>1. CASE Start(p)
  <2>1. /\ life[p] = "down" /\ UNCHANGED <<status, queue, pc>>
        /\ life'[p] \in {"starting", "up"}
        /\ \A j \in found'[p] : life'[p] = "starting" /\ j \in Jobs /\ status[j] \in Resumable
    BY <1>1 DEF Start, files, TypeOK
  <2>2. Enqueued(p)' = {}
    BY <2>1 DEF OneInv, Enqueued
  <2> QED BY <2>1, <2>2 DEF OneInv
<1>2. CASE EndResume(p)
  BY <1>2 DEF EndResume, OneInv, Enqueued, files, TypeOK
<1>3. CASE Crash(p)
  <2>1. /\ queue'[p] = <<>> /\ found'[p] = {} /\ UNCHANGED status
        /\ \A k \in Jobs : pc'[p][k] = "idle"
    BY <1>3 DEF Crash, TypeOK
  <2> QED BY <2>1 DEF OneInv
<1>4. CASE BeginStop(p)
  <2>1. /\ life[p] = "up" /\ life'[p] = "stopping" /\ queue'[p] = <<>> /\ UNCHANGED <<status, found>>
        /\ \A k \in Jobs : pc'[p][k] \in {"started", "working"} => pc'[p][k] = pc[p][k]
    BY <1>4 DEF BeginStop, TypeOK, Running, Unwinding
  <2> QED BY <2>1 DEF OneInv
<1>5. CASE Stopped(p)
  BY <1>5 DEF Stopped, OneInv, Enqueued, Active, files, TypeOK
<1>6. CASE Dequeue(p)
  <2>1. queue[p] \in Seq(Jobs) /\ queue[p] # <<>> /\ life[p] \in {"starting", "up"}
    BY <1>6 DEF Dequeue, TypeOK
  <2>2. PICK j : j = Head(queue[p])
    OBVIOUS
  <2>3. j \in Jobs /\ j \in Enqueued(p)
    BY <2>1, <2>2, DequeueIs DEF Enqueued
  <2>4. /\ UNCHANGED <<status, life, found>> /\ queue'[p] = Tail(queue[p])
        /\ pc'[p][j] = "create" /\ \A k \in Jobs : k # j => pc'[p][k] = pc[p][k]
    BY <1>6, <2>2, <2>3 DEF Dequeue, Goto, files, TypeOK
  <2>5. Enqueued(p)' \subseteq Enqueued(p)
    BY <2>1, <2>4, DequeueIs DEF Enqueued
  <2> QED BY <2>1, <2>3, <2>4, <2>5 DEF OneInv, TypeOK
<1> QED BY <1>1, <1>2, <1>3, <1>4, <1>5, <1>6 DEF ProcessStep

\* Every step of the only process, and of its users, keeps the invariant.
LEMMA OneNext ==
  ASSUME OneProcess, TypeOK, NEW p \in Instances, OneInv(p), [Next]_vars
  PROVE  OneInv(p)'
<1>f. found[p] \subseteq Jobs
  BY DEF TypeOK
<1>1. CASE UNCHANGED vars
  BY <1>1, <1>f, OneFrame DEF vars, files, procs
<1>2. ASSUME NEW q \in Instances, ProcessStep(q) PROVE OneInv(p)'
  BY <1>2, OneLife DEF OneProcess
<1>3. ASSUME NEW j \in Jobs, Submit(j) PROVE OneInv(p)'
  BY <1>3, OneQueued DEF Submit, AcceptRequest, procs, Enqueued
<1>4. ASSUME NEW j \in Jobs, CancelJob(j) \/ RetryDue(j) \/ Expire(j) PROVE OneInv(p)'
  BY <1>4, <1>f, OneFrame DEF CancelJob, RetryDue, Expire, procs
<1>5. ASSUME NEW q \in Instances, NEW j \in Jobs, SubmitLocal(q, j) PROVE OneInv(p)'
  BY <1>5, OneQueued DEF SubmitLocal, AcceptRequest, Enqueued
<1>6. ASSUME NEW q \in Instances, NEW j \in Jobs, EnqueueAccepted(q, j) \/ Poll(q, j)
      PROVE  OneInv(p)'
  <2>1. q = p /\ life[p] = "up" /\ UNCHANGED <<status, life, pc, found>>
    BY <1>6 DEF EnqueueAccepted, Poll, files, OneProcess
  <2> QED BY <2>1 DEF OneInv
<1>7. ASSUME NEW q \in Instances, NEW j \in Jobs, MarkRequeued(q, j) PROVE OneInv(p)'
  <2>1. /\ q = p /\ life[p] = "starting" /\ WriteStatus(j, "queued")
        /\ UNCHANGED <<pc, life>> /\ found'[p] = found[p] \ {j} /\ Enqueue(p, j)
    BY <1>7 DEF MarkRequeued, OneProcess, TypeOK
  <2>2. Enqueued(p)' \subseteq Enqueued(p) \cup {j}
    BY <2>1, EnqueueIs
  <2> QED BY <2>1, <2>2, OneQueued
<1>8. ASSUME NEW q \in Instances, NEW j \in Jobs, Heartbeat(q, j) PROVE OneInv(p)'
  BY <1>8, <1>f, OneFrame DEF Heartbeat, procs
<1>9. ASSUME NEW q \in Instances, NEW j \in Jobs, TaskStep(q, j) PROVE OneInv(p)'
  BY <1>9, OneTask DEF OneProcess
<1> QED BY <1>1, <1>2, <1>3, <1>4, <1>5, <1>6, <1>7, <1>8, <1>9 DEF Next

\* The invariant of the one process, as a whole.
LEMMA OneAlways ==
  ASSUME OneProcess
  PROVE  SafetySpec => [](TypeOK /\ StillActive)
<1>1. Init => TypeOK /\ \A p \in Instances : OneInv(p)
  BY TypeInit DEF Init, OneInv
<1>2. TypeOK /\ (\A p \in Instances : OneInv(p)) /\ [Next]_vars
         => TypeOK' /\ (\A p \in Instances : OneInv(p))'
  BY TypeNext, OneNext
<1>3. (\A p \in Instances : OneInv(p)) => StillActive
  BY DEF OneInv, StillActive
<1> QED BY <1>1, <1>2, <1>3, PTL DEF SafetySpec

\* A single process implements the safety part of JobContract through crashes,
\* stops, resume passes, OCR rounds and claims that outlive their TTL.
THEOREM OneKeepsContract ==
  ASSUME OneProcess
  PROVE  SafetySpec => Contract!SafetySpec
<1>1. TypeOK /\ StillActive /\ [Next]_vars => [Contract!Next]_(Contract!vars)
  BY ContractNext DEF ContractStep
<1> QED BY <1>1, OneAlways, ContractInit, PTL DEF SafetySpec, Contract!SafetySpec

\* With a single process a finished job is reopened by an accepted request only,
\* though the process resumes its jobs on every start.
THEOREM OneTerminalStays ==
  ASSUME OneProcess
  PROVE  SafetySpec => TerminalIsFinal
<1>1. TypeOK /\ StillActive /\ [Next]_vars => [FinalStep]_vars
  BY ContractNext
<1>2. [FinalStep]_vars =>
         [\A j \in Jobs \ expired' :
             status[j] \in Terminal /\ status'[j] \notin Terminal
               => submits'[j] > submits[j]]_vars
  BY DEF FinalStep
<1> QED BY <1>1, <1>2, OneAlways, PTL DEF SafetySpec, TerminalIsFinal-----------------------------------------------------------------------------
(* The bookkeeping of one process: a job is enqueued once, and has at most *)
(* one worker task; there are no more tasks than workers; and a claim with *)
(* the token of the process belongs to one of its tasks.  The last rests   *)
(* on the first: a second task for a job would overwrite the one that has  *)
(* the claim.                                                              *)

WorkerInv(p) ==
    /\ \A a, b \in DOMAIN queue[p] : queue[p][a] = queue[p][b] => a = b
    /\ \A a \in DOMAIN queue[p] : pc[p][queue[p][a]] = "idle"
    /\ IsFiniteSet(Active(p)) /\ Cardinality(Active(p)) <= MaxWorkers
    /\ \A j \in Jobs : claim[j] = p => pc[p][j] \in Holding

\* The queue stays or is emptied, and no task begins.
LEMMA WorkerFrame ==
  ASSUME NEW p \in Instances, WorkerInv(p),
         queue'[p] = queue[p] \/ queue'[p] = <<>>,
         \A j \in Jobs : pc[p][j] = "idle" => pc'[p][j] = "idle",
         queue[p] \in Seq(Jobs),
         \A j \in Jobs : claim'[j] = p => pc'[p][j] \in Holding
  PROVE  WorkerInv(p)'
<1>1. Active(p)' \subseteq Active(p)
  BY DEF Active
<1>2. IsFiniteSet(Active(p)') /\ Cardinality(Active(p)') <= Cardinality(Active(p))
  BY <1>1, FS_Subset DEF WorkerInv
<1>3. Cardinality(Active(p)) \in Nat /\ Cardinality(Active(p)') \in Nat /\ MaxWorkers \in Nat
  BY <1>2, FS_CardinalityType, QueueAssumption DEF WorkerInv
<1>4. Cardinality(Active(p)') <= MaxWorkers
  BY <1>2, <1>3 DEF WorkerInv
<1>5. CASE queue'[p] = queue[p]
  <2>1. \A a \in DOMAIN queue[p] : queue[p][a] \in Jobs
    OBVIOUS
  <2> QED BY <1>2, <1>4, <1>5, <2>1 DEF WorkerInv
<1>6. CASE queue'[p] = <<>>
  BY <1>2, <1>4, <1>6 DEF WorkerInv
<1> QED BY <1>5, <1>6

\* A step of another process, which leaves this one alone.
LEMMA WorkerOther ==
  ASSUME TypeOK, NEW p \in Instances, WorkerInv(p), queue'[p] = queue[p], pc'[p] = pc[p],
         \A j \in Jobs : claim'[j] = p => claim[j] = p
  PROVE  WorkerInv(p)'
<1>1. queue[p] \in Seq(Jobs) /\ \A j \in Jobs : claim'[j] = p => pc'[p][j] \in Holding
  BY DEF TypeOK, WorkerInv
<1> QED BY <1>1, WorkerFrame

\* A job that is neither enqueued nor being run goes to the end of the queue.
LEMMA WorkerEnqueue ==
  ASSUME TypeOK, NEW p \in Instances, WorkerInv(p), NEW j \in Jobs, Enqueue(p, j),
         UNCHANGED <<pc, claim>>
  PROVE  WorkerInv(p)'
<1>1. queue[p] \in Seq(Jobs) /\ queue \in [Instances -> Seq(Jobs)]
  BY DEF TypeOK
<1>2. CASE j \in Enqueued(p) \cup Active(p)
  <2>1. queue'[p] = queue[p]
    BY <1>1, <1>2 DEF Enqueue
  <2> QED BY <2>1, WorkerOther
<1>3. CASE j \notin Enqueued(p) \cup Active(p)
  <2>1. queue'[p] = Append(queue[p], j)
    BY <1>1, <1>3 DEF Enqueue
  <2>2. /\ DOMAIN queue[p] = 1..Len(queue[p]) /\ Len(queue[p]) \in Nat
        /\ DOMAIN queue'[p] = 1..Len(queue[p]) + 1
        /\ queue'[p][Len(queue[p]) + 1] = j
        /\ \A a \in 1..Len(queue[p]) : queue'[p][a] = queue[p][a]
    BY <1>1, <2>1
  <2>3. pc[p][j] = "idle" /\ \A a \in 1..Len(queue[p]) : queue[p][a] # j
    BY <1>3 DEF Enqueued, Active
  <2>4. ASSUME NEW a \in DOMAIN queue'[p], NEW b \in DOMAIN queue'[p],
               queue'[p][a] = queue'[p][b]
        PROVE  a = b
    BY <2>2, <2>3, <2>4 DEF WorkerInv
  <2>5. \A a \in DOMAIN queue'[p] : pc'[p][queue'[p][a]] = "idle"
    BY <2>2, <2>3 DEF WorkerInv
  <2>6. Active(p)' = Active(p) /\ \A k \in Jobs : claim'[k] = p => pc'[p][k] \in Holding
    BY DEF Active, WorkerInv
  <2> QED BY <2>4, <2>5, <2>6 DEF WorkerInv
<1> QED BY <1>2, <1>3

\* A worker that is free takes the head of the queue.
LEMMA WorkerDequeue ==
  ASSUME TypeOK, NEW p \in Instances, WorkerInv(p), Dequeue(p)
  PROVE  WorkerInv(p)'
<1>1. queue[p] \in Seq(Jobs) /\ queue[p] # <<>> /\ Cardinality(Active(p)) < MaxWorkers
  BY DEF TypeOK, Dequeue
<1>2. PICK j : j = Head(queue[p])
  OBVIOUS
<1>3. /\ j \in Jobs /\ Len(queue[p]) \in Nat /\ Len(queue[p]) > 0
      /\ DOMAIN queue[p] = 1..Len(queue[p]) /\ queue[p][1] = j
  BY <1>1, <1>2
<1>4. /\ queue'[p] = Tail(queue[p]) /\ UNCHANGED claim
      /\ pc'[p][j] = "create" /\ \A k \in Jobs : k # j => pc'[p][k] = pc[p][k]
  BY <1>2, <1>3 DEF Dequeue, Goto, files, TypeOK
<1>5. /\ DOMAIN queue'[p] = 1..Len(queue[p]) - 1
      /\ \A a \in 1..Len(queue[p]) - 1 : queue'[p][a] = queue[p][a + 1] /\ a + 1 \in DOMAIN queue[p]
  BY <1>1, <1>3, <1>4
<1>6. ASSUME NEW a \in DOMAIN queue'[p], NEW b \in DOMAIN queue'[p], queue'[p][a] = queue'[p][b]
      PROVE  a = b
  <2>1. a + 1 = b + 1
    BY <1>5, <1>6 DEF WorkerInv
  <2> QED BY <1>3, <1>5, <2>1
<1>7. ASSUME NEW a \in DOMAIN queue'[p]
      PROVE  pc'[p][queue'[p][a]] = "idle"
  <2>1. a + 1 # 1 /\ a + 1 \in DOMAIN queue[p] /\ 1 \in DOMAIN queue[p] /\ queue'[p][a] = queue[p][a + 1]
    BY <1>3, <1>5
  <2>2. queue[p][a + 1] # j /\ queue[p][a + 1] \in Jobs
    BY <1>1, <1>3, <2>1 DEF WorkerInv
  <2> QED BY <1>4, <2>1, <2>2 DEF WorkerInv
<1>8. pc[p][j] = "idle"
  BY <1>3 DEF WorkerInv
<1>9. IsFiniteSet(Active(p)') /\ Cardinality(Active(p)') <= MaxWorkers
  <2>1. Active(p)' = Active(p) \cup {j} /\ j \notin Active(p)
    BY <1>3, <1>4, <1>8 DEF Active
  <2>2. IsFiniteSet(Active(p)') /\ Cardinality(Active(p)') = Cardinality(Active(p)) + 1
    BY <2>1, FS_AddElement DEF WorkerInv
  <2>3. Cardinality(Active(p)) \in Nat /\ MaxWorkers \in Nat
    BY FS_CardinalityType, QueueAssumption DEF WorkerInv
  <2> QED BY <1>1, <2>2, <2>3
<1>10. \A k \in Jobs : claim'[k] = p => pc'[p][k] \in Holding
  BY <1>4, <1>8 DEF WorkerInv, Holding, Running, Unwinding
<1> QED BY <1>6, <1>7, <1>9, <1>10 DEF WorkerInv

\* What a step of a worker task does to claims and tasks: it takes the claim
\* only as it comes to hold it, and lets go of it only as it stops.
LEMMA WorkerTaskIs ==
  ASSUME TypeOK, NEW q \in Instances, WorkerInv(q), NEW j \in Jobs, TaskStep(q, j)
  PROVE  /\ UNCHANGED queue /\ pc[q][j] # "idle"
         /\ \A p \in Instances, k \in Jobs : p # q \/ k # j => pc'[p][k] = pc[p][k]
         /\ \A k \in Jobs \ {j} : claim'[k] = claim[k]
         /\ claim'[j] \in {claim[j], NoOne, q}
         /\ claim'[j] = q => pc'[q][j] \in Holding
<1> USE DEF Holding, Running, Unwinding
<1>0. claim[j] = q => pc[q][j] \in Holding
  BY DEF WorkerInv
<1>g. ASSUME NEW step, Goto(q, j, step)
      PROVE  /\ pc'[q][j] = step
             /\ \A p \in Instances, k \in Jobs : p # q \/ k # j => pc'[p][k] = pc[p][k]
  BY <1>g DEF Goto, TypeOK
<1>q. q # NoOne
  BY QueueAssumption
<1>1. CASE CreateClaim(q, j)
  <2>1. CASE claim[j] = NoOne
    BY <1>g, <1>1, <2>1 DEF CreateClaim, TypeOK
  <2>2. CASE claim[j] # NoOne
    BY <1>0, <1>g, <1>1, <2>2 DEF CreateClaim
  <2> QED BY <2>1, <2>2
<1>2. CASE StatClaim(q, j)
  <2>1. \E step : Goto(q, j, step)
    BY <1>2 DEF StatClaim, NextAttempt
  <2> QED BY <1>0, <1>g, <1>2, <2>1 DEF StatClaim, files
<1>3. CASE UnlinkStaleClaim(q, j)
  <2>1. claim'[j] = NoOne /\ \A k \in Jobs \ {j} : claim'[k] = claim[k]
    BY <1>3 DEF UnlinkStaleClaim, TypeOK
  <2>2. \E step : Goto(q, j, step)
    BY <1>3 DEF UnlinkStaleClaim, NextAttempt
  <2> QED BY <1>g, <1>q, <1>3, <2>1, <2>2 DEF UnlinkStaleClaim
<1>4. CASE EnterPipeline(q, j)
  <2>1. \E step \in {"ending", "cancelling", "started"} : Goto(q, j, step)
    BY <1>4 DEF EnterPipeline
  <2> QED BY <1>g, <1>4, <2>1 DEF EnterPipeline
<1>5. CASE WriteProcessing(q, j)
  BY <1>g, <1>5 DEF WriteProcessing
<1>6. CASE BodyEnds(q, j)
  BY <1>g, <1>6 DEF BodyEnds
<1>7. CASE BodyYields(q, j)
  BY <1>g, <1>7 DEF BodyYields
<1>8. CASE InterruptBody(q, j)
  <2>1. \E step \in Unwinding : Goto(q, j, step)
    BY <1>8 DEF InterruptBody
  <2> QED BY <1>g, <1>8, <2>1 DEF InterruptBody, files
<1>9. CASE WriteInterrupted(q, j)
  BY <1>g, <1>9 DEF WriteInterrupted
<1>10. CASE ReturnFromPipeline(q, j)
  BY <1>g, <1>10 DEF ReturnFromPipeline, files
<1>11. CASE CheckOwnClaim(q, j)
  BY <1>g, <1>11 DEF CheckOwnClaim, files
<1>12. CASE UnlinkOwnClaim(q, j)
  <2>1. claim'[j] = NoOne /\ \A k \in Jobs \ {j} : claim'[k] = claim[k]
    BY <1>12 DEF UnlinkOwnClaim, TypeOK
  <2> QED BY <1>g, <1>q, <1>12, <2>1 DEF UnlinkOwnClaim
<1> QED BY <1>1, <1>2, <1>3, <1>4, <1>5, <1>6, <1>7, <1>8, <1>9, <1>10,
           <1>11, <1>12 DEF TaskStep
\* The life of a process.
LEMMA WorkerProcess ==
  ASSUME TypeOK, NEW q \in Instances, WorkerInv(q), ProcessStep(q)
  PROVE  /\ WorkerInv(q)'
         /\ \A p \in Instances \ {q} : queue'[p] = queue[p] /\ pc'[p] = pc[p]
         /\ \A j \in Jobs : claim'[j] \in {claim[j], Orphan}
<1> USE DEF TypeOK
<1>0. queue[q] \in Seq(Jobs) /\ q # Orphan
  BY QueueAssumption
<1>1. CASE Start(q) \/ EndResume(q) \/ Stopped(q)
  <2>1. UNCHANGED <<queue, pc, claim>>
    BY <1>1 DEF Start, EndResume, Stopped, files
  <2> QED BY <2>1, WorkerOther
<1>2. CASE Crash(q)
  <2>1. /\ queue'[q] = <<>> /\ \A j \in Jobs : pc'[q][j] = "idle"
        /\ \A p \in Instances \ {q} : queue'[p] = queue[p] /\ pc'[p] = pc[p]
        /\ \A j \in Jobs : claim'[j] = IF claim[j] = q THEN Orphan ELSE claim[j]
    BY <1>2 DEF Crash, Orphaned
  <2> QED BY <1>0, <2>1, WorkerFrame
<1>3. CASE BeginStop(q)
  <2>1. PICK skipped \in SUBSET {j \in Jobs : pc[q][j] = "ending"} :
            /\ pc' = [pc EXCEPT ![q] = [j \in Jobs |->
                         IF j \in skipped THEN "idle"
                         ELSE IF pc[q][j] \in Unwinding THEN "ending"
                         ELSE IF pc[q][j] \in Running THEN "cancelling"
                         ELSE pc[q][j]]]
            /\ claim' = Orphaned(q, skipped)
    BY <1>3 DEF BeginStop
  <2>2. /\ queue'[q] = <<>>
        /\ \A p \in Instances \ {q} : queue'[p] = queue[p] /\ pc'[p] = pc[p]
        /\ \A j \in Jobs : claim'[j] = IF j \in skipped /\ claim[j] = q THEN Orphan ELSE claim[j]
    BY <1>3, <2>1 DEF BeginStop, Orphaned
  <2>3. \A j \in Jobs : pc[q][j] = "idle" => pc'[q][j] = "idle"
    BY <2>1 DEF Running, Unwinding
  <2>4. \A j \in Jobs : claim'[j] = q => pc'[q][j] \in Holding
    BY <1>0, <2>1, <2>2 DEF WorkerInv, Holding, Running, Unwinding
  <2> QED BY <1>0, <2>2, <2>3, <2>4, WorkerFrame
<1>4. CASE Dequeue(q)
  BY <1>4, WorkerDequeue DEF Dequeue, Goto, files
<1> QED BY <1>1, <1>2, <1>3, <1>4 DEF ProcessStep

LEMMA WorkerNext ==
  ASSUME TypeOK, NEW p \in Instances, \A q \in Instances : WorkerInv(q), [Next]_vars
  PROVE  WorkerInv(p)'
<1>0. ASSUME UNCHANGED <<queue, pc, claim>> PROVE WorkerInv(p)'
  BY <1>0, WorkerOther
<1>p. p # NoOne /\ p # Orphan
  BY QueueAssumption
<1>1. CASE UNCHANGED vars
  BY <1>0, <1>1 DEF vars, files, procs
<1>2. ASSUME NEW q \in Instances, ProcessStep(q) PROVE WorkerInv(p)'
  <2>1. CASE q = p
    BY <1>2, <2>1, WorkerProcess
  <2>2. CASE q # p
    <3>1. /\ queue'[p] = queue[p] /\ pc'[p] = pc[p]
          /\ \A j \in Jobs : claim'[j] \in {claim[j], Orphan}
      BY <1>2, <2>2, WorkerProcess
    <3> QED BY <1>p, <3>1, WorkerOther
  <2> QED BY <2>1, <2>2
<1>3. ASSUME NEW j \in Jobs, Submit(j) \/ CancelJob(j) \/ RetryDue(j) \/ Expire(j)
      PROVE  WorkerInv(p)'
  BY <1>0, <1>3 DEF Submit, AcceptRequest, CancelJob, RetryDue, Expire, procs
<1>4. ASSUME NEW q \in Instances, NEW j \in Jobs, SubmitLocal(q, j) \/ Heartbeat(q, j)
      PROVE  WorkerInv(p)'
  BY <1>0, <1>4 DEF SubmitLocal, AcceptRequest, Heartbeat, procs
<1>5. ASSUME NEW q \in Instances, NEW j \in Jobs,
             EnqueueAccepted(q, j) \/ Poll(q, j) \/ MarkRequeued(q, j)
      PROVE  WorkerInv(p)'
  <2>1. Enqueue(q, j) /\ UNCHANGED <<pc, claim>>
    BY <1>5 DEF EnqueueAccepted, Poll, MarkRequeued, files
  <2>2. CASE q = p
    BY <2>1, <2>2, WorkerEnqueue
  <2>3. CASE q # p
    <3>1. queue'[p] = queue[p] /\ pc'[p] = pc[p]
      BY <2>1, <2>3 DEF Enqueue, TypeOK
    <3> QED BY <2>1, <3>1, WorkerOther
  <2> QED BY <2>2, <2>3
<1>6. ASSUME NEW q \in Instances, NEW j \in Jobs, TaskStep(q, j) PROVE WorkerInv(p)'
  <2>1. /\ UNCHANGED queue /\ pc[q][j] # "idle"
        /\ \A r \in Instances, k \in Jobs : r # q \/ k # j => pc'[r][k] = pc[r][k]
        /\ \A k \in Jobs \ {j} : claim'[k] = claim[k]
        /\ claim'[j] \in {claim[j], NoOne, q}
        /\ claim'[j] = q => pc'[q][j] \in Holding
    BY <1>6, WorkerTaskIs
  <2>2. \A k \in Jobs : claim'[k] = p => pc'[p][k] \in Holding
    BY <1>p, <2>1 DEF WorkerInv
  <2>3. \A k \in Jobs : pc[p][k] = "idle" => pc'[p][k] = "idle"
    BY <2>1
  <2>4. queue[p] \in Seq(Jobs)
    BY DEF TypeOK
  <2> QED BY <2>1, <2>2, <2>3, <2>4, WorkerFrame
<1> QED BY <1>1, <1>2, <1>3, <1>4, <1>5, <1>6 DEF Next

LEMMA WorkerAlways == SafetySpec => [](\A p \in Instances : WorkerInv(p))
<1>1. Init => TypeOK /\ \A p \in Instances : WorkerInv(p)
  <2> SUFFICES ASSUME Init, NEW p \in Instances PROVE WorkerInv(p)
    BY TypeInit
  <2>1. Active(p) = {}
    BY DEF Init, Active
  <2>2. IsFiniteSet(Active(p)) /\ Cardinality(Active(p)) <= MaxWorkers
    BY <2>1, FS_EmptySet, QueueAssumption
  <2>3. queue[p] = <<>> /\ \A j \in Jobs : claim[j] # p
    BY QueueAssumption DEF Init
  <2> QED BY <2>2, <2>3 DEF WorkerInv
<1>2. TypeOK /\ (\A p \in Instances : WorkerInv(p)) /\ [Next]_vars
         => TypeOK' /\ (\A p \in Instances : WorkerInv(p))'
  BY TypeNext, WorkerNext
<1> QED BY <1>1, <1>2, PTL DEF SafetySpec

\* A job is in the queue of a process at most once and not while a task of the
\* process is busy with it, and the tasks are no more than the workers: what
\* _enqueued, the set beside the asyncio queue, is there for.
QueuedOnce ==
    \A p \in Instances :
        /\ \A a, b \in DOMAIN queue[p] : queue[p][a] = queue[p][b] => a = b
        /\ Enqueued(p) \cap Active(p) = {}
        /\ Cardinality(Active(p)) <= MaxWorkers

\* Requests, polls, retries and resume passes may all enqueue the same job, and
\* it has one task in each process all the same (enqueue, _worker_loop).
THEOREM JobsQueuedOnce == SafetySpec => []QueuedOnce
<1>1. (\A p \in Instances : WorkerInv(p)) => QueuedOnce
  <2> SUFFICES ASSUME NEW p \in Instances, WorkerInv(p)
               PROVE  /\ \A a, b \in DOMAIN queue[p] : queue[p][a] = queue[p][b] => a = b
                      /\ Enqueued(p) \cap Active(p) = {}
                      /\ Cardinality(Active(p)) <= MaxWorkers
    BY DEF QueuedOnce
  <2>1. ASSUME NEW i \in 1..Len(queue[p]), queue[p][i] \in Active(p) PROVE FALSE
    BY <2>1 DEF WorkerInv, Active
  <2> QED BY <2>1 DEF WorkerInv, Enqueued
<1> QED BY <1>1, WorkerAlways, PTL

\* A claim file that names a live process belongs to a run of the job in it.
ClaimHasRun ==
    \A p \in Instances, j \in Jobs : claim[j] = p => pc[p][j] \in Holding

\* The converse of ClaimGuardsRun, and without its proviso: no claim outlives
\* its run but as an orphan, which ages, so that a job is never shut out for
\* longer than the TTL (_release_claim, stop).
THEOREM ClaimsHaveRuns == SafetySpec => []ClaimHasRun
<1>1. (\A p \in Instances : WorkerInv(p)) => ClaimHasRun
  BY DEF WorkerInv, ClaimHasRun
<1> QED BY <1>1, WorkerAlways, PTL
=============================================================================
