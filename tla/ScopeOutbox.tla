----------------------------- MODULE ScopeOutbox -----------------------------
(***************************************************************************)
(* The outbox of decisions on the scope of a document.                     *)
(*                                                                         *)
(* A confirmation stores a decision with the state pending and blocks the  *)
(* analysis it makes obsolete, in one transaction.  Dispatchers (the       *)
(* poller of a worker, and every request that has confirmed something)     *)
(* read the pending decisions and restart the analysis of their jobs; the  *)
(* restarted analysis loads the latest decision and, with its result,      *)
(* marks it applied.  The decisions on the writing scope have an outbox of *)
(* the same form.                                                          *)
(*                                                                         *)
(* A dispatcher holds a connection of the pool of its process all the way, *)
(* and the restart needs another one.  The order and the limit of the      *)
(* pending rows, and the hash of the original, are left out; the pipeline  *)
(* runs in another process.                                                *)
(***************************************************************************)
EXTENDS Naturals, Sequences, FiniteSets

CONSTANTS
    Jobs,
    Dispatchers,   \* the calls of dispatch_pending that run side by side
    Pool,          \* connections of their process
    MaxRevision,   \* bound: decisions on one job
    MaxFaults      \* bound: crashes, failed restarts and analyses, OCR rounds

ASSUME OutboxAssumption ==
    /\ IsFiniteSet(Dispatchers)
    /\ Pool \in Nat \ {0} /\ MaxRevision \in Nat /\ MaxFaults \in Nat

VARIABLES
    decisions,    \* decisions[j][k]: dispatch_status of revision k
    resting,      \* the decisions whose retry_not_before is in the future
    result,       \* the row of the job: is the analysis complete, and with which decision
    file,         \* status.json: where the analysis is, and for which request
    starting,     \* the jobs a user restarts, before the row says queued
    dispatcher,   \* where it is, the rows it has read, the row it is at
    faults

vars == <<decisions, resting, result, file, starting, dispatcher, faults>>

Revisions == 0..MaxRevision
Decisions == Jobs \X (1..MaxRevision)
None == <<>>

Latest(j) == Len(decisions[j])
Status(row) == decisions[row[1]][row[2]]

\* ACTIVE_ANALYSIS_STATUSES; processing is split where the decision is loaded
\* and where the result is committed.
Active == {"queued", "processing", "checking", "committed"}

AtRow == {"look", "start", "announce", "mark"}

\* The row at which d holds the advisory lock of the job.
HoldsLock(d, j) == dispatcher[d].at \in AtRow /\ dispatcher[d].row[1] = j

Free == Pool - Cardinality({d \in Dispatchers : dispatcher[d].at # "idle"})

Waiting == {row \in Decisions : row[2] <= Latest(row[1]) /\ Status(row) = "pending"}

TypeOK ==
    /\ decisions \in [Jobs -> Seq({"pending", "queued", "applied"})]
    /\ \A j \in Jobs : Latest(j) <= MaxRevision
    /\ resting \subseteq {row \in Decisions : row[2] <= Latest(row[1])}
    /\ result \in [Jobs -> [done : BOOLEAN, has : Revisions]]
    /\ file \in [Jobs -> [status : Active \cup {"done", "error"},
                          request : Revisions, uses : Revisions]]
    /\ starting \subseteq Jobs
    /\ dispatcher \in [Dispatchers ->
            [at : AtRow \cup {"idle", "rows"}, rows : SUBSET Decisions,
             row : Decisions \cup {None}]]
    /\ \A d \in Dispatchers : dispatcher[d].at \in AtRow <=> dispatcher[d].row # None
    /\ \A d, e \in Dispatchers, j \in Jobs : HoldsLock(d, j) /\ HoldsLock(e, j) => d = e
    /\ Free >= 0
    /\ faults \in 0..MaxFaults

-----------------------------------------------------------------------------
Init ==
    /\ decisions = [j \in Jobs |-> <<>>]
    /\ resting = {}
    /\ result = [j \in Jobs |-> [done |-> TRUE, has |-> 0]]
    /\ file = [j \in Jobs |-> [status |-> "done", request |-> 0, uses |-> 0]]
    /\ starting = {}
    /\ dispatcher = [d \in Dispatchers |-> [at |-> "idle", rows |-> {}, row |-> None]]
    /\ faults = 0

-----------------------------------------------------------------------------
(* Users.                                                                  *)

\* confirm_document_scope and confirm_material_dimensions: the decision, and
\* the row of the job set back to queued, under its row lock.
Confirm(j) ==
    /\ result[j].done
    /\ Latest(j) < MaxRevision
    /\ decisions' = [decisions EXCEPT ![j] = Append(@, "pending")]
    /\ result' = [result EXCEPT ![j].done = FALSE]
    /\ UNCHANGED <<resting, file, starting, dispatcher, faults>>

\* start_analysis writes status.json ...
WriteQueued(j, k) ==
    file' = [file EXCEPT ![j] = [status |-> "queued", request |-> k, uses |-> 0]]

\* ... and then invalidates the reviews and stores the status queued.
StoreQueued(j) == result' = [result EXCEPT ![j].done = FALSE]

\* A user starts the analysis again.
Restart(j) ==
    /\ file[j].status \notin Active /\ j \notin starting
    /\ WriteQueued(j, 0)
    /\ starting' = starting \cup {j}
    /\ UNCHANGED <<decisions, resting, result, dispatcher, faults>>

RestartStored(j) ==
    /\ j \in starting
    /\ StoreQueued(j)
    /\ starting' = starting \ {j}
    /\ UNCHANGED <<decisions, resting, file, dispatcher, faults>>

-----------------------------------------------------------------------------
(* The pipeline.                                                           *)

\* Mutant of Begin: the row of the job is not told.
BeginSilently(j) ==
    /\ file[j].status = "queued"
    /\ file' = [file EXCEPT ![j].status = "processing", ![j].request = 0]
    /\ UNCHANGED <<decisions, resting, result, starting, dispatcher, faults>>

\* The first write of the pipeline, which also loses the request, and its
\* copy in the row of the job.
Begin(j) ==
    /\ file[j].status = "queued"
    /\ file' = [file EXCEPT ![j].status = "processing", ![j].request = 0]
    /\ StoreQueued(j)
    /\ UNCHANGED <<decisions, resting, starting, dispatcher, faults>>

\* The round of the OCR service is over: the analysis waits for another one.
Yield(j) ==
    /\ file[j].status = "processing" /\ faults < MaxFaults
    /\ WriteQueued(j, 0)
    /\ faults' = faults + 1
    /\ UNCHANGED <<decisions, resting, result, starting, dispatcher>>

\* load_for_analysis.
Load(j) ==
    /\ file[j].status = "processing"
    /\ file' = [file EXCEPT ![j].status = "checking", ![j].uses = Latest(j)]
    /\ UNCHANGED <<decisions, resting, result, starting, dispatcher, faults>>

\* persist_analysis_job_snapshot with the result.
Commit(j) ==
    /\ file[j].status = "checking"
    /\ LET k == file[j].uses IN
        /\ result' = [result EXCEPT ![j] = [done |-> TRUE, has |-> k]]
        /\ decisions' = IF k = 0 THEN decisions
                        ELSE [decisions EXCEPT ![j][k] = "applied"]
    /\ file' = [file EXCEPT ![j].status = "committed"]
    /\ UNCHANGED <<resting, starting, dispatcher, faults>>

Finish(j) ==
    /\ file[j].status = "committed"
    /\ file' = [file EXCEPT ![j].status = "done", ![j].uses = 0]
    /\ UNCHANGED <<decisions, resting, result, starting, dispatcher, faults>>

\* An exception or the time limit: the status error in the file and the row.
Fail(j) ==
    /\ file[j].status \in Active \ {"queued"} /\ faults < MaxFaults
    /\ file' = [file EXCEPT ![j] = [status |-> "error", request |-> 0, uses |-> 0]]
    /\ StoreQueued(j)
    /\ faults' = faults + 1
    /\ UNCHANGED <<decisions, resting, starting, dispatcher>>

-----------------------------------------------------------------------------
(* A dispatcher.                                                           *)

\* A connection, and the pending decisions that are due.
Fetch(d) ==
    /\ dispatcher[d].at = "idle" /\ Free > 0
    /\ dispatcher' = [dispatcher EXCEPT ![d].at = "rows", ![d].rows = Waiting \ resting]
    /\ UNCHANGED <<decisions, resting, result, file, starting, faults>>

\* The dispatcher goes to the next row, the lock of the last one is released.
NextRow(d) == [dispatcher EXCEPT ![d].at = "rows", ![d].row = None]

\* Mutant of Take: without the lock.
TakeUnlocked(d, row) ==
    /\ dispatcher[d].at = "rows" /\ row \in dispatcher[d].rows
    /\ IF row[2] = Latest(row[1])
       THEN dispatcher' = [dispatcher EXCEPT ![d].at = "look", ![d].row = row,
                                             ![d].rows = @ \ {row}]
       ELSE dispatcher' = [dispatcher EXCEPT ![d].rows = @ \ {row}]
    /\ UNCHANGED <<decisions, resting, result, file, starting, faults>>

\* pg_try_advisory_lock on the job, and the decision is still the latest; the
\* row is not read again.
Take(d, row) ==
    /\ dispatcher[d].at = "rows" /\ row \in dispatcher[d].rows
    /\ IF row[2] = Latest(row[1]) /\ \A e \in Dispatchers : ~HoldsLock(e, row[1])
       THEN dispatcher' = [dispatcher EXCEPT ![d].at = "look", ![d].row = row,
                                             ![d].rows = @ \ {row}]
       ELSE dispatcher' = [dispatcher EXCEPT ![d].rows = @ \ {row}]
    /\ UNCHANGED <<decisions, resting, result, file, starting, faults>>

\* Mutant of Look: only the analysis that is done is restarted.
LookForDone(d) ==
    /\ dispatcher[d].at = "look"
    /\ LET row == dispatcher[d].row
           f == file[row[1]] IN
        dispatcher' =
            IF f.status = "done" THEN [dispatcher EXCEPT ![d].at = "start"]
            ELSE IF f.request = row[2] THEN [dispatcher EXCEPT ![d].at = "mark"]
            ELSE NextRow(d)
    /\ UNCHANGED <<decisions, resting, result, file, starting, faults>>

\* Mutant of Look: any analysis under way will do.
LookForActive(d) ==
    /\ dispatcher[d].at = "look"
    /\ LET f == file[dispatcher[d].row[1]] IN
        dispatcher' = [dispatcher EXCEPT ![d].at =
                            IF f.status \in Active THEN "mark" ELSE "start"]
    /\ UNCHANGED <<decisions, resting, result, file, starting, faults>>

\* status.json: an analysis under way is left alone, and if it was started
\* for this decision the decision only has to be marked.
Look(d) ==
    /\ dispatcher[d].at = "look"
    /\ LET row == dispatcher[d].row
           f == file[row[1]] IN
        dispatcher' =
            IF f.status \notin Active THEN [dispatcher EXCEPT ![d].at = "start"]
            ELSE IF f.request = row[2] THEN [dispatcher EXCEPT ![d].at = "mark"]
            ELSE NextRow(d)
    /\ UNCHANGED <<decisions, resting, result, file, starting, faults>>

\* An exception: a later attempt.
GiveUp(d) ==
    /\ resting' = resting \cup {dispatcher[d].row}
    /\ dispatcher' = NextRow(d)

\* reanalyze_job looks at status.json again.
Start(d) ==
    /\ dispatcher[d].at = "start"
    /\ LET row == dispatcher[d].row IN
        IF file[row[1]].status \in Active
        THEN GiveUp(d) /\ UNCHANGED file
        ELSE /\ WriteQueued(row[1], row[2])
             /\ dispatcher' = [dispatcher EXCEPT ![d].at = "announce"]
             /\ UNCHANGED resting
    /\ UNCHANGED <<decisions, result, starting, faults>>

\* A second connection, for the reviews and for the row of the job.
Announce(d) ==
    /\ dispatcher[d].at = "announce" /\ Free > 0
    /\ StoreQueued(dispatcher[d].row[1])
    /\ dispatcher' = [dispatcher EXCEPT ![d].at = "mark"]
    /\ UNCHANGED <<decisions, resting, file, starting, faults>>

\* reanalyze_job raises before or after status.json is written.
StartFails(d) ==
    /\ dispatcher[d].at \in {"start", "announce"} /\ faults < MaxFaults
    /\ GiveUp(d)
    /\ faults' = faults + 1
    /\ UNCHANGED <<decisions, result, file, starting>>

\* Mutant of Mark: without the condition on the old status.
MarkAgain(d) ==
    /\ dispatcher[d].at = "mark"
    /\ LET row == dispatcher[d].row IN
        decisions' = [decisions EXCEPT ![row[1]][row[2]] = "queued"]
    /\ dispatcher' = NextRow(d)
    /\ UNCHANGED <<resting, result, file, starting, faults>>

Mark(d) ==
    /\ dispatcher[d].at = "mark"
    /\ LET row == dispatcher[d].row IN
        decisions' = [decisions EXCEPT ![row[1]][row[2]] =
                            IF @ = "pending" THEN "queued" ELSE @]
    /\ dispatcher' = NextRow(d)
    /\ UNCHANGED <<resting, result, file, starting, faults>>

\* The connection goes back to the pool.
EndOfRows(d) ==
    /\ dispatcher[d].at = "rows" /\ dispatcher[d].rows = {}
    /\ dispatcher' = [dispatcher EXCEPT ![d].at = "idle"]
    /\ UNCHANGED <<decisions, resting, result, file, starting, faults>>

\* The process dies; the server ends the session and its locks.
Crash(d) ==
    /\ dispatcher[d].at # "idle" /\ faults < MaxFaults
    /\ dispatcher' = [dispatcher EXCEPT ![d] = [at |-> "idle", rows |-> {}, row |-> None]]
    /\ faults' = faults + 1
    /\ UNCHANGED <<decisions, resting, result, file, starting>>

Due(row) ==
    /\ row \in resting
    /\ resting' = resting \ {row}
    /\ UNCHANGED <<decisions, result, file, starting, dispatcher, faults>>

-----------------------------------------------------------------------------
Pipeline(j) == Begin(j) \/ Load(j) \/ Commit(j) \/ Finish(j)

Work(d) ==
    \/ Look(d) \/ Start(d) \/ Announce(d) \/ Mark(d) \/ EndOfRows(d)
    \/ \E row \in Decisions : Take(d, row)

Next ==
    \/ \E j \in Jobs : Confirm(j) \/ Restart(j) \/ RestartStored(j)
    \/ \E j \in Jobs : Pipeline(j) \/ Yield(j) \/ Fail(j)
    \/ \E d \in Dispatchers : Fetch(d) \/ Work(d) \/ StartFails(d) \/ Crash(d)
    \/ \E row \in Decisions : Due(row)

Spec == Init /\ [][Next]_vars

\* The poller fetches again and again, a dispatcher goes on, the pool serves
\* those who wait for a connection in order, time passes, and the queue runs
\* what is queued; no user is bound to do anything.
Fairness ==
    /\ \A d \in Dispatchers :
         WF_vars(Work(d)) /\ SF_vars(Fetch(d)) /\ SF_vars(Announce(d))
    /\ \A j \in Jobs : WF_vars(Pipeline(j)) /\ WF_vars(RestartStored(j))
    /\ \A row \in Decisions : WF_vars(Due(row))

FairSpec == Spec /\ Fairness

-----------------------------------------------------------------------------
(* Properties.                                                             *)

\* Whoever starts the analysis and whenever a decision is made: an analysis
\* that counts as complete has been made with the latest decision.
GateClosed == \A j \in Jobs : result[j].done => result[j].has = Latest(j)

\* A decision that is marked as queued is not forgotten: an analysis that
\* uses it is under way, or the analysis has failed and says so.
Awaited ==
    \A j \in Jobs : \A k \in 1..Latest(j) :
        decisions[j][k] = "queued" =>
            \/ file[j].status \in {"queued", "processing", "error"}
            \/ file[j].status = "checking" /\ file[j].uses = k

\* An applied decision stays applied, although a dispatcher marks what it has
\* started long after the analysis may have ended.
StatusForward ==
    [][\A j \in Jobs : \A k \in 1..Latest(j) :
        /\ decisions[j][k] = "applied" => decisions'[j][k] = "applied"
        /\ decisions[j][k] = "queued" => decisions'[j][k] # "pending"]_vars

\* What a reviewer is promised of a confirmation: decisions take effect one
\* after the other, each before the next can be made, although they are
\* delivered and marked late, twice, or by several dispatchers.
Gate == INSTANCE ScopeGate WITH
    latest <- [j \in Jobs |-> Latest(j)],
    complete <- [j \in Jobs |-> result[j].done],
    basis <- [j \in Jobs |-> result[j].has],
    effective <- [j \in Jobs |-> {k \in 1..Latest(j) : decisions[j][k] = "applied"}]
KeepsGate == Gate!Spec

\* Reliable delivery after the commit: a decision does not stay pending.
Delivered ==
    \A row \in Decisions : row \in Waiting ~> row \notin Waiting

=============================================================================
