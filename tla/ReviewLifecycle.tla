--------------------------- MODULE ReviewLifecycle ---------------------------
(***************************************************************************)
(* The human review of the material in one slot.                           *)
(*                                                                         *)
(* PostgreSQL holds the slot (slot), the review sessions (session) and the *)
(* rows of the analysis jobs (job), one job per version of the document.   *)
(* The workflow file of the issues (.issue_workflow.json) holds what was   *)
(* decided about the issues of a job (resolved) and the edit lock of a     *)
(* completed review (lock).  No transaction spans both.                    *)
(*                                                                         *)
(* A reviewer's request is one transaction that holds the row lock of the  *)
(* slot (owner) from _load_state to its commit.  Completion writes the     *)
(* edit lock inside its transaction; locks are cleared after the commit.   *)
(* Beside the reviewers there are the Analyzer (start_analysis and the run *)
(* of a job), uploads of new versions, and edits of issues, which take no  *)
(* row lock.                                                               *)
(***************************************************************************)
EXTENDS Naturals, Functions

CONSTANTS
    Reviewers,     \* requests to the review service in progress at a time
    Analyzer,      \* the process that analyses a job
    None,          \* nobody holds the row lock
    MaxVersions,   \* bound: versions of the document
    MaxSessions,   \* bound: review sessions
    MaxGen,        \* bound: generations of results, of all versions
    MaxFaults      \* bound: failures and crashes

Actors == Reviewers \cup {Analyzer}
Versions == 1..MaxVersions
Ids == 1..MaxSessions

ASSUME ReviewAssumption ==
    /\ {MaxVersions, MaxSessions, MaxGen, MaxFaults} \subseteq Nat
    /\ MaxVersions > 0
    /\ Analyzer \notin Reviewers /\ None \notin Actors

VARIABLES
    slot,       \* material_slots: current version and status
    owner,      \* who holds the row lock of the slot
    session,    \* review_sessions, by order of creation
    last,       \* the latest session, 0 if there is none
    covered,    \* is the check obligation of the active session settled?
    reopened,   \* was the latest session created by a reopening?
    job,        \* analysis_jobs: completed with a result? its generation
    resolved,   \* resolved[v]: is the issue of version v's report settled?
    lock,       \* lock[v]: the session that locks the issues of v, or 0
    pc,         \* where each actor is
    view,       \* what _load_state has read for the holder of the row lock
    wrote,      \* wrote[r]: the session whose lock r has written, or 0
    clears,     \* clears[a]: sessions whose locks a has to clear
    run,        \* the analysis: its version, and what the slot sync has read
    uploaded,   \* number of versions uploaded
    faults,     \* counter of the bound
    lapsed,     \* history: sessions whose lock should be gone, but a crash or
                \* a failure kept it from being cleared
    undone,     \* history: sessions whose lock a compensation has removed
    overtaken   \* history: sessions that held the lock when a report changed

material == <<slot, uploaded>>
sessions == <<session, last, covered, reopened>>
workflow == <<resolved, lock>>
request == <<view, wrote>>
history == <<lapsed, undone, overtaken>>
vars == <<material, owner, sessions, job, workflow, pc, request, clears, run,
          faults, history>>

\* The identity of a lock is (session, basis); the basis of a session never
\* changes, so that the number of the session stands for both.
States == {"none", "in_progress", "completed", "invalidated"}
Sessions == [state : States, version : Nat, basis : Nat]
NoSession == [state |-> "none", version |-> 0, basis |-> 0]
Views == [gen : Nat, done : BOOLEAN, resolved : BOOLEAN]
NoView == [gen |-> 0, done |-> FALSE, resolved |-> FALSE]
Statuses == {"uploaded", "review_required", "reviewing", "completed"}
Steps == {"idle", "reading", "open", "locked", "undo", "after",
          "hook", "queue", "running", "produced", "stored", "syncing"}

TypeOK ==
    /\ slot \in [version : Versions, status : Statuses]
    /\ owner \in Reviewers \cup {None}
    /\ session \in [Ids -> Sessions]
    /\ last \in 0..MaxSessions
    /\ {covered, reopened} \subseteq BOOLEAN
    /\ job \in [Versions -> [done : BOOLEAN, gen : Nat]]
    /\ resolved \in [Versions -> BOOLEAN]
    /\ lock \in [Versions -> 0..MaxSessions]
    /\ pc \in [Actors -> Steps]
    /\ view \in Views
    /\ wrote \in [Reviewers -> 0..MaxSessions]
    /\ clears \in [Actors -> SUBSET Ids]
    /\ run \in [version : Versions, seen : BOOLEAN]
    /\ uploaded \in Versions
    /\ faults \in 0..MaxFaults
    /\ lapsed \subseteq Ids /\ undone \subseteq Ids /\ overtaken \subseteq Ids
    /\ \A r \in Reviewers : pc[r] \in {"reading", "open", "locked"} <=> owner = r

\* The first version is uploaded and registered, its analysis has not begun.
Init ==
    /\ slot = [version |-> 1, status |-> "uploaded"]
    /\ owner = None
    /\ session = [s \in Ids |-> NoSession] /\ last = 0
    /\ covered = FALSE /\ reopened = FALSE
    /\ job = [v \in Versions |-> [done |-> FALSE, gen |-> 0]]
    /\ resolved = [v \in Versions |-> FALSE]
    /\ lock = [v \in Versions |-> 0]
    /\ pc = [a \in Actors |-> "idle"]
    /\ view = NoView
    /\ wrote = [r \in Reviewers |-> 0]
    /\ clears = [a \in Actors |-> {}]
    /\ run = [version |-> 1, seen |-> FALSE]
    /\ uploaded = 1 /\ faults = 0
    /\ lapsed = {} /\ undone = {} /\ overtaken = {}

-----------------------------------------------------------------------------
(* Sessions.                                                               *)

Active == {s \in Ids : session[s].state = "in_progress"}
Live == {s \in Ids : session[s].state \in {"in_progress", "completed"}}

\* get_latest_completed_session: only on the generation it is asked for.
Completed(v, gen) ==
    {s \in Ids : /\ session[s].state = "completed"
                 /\ session[s].version = v /\ session[s].basis = gen}

Latest(S) == {s \in S : \A t \in S : t <= s}

Invalidated(S) ==
    [s \in Ids |-> IF s \in S THEN [session[s] EXCEPT !.state = "invalidated"]
                              ELSE session[s]]

\* insert_session; S are the sessions it replaces.
Create(S, again) ==
    /\ last < MaxSessions
    /\ session' = [Invalidated(S) EXCEPT ![last + 1] =
                      [state |-> "in_progress", version |-> slot.version,
                       basis |-> view.gen]]
    /\ last' = last + 1
    /\ covered' = FALSE /\ reopened' = again
    /\ slot' = [slot EXCEPT !.status = "reviewing"]

-----------------------------------------------------------------------------
(* A request of a reviewer: the frame of its transaction.                  *)

Fault == faults < MaxFaults /\ faults' = faults + 1

Goto(a, step) == pc' = [pc EXCEPT ![a] = step]

\* Mutant of Open: the slot is read without its row lock.
OpenUnlocked(r) ==
    /\ pc[r] = "idle"
    /\ Goto(r, "reading")
    /\ view' = [gen |-> job[slot.version].gen, done |-> job[slot.version].done,
                resolved |-> FALSE]
    /\ UNCHANGED <<material, owner, sessions, job, workflow, wrote, clears, run,
                   faults, history>>

\* _load_state takes the row lock, then reads the generation and whether there
\* is a result.  Sessions change only under the row lock.
Open(r) ==
    /\ pc[r] = "idle" /\ owner = None
    /\ owner' = r
    /\ Goto(r, "reading")
    /\ view' = [gen |-> job[slot.version].gen, done |-> job[slot.version].done,
                resolved |-> FALSE]
    /\ UNCHANGED <<material, sessions, job, workflow, wrote, clears, run,
                   faults, history>>

\* _load_problem_set: the report and what was decided about its issues.
ReadIssues(r) ==
    /\ pc[r] = "reading"
    /\ Goto(r, "open")
    /\ view' = [view EXCEPT !.resolved = resolved[slot.version]]
    /\ UNCHANGED <<material, owner, sessions, job, workflow, wrote, clears, run,
                   faults, history>>

\* The end of the transaction; S: the sessions whose locks it wants cleared.
\* The commit is confirmed and the effects follow, or it happens and the
\* caller sees an exception: then only the locks written are taken back.
CommitTx(r, S) ==
    /\ owner' = None /\ view' = NoView
    /\ \/ /\ Goto(r, IF S = {} THEN "idle" ELSE "after")
          /\ clears' = [clears EXCEPT ![r] = S]
          /\ wrote' = [wrote EXCEPT ![r] = 0]
          /\ UNCHANGED <<faults, lapsed>>
       \/ /\ Fault
          /\ Goto(r, IF wrote[r] = 0 THEN "idle" ELSE "undo")
          /\ lapsed' = lapsed \cup S
          /\ UNCHANGED <<clears, wrote>>

\* Rejected by a gate, a comparison or the database; or nothing to change.
Rollback(r) ==
    /\ pc[r] = "open"
    /\ owner' = None /\ view' = NoView
    /\ Goto(r, "idle")
    /\ UNCHANGED <<material, sessions, job, workflow, wrote, clears, run,
                   faults, history>>

\* Mutant of Cleared: the lock of the job is cleared, whose ever it is.
ClearedBlindly(s) == [lock EXCEPT ![session[s].version] = 0]

\* clear_review_lock_if_matches, one step under the lock of the file.
Cleared(s) ==
    [lock EXCEPT ![session[s].version] = IF @ = s THEN 0 ELSE @]

\* _run_post_commit_effects; a failure is logged and the lock stays.
ClearLock(a) ==
    /\ pc[a] = "after"
    /\ \E s \in clears[a] :
        /\ clears' = [clears EXCEPT ![a] = @ \ {s}]
        /\ Goto(a, IF clears[a] # {s} THEN "after"
                   ELSE IF a = Analyzer THEN "queue" ELSE "idle")
        /\ \/ lock' = Cleared(s) /\ UNCHANGED <<faults, lapsed>>
           \/ Fault /\ lapsed' = lapsed \cup {s} /\ UNCHANGED lock
    /\ UNCHANGED <<material, owner, sessions, job, resolved, request, run,
                   undone, overtaken>>

-----------------------------------------------------------------------------
(* The requests.                                                           *)

\* _invalidate_stale_sessions.  It is shown the active session, and the one
\* completed on the current generation, which is never stale.
Stale ==
    {s \in Active : \/ session[s].version # slot.version
                    \/ session[s].basis # view.gen}

\* Mutant of StartReview: an active session is not looked for.
StartReviewAgain(r) ==
    /\ pc[r] = "open" /\ view.done
    /\ Create(Stale, FALSE)
    /\ CommitTx(r, Stale)
    /\ UNCHANGED <<uploaded, job, workflow, run, undone, overtaken>>

\* start_review: stale sessions go even if no new one can be started; an
\* active one is returned as it is.  A completed one is not looked at.
StartReview(r) ==
    /\ pc[r] = "open"
    /\ \/ Active \subseteq Stale /\ view.done /\ Create(Stale, FALSE)
       \/ /\ ~(Active \subseteq Stale /\ view.done)
          /\ session' = Invalidated(Stale)
          /\ UNCHANGED <<slot, last, covered, reopened>>
    /\ CommitTx(r, Stale)
    /\ UNCHANGED <<uploaded, job, workflow, run, undone, overtaken>>

\* evaluate_completion_gate, on the facts read by _load_state.
GateOpen(s) ==
    /\ s \in Active \ Stale
    /\ view.done /\ view.resolved /\ covered

\* What a reopening gives up.
Previous ==
    IF Active # {} THEN Active ELSE Latest(Completed(slot.version, view.gen))

\* Mutant of WriteLock: no comparison with the decisions that were judged.
WriteLockUnchecked(r) ==
    /\ pc[r] = "open"
    /\ \E s \in Ids :
        /\ GateOpen(s)
        /\ lock' = [lock EXCEPT ![slot.version] = s]
        /\ wrote' = [wrote EXCEPT ![r] = s]
    /\ Goto(r, "locked")
    /\ UNCHANGED <<material, owner, sessions, job, resolved, view, clears, run,
                   faults, history>>

\* Mutant of WriteLock: a lock that is already there is left as it is.
WriteLockIfFree(r) ==
    /\ pc[r] = "open"
    /\ \E s \in Ids :
        /\ GateOpen(s)
        /\ resolved[slot.version] = view.resolved
        /\ lock' = [lock EXCEPT ![slot.version] = IF @ = 0 THEN s ELSE @]
        /\ wrote' = [wrote EXCEPT ![r] = s]
    /\ Goto(r, "locked")
    /\ UNCHANGED <<material, owner, sessions, job, resolved, view, clears, run,
                   faults, history>>

\* complete_review up to _set_workflow_lock_or_raise: the lock is written if
\* the issues are still as they were judged, in one step under the lock of
\* the file.  The completed session is not yet visible to others.
WriteLock(r) ==
    /\ pc[r] = "open"
    /\ \E s \in Ids :
        /\ GateOpen(s)
        /\ resolved[slot.version] = view.resolved
        /\ lock' = [lock EXCEPT ![slot.version] = s]
        /\ wrote' = [wrote EXCEPT ![r] = s]
    /\ Goto(r, "locked")
    /\ UNCHANGED <<material, owner, sessions, job, resolved, view, clears, run,
                   faults, history>>

\* The commit of complete_review.
FinishCompletion(r) ==
    /\ pc[r] = "locked"
    /\ session' = [session EXCEPT ![wrote[r]].state = "completed"]
    /\ slot' = [slot EXCEPT !.status = "completed"]
    /\ CommitTx(r, {})
    /\ UNCHANGED <<last, covered, reopened, uploaded, job, workflow, run,
                   undone, overtaken>>

\* The commit fails: the row lock goes with the transaction, and only then
\* is the edit lock taken back (_mutation_scope).
CommitFails(r) ==
    /\ pc[r] = "locked"
    /\ Fault
    /\ owner' = None /\ view' = NoView
    /\ Goto(r, "undo")
    /\ UNCHANGED <<material, sessions, job, workflow, wrote, clears, run, history>>

\* _compensate_lock_writes.
Compensate(r) ==
    /\ pc[r] = "undo"
    /\ \/ /\ lock' = Cleared(wrote[r])
          /\ undone' = IF lock' = lock THEN undone ELSE undone \cup {wrote[r]}
          /\ UNCHANGED <<faults, lapsed>>
       \/ /\ Fault
          /\ lapsed' = lapsed \cup {wrote[r]}
          /\ UNCHANGED <<lock, undone>>
    /\ wrote' = [wrote EXCEPT ![r] = 0]
    /\ Goto(r, "idle")
    /\ UNCHANGED <<material, owner, sessions, job, resolved, view, clears, run,
                   overtaken>>

\* Mutant of ReopenReview: the lock of the session given up is not cleared.
ReopenReviewKeepingLock(r) ==
    /\ pc[r] = "open" /\ view.done
    /\ Create(Previous, TRUE)
    /\ CommitTx(r, {})
    /\ UNCHANGED <<uploaded, job, workflow, run, undone, overtaken>>

\* reopen_review gives up the active session, or else the completed one, and
\* starts another if the gate lets it.
ReopenReview(r) ==
    /\ pc[r] = "open"
    /\ \/ view.done /\ Create(Previous, TRUE)
       \/ /\ ~view.done
          /\ session' = Invalidated(Previous)
          /\ UNCHANGED <<slot, last, covered, reopened>>
    /\ CommitTx(r, Previous)
    /\ UNCHANGED <<uploaded, job, workflow, run, undone, overtaken>>

\* decide_obligation, presented with the current generation: the decision on
\* the obligation goes to the active session, unless that is stale.  It may
\* settle the obligation or open it again.
DecideObligation(r) ==
    /\ pc[r] = "open"
    /\ session' = Invalidated(Stale)
    /\ IF Active \subseteq Stale THEN UNCHANGED covered ELSE covered' \in BOOLEAN
    /\ CommitTx(r, Stale)
    /\ UNCHANGED <<material, last, reopened, job, workflow, run, undone, overtaken>>

\* confirm_document_scope and confirm_material_dimensions: every live session
\* of the job goes, and the job is queued for another analysis.
ConfirmScope(r) ==
    LET gone == {s \in Live : session[s].version = slot.version} IN
    /\ pc[r] = "open"
    /\ view.done /\ job[slot.version].done
    /\ session' = Invalidated(gone)
    /\ job' = [job EXCEPT ![slot.version].done = FALSE]
    /\ CommitTx(r, gone)
    /\ UNCHANGED <<material, last, covered, reopened, workflow, run, undone,
                   overtaken>>

-----------------------------------------------------------------------------
(* Others that touch the same state.                                       *)

\* update_issue, create_package, set_job_ignored_issue_ids: refused under an
\* edit lock (_require_issue_mutable), in one step under the lock of the file.
Edit(v) ==
    /\ v <= uploaded /\ lock[v] = 0
    /\ resolved' = [resolved EXCEPT ![v] = ~@]
    /\ UNCHANGED <<material, owner, sessions, job, lock, pc, request, clears,
                   run, faults, history>>

\* The current version moves to v, if v is later, and the sessions of the
\* other versions go; their locks stay (bind_document_version).
Bind(v) ==
    /\ owner = None
    /\ LET current == IF v > slot.version THEN v ELSE slot.version IN
        /\ slot' = [version |-> current, status |-> "uploaded"]
        /\ session' = Invalidated({s \in Live : session[s].version # current})

\* An upload; register_material_upload binds the version at once, or leaves
\* it to the analysis when the identity of the material is not clear.
Upload ==
    /\ uploaded < MaxVersions
    /\ uploaded' = uploaded + 1
    /\ \/ Bind(uploaded + 1)
       \/ UNCHANGED <<slot, session>>
    /\ UNCHANGED <<owner, last, covered, reopened, job, workflow, pc, request,
                   clears, run, faults, history>>

\* A request for an analysis, or the dispatch of a scope decision.
Restart(v) ==
    /\ pc[Analyzer] = "idle"
    /\ v <= uploaded
    /\ FoldFunction(LAMBDA j, n : j.gen + n, 0, job) < MaxGen
    /\ run' = [version |-> v, seen |-> FALSE]
    /\ Goto(Analyzer, "hook")
    /\ UNCHANGED <<material, owner, sessions, job, workflow, request, clears,
                   faults, history>>

\* invalidate_reviews_for_analysis_restart: one transaction under the row
\* lock, then the locks are cleared.  Or it fails, which is tolerated.
Hook ==
    LET gone == {s \in Live : session[s].version = run.version} IN
    /\ pc[Analyzer] = "hook"
    /\ \/ /\ owner = None
          /\ session' = Invalidated(gone)
          /\ slot' = IF gone # {} /\ slot.status # "uploaded"
                     THEN [slot EXCEPT !.status = "review_required"] ELSE slot
          /\ clears' = [clears EXCEPT ![Analyzer] = gone]
          /\ Goto(Analyzer, IF gone = {} THEN "queue" ELSE "after")
          /\ UNCHANGED faults
       \/ /\ Fault
          /\ Goto(Analyzer, "queue")
          /\ UNCHANGED <<slot, session, clears>>
    /\ UNCHANGED <<owner, uploaded, last, covered, reopened, job, workflow,
                   request, run, history>>

\* start_analysis persists "queued", if the database lets it.
PersistQueued ==
    /\ pc[Analyzer] = "queue"
    /\ Goto(Analyzer, "running")
    /\ \/ job' = [job EXCEPT ![run.version].done = FALSE] /\ UNCHANGED faults
       \/ Fault /\ UNCHANGED job
    /\ UNCHANGED <<material, owner, sessions, workflow, request, clears, run,
                   history>>

\* allocate_for_document, in the structured ingest of the run: the version is
\* bound, and the slot goes back to "uploaded".
Allocate ==
    /\ pc[Analyzer] = "running"
    /\ Bind(run.version)
    /\ UNCHANGED <<owner, uploaded, last, covered, reopened, job, workflow, pc,
                   request, clears, run, faults, history>>

\* The body writes its report to status.json: what was decided about an issue
\* is carried over to the new report, or not.
Produce ==
    LET v == run.version IN
    /\ pc[Analyzer] = "running"
    /\ Goto(Analyzer, "produced")
    /\ resolved' \in {resolved, [resolved EXCEPT ![v] = FALSE]}
    /\ overtaken' = IF lock[v] = 0 THEN overtaken ELSE overtaken \cup {lock[v]}
    /\ UNCHANGED <<material, owner, sessions, job, lock, request, clears, run,
                   faults, lapsed, undone>>

\* persist_analysis_job_snapshot, without the row lock of the slot.  Whether
\* the result is a new generation is the matter of ResultStore.  A failed
\* analysis is stored too, but is no completed one.
Store ==
    LET v == run.version IN
    /\ pc[Analyzer] = "produced"
    /\ \E done \in BOOLEAN, gen \in {job[v].gen, job[v].gen + 1} \ {0} :
        job' = [job EXCEPT ![v] = [done |-> done, gen |-> gen]]
    /\ Goto(Analyzer, "stored")
    /\ UNCHANGED <<material, owner, sessions, workflow, request, clears, run,
                   faults, history>>

\* sync_slot_review_state_for_job reads without a lock ...
SyncRead ==
    LET v == run.version IN
    /\ pc[Analyzer] = "stored"
    /\ IF v = slot.version /\ job[v].done
       THEN /\ run' = [run EXCEPT !.seen = Completed(v, job[v].gen) # {}]
            /\ Goto(Analyzer, "syncing")
       ELSE Goto(Analyzer, "idle") /\ UNCHANGED run
    /\ UNCHANGED <<material, owner, sessions, job, workflow, request, clears,
                   faults, history>>

\* ... and refresh_status writes under the row lock.
SyncWrite ==
    /\ pc[Analyzer] = "syncing"
    /\ owner = None
    /\ slot' = [slot EXCEPT !.status = IF run.seen THEN "completed"
                                                   ELSE "review_required"]
    /\ run' = [run EXCEPT !.seen = FALSE]
    /\ Goto(Analyzer, "idle")
    /\ UNCHANGED <<uploaded, owner, sessions, job, workflow, request, clears,
                   faults, history>>

\* The process of an actor dies; its transaction is rolled back.
Crash(a) ==
    /\ pc[a] # "idle"
    /\ Fault
    /\ Goto(a, "idle")
    /\ IF owner = a THEN owner' = None /\ view' = NoView
       ELSE UNCHANGED <<owner, view>>
    /\ clears' = [clears EXCEPT ![a] = {}]
    /\ wrote' = IF a = Analyzer THEN wrote ELSE [wrote EXCEPT ![a] = 0]
    /\ lapsed' = lapsed \cup clears[a] \cup
           (IF a = Analyzer \/ wrote[a] = 0 THEN {} ELSE {wrote[a]})
    /\ UNCHANGED <<material, sessions, job, workflow, run, undone, overtaken>>

-----------------------------------------------------------------------------
Serve(r) ==
    \/ StartReview(r) \/ ReopenReview(r) \/ DecideObligation(r)
    \/ ConfirmScope(r) \/ WriteLock(r) \/ Rollback(r)

\* What ends a request, once it has been served.
Settle(a) ==
    \/ ClearLock(a)
    \/ a \in Reviewers /\ (FinishCompletion(a) \/ CommitFails(a) \/ Compensate(a))

Analyze ==
    \/ \E v \in Versions : Restart(v)
    \/ Hook \/ PersistQueued \/ Allocate \/ Produce \/ Store
    \/ SyncRead \/ SyncWrite

Next ==
    \/ \E r \in Reviewers : Open(r) \/ ReadIssues(r) \/ Serve(r)
    \/ \E a \in Actors : Settle(a) \/ Crash(a)
    \/ \E v \in Versions : Edit(v)
    \/ Upload
    \/ Analyze

Spec == Init /\ [][Next]_vars

-----------------------------------------------------------------------------
(* Properties.                                                             *)

\* One review at a time: requests that both found no active session never
\* both create one (start_review, reopen_review; uq_review_sessions_active
\* is only the second gate).
OneActive == \A s, t \in Active : s = t

\* A completion is not declared without its edit lock: the latest session,
\* once completed, holds the lock of its report, unless the compensation of
\* another attempt on the same session has removed it.
CompletionIsLocked ==
    last > 0 /\ session[last].state = "completed" /\ last \notin undone
        => lock[session[last].version] = last

\* No orphan: a lock in the file belongs to a completed session, or somebody
\* is about to remove it or to complete the session, or it was left by a
\* failure that was logged or a crash, or the material has been replaced.
LockHasOwner ==
    \A v \in Versions : lock[v] # 0 =>
        \/ session[lock[v]].state = "completed"
        \/ lock[v] \in lapsed
        \/ \E r \in Reviewers : wrote[r] = lock[v]
        \/ \E a \in Actors : lock[v] \in clears[a]
        \/ v # slot.version

\* What was judged is what is locked: while the session that completed a
\* review holds the lock, the issues are settled, up to the next report.
LockedAsJudged ==
    \A v \in Versions :
        lock[v] # 0 /\ lock[v] \notin overtaken => resolved[v]

\* A lock is opened only when the database no longer counts the review as
\* completed, or by a compensation of its own session; otherwise it can only
\* pass on to a later session.
UnlockedAfterInvalidation ==
    [][\A v \in Versions : lock[v] # 0 /\ lock'[v] # lock[v] =>
        \/ session[lock[v]].state = "invalidated"
        \/ lock[v] \in undone'
        \/ lock'[v] > lock[v]]_vars

\* What the message of a refused edit promises: after a review was reopened
\* and everything about it is done, the issues can be edited.
ReopenUnlocks ==
    /\ Active = {last} /\ reopened /\ session[last].version = slot.version
    /\ lapsed = {} /\ \A a \in Actors : pc[a] = "idle"
    => lock[slot.version] = 0
=============================================================================
