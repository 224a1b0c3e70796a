----------------------------- MODULE ResultStore -----------------------------
(***************************************************************************)
(* Where the result of one job is kept, and who writes it.                 *)
(*                                                                         *)
(* PostgreSQL holds the row of the job (row), its row in analysis_results  *)
(* (result) and, per analysis revision, the fact snapshot (snap) and the   *)
(* immutable report (core).  The job directory holds status.json (file),   *)
(* the archived revisions (archive), the pointer current.json (pointer)    *)
(* and persistence.json (sync).                                            *)
(*                                                                         *)
(* Writers: start_analysis (Api), one body of the pipeline per revision    *)
(* (Runs), the replay at startup (Sync) and the operator's rebuild tool    *)
(* (Candidates).  persist_analysis_job_snapshot is a call that is open     *)
(* over several steps: each attempt is one transaction, which may fail or  *)
(* commit, and a commit may be taken for a failure.                        *)
(***************************************************************************)
EXTENDS Naturals, FiniteSets

CONSTANTS
    Runs,          \* revisions of runs of the pipeline: one body each
    Candidates,    \* revisions computed offline by the rebuild tool
    Api, Sync,     \* the two other callers of persist_analysis_job_snapshot
    None,          \* NULL, an absent file, an absent result
    Empty,         \* fingerprint of a payload without a result (an error)
    Legacy,        \* a result of the time before fact snapshots
    ErrorRev,      \* the revision id made up for the archive of an error
    Attempts,      \* _PERSISTENCE_RETRY_DELAYS has this many entries
    MayOverlap,    \* may two runs of the job overlap (a claim taken over)?
    MaxRequests,   \* bound: accepted requests
    MaxFailures,   \* bound: failed attempts, over all calls
    MaxCrashes,    \* bound: crashes, over all callers
    MaxRollbacks   \* bound: rollbacks of a published candidate

Revisions == Runs \cup Candidates
Contents == Revisions \cup {Empty, Legacy}
Callers == Runs \cup {Api, Sync}

ASSUME StoreAssumption ==
    /\ Runs \cap Candidates = {}
    /\ {Api, Sync} \cap Runs = {} /\ Api # Sync
    /\ {None, Empty, Legacy, ErrorRev} \cap Revisions = {}
    /\ None \notin {Empty, Legacy, ErrorRev} /\ Empty # Legacy
    /\ Attempts \in Nat \ {0}
    /\ MayOverlap \in BOOLEAN
    /\ {MaxRequests, MaxFailures, MaxCrashes, MaxRollbacks} \subseteq Nat

VARIABLES
    row,        \* analysis_jobs: there, status, gen, fp, current
    result,     \* analysis_results: whose findings it holds
    snap,       \* analysis_fact_snapshots: revisions
    core,       \* analysis_revision_results: revisions
    pending,    \* revisions with mirror_pending
    file,       \* status.json: status and result
    archive,    \* analysis_versions/<revision>
    pointer,    \* analysis_versions/current.json
    sync,       \* persistence.json
    calls,      \* calls[c]: c's open call, or None
    pc,         \* pc[r]: where the body of run r is (pc[Api]: start_analysis)
    base,       \* base[r]: the current revision r was computed against
    batch,      \* batch[k]: what a rollback of candidate k restores, or None
    requests, failures, crashes, \* counters of the bounds
    landed,     \* history: <<generation, fingerprint>> of every result stored
    rollbacks   \* history, and counter of the bound

db == <<row, result, snap, core, pending>>
files == <<file, archive, pointer, sync>>
tool == <<batch, rollbacks>>
bounds == <<requests, failures, crashes>>
vars == <<db, files, calls, pc, base, tool, bounds, landed>>

ActiveStatus == {"queued", "processing"}
Statuses == ActiveStatus \cup {"uploaded", "done", "error"}
\* analysis_revision, analysis_result_fingerprint, current_fact_revision_id.
Rows == [there : BOOLEAN, status : Statuses, gen : Nat,
         fp : Contents \cup {None}, current : Revisions \cup {None}]
\* A payload: content None means include_results=False; receipt: it carries
\* structured_ingest.fact_snapshot; over: expected_current_fact_revision_id.
Payloads == [status : Statuses, content : Contents \cup {None},
             receipt : BOOLEAN, over : Revisions \cup {None}]
Calls == [payload : Payloads, left : 1..Attempts]
\* The body has the receipt of its fact snapshot; it is running.
Receipted == {"ingested", "committing", "uncommitted", "mirroring", "finishing"}
Working == {"begun", "starting", "parsing", "failing"} \cup Receipted
Steps == Working \cup {"idle", "clearing", "interrupted", "ended"}

TypeOK ==
    /\ row \in Rows
    /\ result \in Contents \cup {None}
    /\ snap \subseteq Revisions /\ core \subseteq Revisions
    /\ pending \subseteq Revisions
    /\ file \in [status : Statuses, result : Revisions \cup {Legacy, None}]
    /\ archive \subseteq Revisions
    /\ pointer \in Revisions \cup {None, ErrorRev}
    /\ sync \in {"none", "pending", "synced"}
    /\ calls \in [Callers -> Calls \cup {None}]
    /\ pc \in [Runs \cup {Api} -> Steps]
    /\ base \in [Revisions -> Revisions \cup {None}]
    /\ batch \in [Candidates -> [row : Rows, result : Contents \cup {None},
                                    undone : BOOLEAN] \cup {None}]
    /\ {requests, failures, crashes, rollbacks} \subseteq Nat
    /\ landed \subseteq Nat \X Contents

NoRow == [there |-> FALSE, status |-> "uploaded", gen |-> 0, fp |-> None,
          current |-> None]

\* A fresh upload, with or without its row, or a job finished in the past.
Init ==
    /\ \/ /\ row \in {NoRow, [NoRow EXCEPT !.there = TRUE]}
          /\ result = None /\ landed = {}
          /\ file = [status |-> "uploaded", result |-> None]
       \/ /\ row = [there |-> TRUE, status |-> "done", gen |-> 1,
                    fp |-> Legacy, current |-> None]
          /\ result = Legacy /\ landed = {<<1, Legacy>>}
          /\ file = [status |-> "done", result |-> Legacy]
    /\ snap = {} /\ core = {} /\ pending = {}
    /\ archive = {} /\ pointer = None /\ sync = "none"
    /\ calls = [c \in Callers |-> None]
    /\ pc = [r \in Runs \cup {Api} |-> "idle"]
    /\ base = [r \in Revisions |-> None]
    /\ batch = [k \in Candidates |-> None]
    /\ requests = 0 /\ failures = 0 /\ crashes = 0 /\ rollbacks = 0

-----------------------------------------------------------------------------
(* persist_analysis_job_snapshot: one attempt is one transaction.          *)

\* Mutant of Generation: a stored fingerprint that is present is not compared.
GenerationOnce(fp) ==
    IF fp = None THEN row.gen
    ELSE IF row.fp = None THEN row.gen + 1 ELSE row.gen

\* _upsert_analysis_job: only a result that differs from the stored one, or
\* finds none, starts a new generation.
Generation(fp) == IF fp \in {None, row.fp} THEN row.gen ELSE row.gen + 1

Upserted(p) ==
    [there |-> TRUE, status |-> p.status, gen |-> Generation(p.content),
     fp |-> IF p.content = None THEN row.fp ELSE p.content,
     current |-> row.current]

\* Mutant of Publishable: the pointer is moved without a comparison.
PublishableUnchecked(p) == p.receipt => p.content \in snap

\* publish_snapshot does not raise: nobody else has moved the pointer since
\* the run read it.  A payload without a receipt publishes nothing.
Publishable(p) ==
    p.receipt => /\ p.content \in snap
                 /\ row.current \in {p.over, p.content}

\* Mutant of StoreResult: a superseded run is not refused, only not published.
StoreResultUnpublished(p) ==
    /\ p.receipt => p.content \in snap
    /\ row' = [Upserted(p) EXCEPT
                  !.current = IF p.receipt /\ Publishable(p) THEN p.content ELSE @]
    /\ result' = p.content
    /\ core' = IF p.receipt THEN core \cup {p.content} ELSE core
    /\ pending' = IF p.receipt THEN pending \cup {p.content} ELSE pending
    /\ landed' = landed \cup {<<row'.gen, p.content>>}

\* Everything the transaction writes when the payload brings a result.
StoreResult(p) ==
    /\ Publishable(p)
    /\ row' = [Upserted(p) EXCEPT !.current = IF p.receipt THEN p.content ELSE @]
    /\ result' = p.content
    /\ core' = IF p.receipt THEN core \cup {p.content} ELSE core
    /\ pending' = IF p.receipt THEN pending \cup {p.content} ELSE pending
    /\ landed' = landed \cup {<<row'.gen, p.content>>}

\* ... and when it brings none: a restarted job without a published revision
\* loses its old result, and the fingerprint with it.
StoreProgress(p) ==
    LET reset == p.status \in ActiveStatus /\ row.current = None IN
    /\ row' = [Upserted(p) EXCEPT !.fp = IF reset THEN None ELSE @]
    /\ result' = IF reset THEN None ELSE result
    /\ UNCHANGED <<core, pending, landed>>

Transaction(p) == IF p.content = None THEN StoreProgress(p) ELSE StoreResult(p)

Return(c) == calls' = [calls EXCEPT ![c] = None]

\* The caller goes on: only the commit of the result looks at the outcome.
Continue(c, stored) ==
    pc' = IF c \notin Runs THEN pc
          ELSE [pc EXCEPT ![c] =
                  CASE @ = "starting" -> "parsing"
                    [] @ = "committing" -> IF stored THEN "mirroring"
                                                     ELSE "uncommitted"
                    [] OTHER -> "ended"]

\* The transaction commits and the caller hears of it.
PersistCommits(c) ==
    /\ calls[c] # None
    /\ Transaction(calls[c].payload)
    /\ sync' = "synced"
    /\ Return(c) /\ Continue(c, TRUE)
    /\ UNCHANGED <<snap, file, archive, pointer, base, tool, bounds>>

\* Mutant of PersistFails: one retry more than there are delays.
PersistFailsOnceMore(c) ==
    /\ calls[c] # None
    /\ failures < MaxFailures
    /\ failures' = failures + 1
    /\ calls' = [calls EXCEPT ![c].left = @ - 1]
    /\ UNCHANGED <<db, files, pc, base, tool, requests, crashes, landed>>

\* The attempt fails: the database is away, the transaction raises, or it
\* commits and the connection is lost before the answer.
PersistFails(c) ==
    /\ calls[c] # None
    /\ failures < MaxFailures
    /\ failures' = failures + 1
    /\ \/ Transaction(calls[c].payload)
       \/ UNCHANGED <<row, result, core, pending, landed>>
    /\ IF calls[c].left > 1
       THEN /\ calls' = [calls EXCEPT ![c].left = @ - 1]
            /\ UNCHANGED <<sync, pc>>
       ELSE /\ sync' = "pending"
            /\ Return(c) /\ Continue(c, FALSE)
    /\ UNCHANGED <<snap, file, archive, pointer, base, tool, requests, crashes>>

Payload(status, content, receipt, over) ==
    [status |-> status, content |-> content, receipt |-> receipt, over |-> over]

Call(c, p) ==
    calls' = [calls EXCEPT ![c] = [payload |-> p, left |-> Attempts]]

-----------------------------------------------------------------------------
(* start_analysis and the replay at startup.                               *)

Goto(r, step) == pc' = [pc EXCEPT ![r] = step]

\* One request at a time.  The new status carries no result.
Request ==
    /\ requests < MaxRequests
    /\ file.status \notin ActiveStatus
    /\ pc[Api] = "idle" /\ calls[Api] = None
    /\ file' = [status |-> "queued", result |-> None]
    /\ Goto(Api, "clearing")
    /\ requests' = requests + 1
    /\ UNCHANGED <<db, archive, pointer, sync, calls, base, tool, failures,
                   crashes, landed>>

\* _invalidate_reviews_before_analysis_start clears the fingerprint, or fails
\* without consequence; then the snapshot is persisted.
ClearFingerprint ==
    /\ pc[Api] = "clearing"
    /\ row' \in {row, [row EXCEPT !.fp = None]}
    /\ Call(Api, Payload("queued", None, FALSE, None))
    /\ Goto(Api, "idle")
    /\ UNCHANGED <<result, snap, core, pending, files, base, tool, bounds, landed>>

\* What status.json says when the replay reads it.  The payload of a run that
\* finished says what it was computed against; a restarted job's does not.
Replayed ==
    Payload(file.status, file.result, file.result \in Revisions,
            IF file.status = "done" /\ file.result \in Revisions
            THEN base[file.result] ELSE None)

Replay ==
    /\ sync = "pending"
    /\ calls[Sync] = None
    /\ Call(Sync, Replayed)
    /\ UNCHANGED <<db, files, pc, base, tool, bounds, landed>>

\* A process dies with what it was doing.
Crash(c) ==
    /\ crashes < MaxCrashes
    /\ calls[c] # None \/ (c # Sync /\ pc[c] \in Working \cup {"clearing"})
    /\ Return(c)
    /\ pc' = IF c = Sync THEN pc
             ELSE [pc EXCEPT ![c] = IF c = Api THEN "idle" ELSE "ended"]
    /\ crashes' = crashes + 1
    /\ UNCHANGED <<db, files, base, tool, requests, failures, landed>>

-----------------------------------------------------------------------------
(* The body of the pipeline (_run_pipeline_body) and its frame.            *)

\* current_revision: what the result of this run will be compared with.
BeginRun(r) ==
    /\ pc[r] = "idle"
    /\ file.status \in ActiveStatus
    /\ MayOverlap \/ \A q \in Runs : pc[q] \in {"idle", "ended"}
    /\ base' = [base EXCEPT ![r] = row.current]
    /\ Goto(r, "begun")
    /\ UNCHANGED <<db, files, calls, tool, bounds, landed>>

StartProcessing(r) ==
    /\ pc[r] = "begun"
    /\ file' = [status |-> "processing", result |-> None]
    /\ Call(r, Payload("processing", None, FALSE, None))
    /\ Goto(r, "starting")
    /\ UNCHANGED <<db, archive, pointer, sync, base, tool, bounds, landed>>

\* The OCR round is not complete: back to the queue.
Yield(r) ==
    /\ pc[r] = "parsing"
    /\ file' = [status |-> "queued", result |-> None]
    /\ Goto(r, "ended")
    /\ UNCHANGED <<db, archive, pointer, sync, calls, base, tool, bounds, landed>>

\* run_structured_ingest: the fact snapshot is stored and read back.
Ingest(r) ==
    /\ pc[r] = "parsing"
    /\ snap' = snap \cup {r}
    /\ Goto(r, "ingested")
    /\ UNCHANGED <<row, result, core, pending, files, calls, base, tool,
                   bounds, landed>>

Commit(r) ==
    /\ pc[r] = "ingested"
    /\ Call(r, Payload("done", r, TRUE, base[r]))
    /\ Goto(r, "committing")
    /\ UNCHANGED <<db, files, base, tool, bounds, landed>>

\* Mutant of Mirror: a job that is active again is left alone, but counts as
\* mirrored.
MirrorIdle(cleared) ==
    /\ row.current # None
    /\ IF file.status \in ActiveStatus
       THEN UNCHANGED <<archive, pointer, file>>
       ELSE /\ archive' = archive \cup {row.current}
            /\ pointer' = row.current
            /\ file' = [status |-> "done", result |-> row.current]
    /\ pending' = IF cleared THEN pending \ {row.current} ELSE pending
    /\ UNCHANGED <<row, result, snap, core, sync>>

\* synchronize_published_mirror, in a transaction that locks the row: the
\* files follow whatever is current by now.  The files stay written when the
\* transaction fails in the end (cleared = FALSE).
Mirror(cleared) ==
    /\ row.current # None
    /\ archive' = archive \cup {row.current}
    /\ pointer' = row.current
    /\ file' = [status |-> IF file.status \in ActiveStatus THEN file.status ELSE "done",
                result |-> row.current]
    /\ pending' = IF cleared THEN pending \ {row.current} ELSE pending
    /\ UNCHANGED <<row, result, snap, core, sync>>

MirrorRun(r) ==
    /\ pc[r] = "mirroring"
    /\ \/ Mirror(TRUE) /\ Goto(r, "finishing")
       \/ Mirror(FALSE) /\ UNCHANGED pc   \* and BodyFails is next
    /\ UNCHANGED <<calls, base, tool, bounds, landed>>

\* The last write of status.json; it archives the revision as well.
Finish(r) ==
    /\ pc[r] = "finishing"
    /\ file' = [status |-> "done", result |-> r]
    /\ archive' = archive \cup {r}
    /\ Goto(r, "ended")
    /\ UNCHANGED <<db, pointer, sync, calls, base, tool, bounds, landed>>

\* An error status is archived under a new revision id, and the pointer moved
\* to it, unless its payload carries the receipt of the fact snapshot; then it
\* is persisted as if it had brought a result.
WriteError(r, receipt) ==
    /\ file' = [status |-> "error", result |-> None]
    /\ pointer' = IF receipt THEN pointer ELSE ErrorRev
    /\ Call(r, Payload("error", Empty, receipt, None))
    /\ UNCHANGED <<db, archive, sync, base, tool, bounds, landed>>

\* except Exception: in the body, wherever it was.
BodyFails(r) ==
    /\ pc[r] \in Working
    /\ calls[r] = None
    /\ WriteError(r, pc[r] \in Receipted)
    /\ Goto(r, "failing")

\* A timeout or a cancellation: the frame writes the error, without receipt.
Interrupt(r) ==
    /\ pc[r] \in Working
    /\ WriteError(r, FALSE)
    /\ Goto(r, "interrupted")

-----------------------------------------------------------------------------
(* The rebuild of history (historical_rebuild.py).                         *)

\* The body in a copied directory: it reads the current revision and, at the
\* end, stages its snapshot and report; nothing shared changes in between.
Stage(k) ==
    /\ k \notin core /\ row.there
    /\ base' = [base EXCEPT ![k] = row.current]
    /\ snap' = snap \cup {k} /\ core' = core \cup {k}
    /\ UNCHANGED <<row, result, pending, files, calls, pc, tool, bounds, landed>>

PublishBatch(k) ==
    /\ k \in core /\ row.there
    /\ row.current = base[k]
    /\ StoreResult(Payload("done", k, TRUE, base[k]))
    /\ batch' = [batch EXCEPT ![k] = [row |-> row, result |-> result,
                                      undone |-> FALSE]]
    /\ UNCHANGED <<snap, files, calls, pc, base, bounds, rollbacks>>

\* The row and the result come back as they were before the publication.
RollbackBatch(k) ==
    /\ rollbacks < MaxRollbacks
    /\ batch[k] # None /\ ~batch[k].undone
    /\ row.current = k
    /\ row' = batch[k].row
    /\ result' = batch[k].result
    /\ pending' = pending \cup ({batch[k].row.current} \ {None})
    /\ batch' = [batch EXCEPT ![k].undone = TRUE]
    /\ rollbacks' = rollbacks + 1
    /\ UNCHANGED <<snap, core, files, calls, pc, base, bounds, landed>>

\* publish, rollback and sync end with the mirror; what was current before the
\* fact snapshots is restored from its raw_response.
MirrorBatch ==
    /\ \E k \in Candidates : batch[k] # None
    /\ \E cleared \in BOOLEAN : Mirror(cleared)
    /\ UNCHANGED <<calls, pc, base, tool, bounds, landed>>

RestoreLegacy(k) ==
    /\ batch[k] # None /\ batch[k].undone
    /\ row.current = None /\ batch[k].row.current = None
    /\ batch[k].result # None
    /\ file' = IF batch[k].result = Legacy
               THEN [status |-> "done", result |-> Legacy]
               ELSE [status |-> "error", result |-> None]
    /\ pointer' = None
    /\ UNCHANGED <<db, archive, sync, calls, pc, base, tool, bounds, landed>>

-----------------------------------------------------------------------------

RunStep(r) ==
    \/ BeginRun(r) \/ StartProcessing(r) \/ Yield(r) \/ Ingest(r) \/ Commit(r)
    \/ MirrorRun(r) \/ Finish(r) \/ BodyFails(r) \/ Interrupt(r)

BatchStep(k) ==
    Stage(k) \/ PublishBatch(k) \/ RollbackBatch(k) \/ RestoreLegacy(k)

Next ==
    \/ \E c \in Callers : PersistCommits(c) \/ PersistFails(c) \/ Crash(c)
    \/ Request \/ ClearFingerprint \/ Replay \/ MirrorBatch
    \/ \E r \in Runs : RunStep(r)
    \/ \E k \in Candidates : BatchStep(k)

Spec == Init /\ [][Next]_vars

-----------------------------------------------------------------------------
(* Properties.                                                             *)

\* The findings in analysis_results are those of the revision the row calls
\* current, or they belong to no revision: a superseded run leaves nothing.
ResultIsCurrent == result \in Revisions => row.current = result

\* What the row calls current can be read in full: snapshot and report are in
\* the database, and in the archive once the mirror is no longer pending.
CurrentIsComplete ==
    row.current # None =>
        /\ row.current \in snap \cap core
        /\ row.current \notin pending => row.current \in archive

\* A revision replaces only the one it was computed against, however long ago
\* the run read it, as long as no candidate has been rolled back; a rollback
\* replaces a candidate by what it had replaced (publish_snapshot,
\* rollback_batch).
ReplacesItsBase ==
    [][row'.current # row.current =>
         IF rollbacks' # rollbacks
         THEN base[row.current] = row'.current
         ELSE rollbacks = 0 => base[row'.current] = row.current]_vars

\* A generation (and so the basis token of a human review) stands for one
\* content only, as long as no candidate has been rolled back.
TokenIdentifiesResult ==
    rollbacks = 0 => \A a, b \in landed : a[1] = b[1] => a[2] = b[2]
=============================================================================
