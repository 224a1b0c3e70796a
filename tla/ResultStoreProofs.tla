-------------------------- MODULE ResultStoreProofs --------------------------
(***************************************************************************)
(* Proofs about ResultStore, for any runs, candidates and bounds: type     *)
(* correctness, that the stored result is the current one and can be read  *)
(* in full, that a generation names one result, and that a revision        *)
(* replaces the one it was computed against.                               *)
(***************************************************************************)
EXTENDS ResultStore, TLAPS

-----------------------------------------------------------------------------
(* Type correctness.                                                       *)

\* A fresh upload or a job of the past has the declared shape.
LEMMA TypeInit == Init => TypeOK
<1> SUFFICES ASSUME Init PROVE TypeOK
  OBVIOUS
<1>1. row \in Rows
  <2>1. NoRow \in Rows
    BY DEF NoRow, Rows, Statuses
  <2>2. [NoRow EXCEPT !.there = TRUE] \in Rows
    BY <2>1 DEF Rows
  <2>3. [there |-> TRUE, status |-> "done", gen |-> 1, fp |-> Legacy,
         current |-> None] \in Rows
    BY DEF Rows, Statuses, Contents
  <2> QED BY <2>1, <2>2, <2>3 DEF Init
<1>2. landed \subseteq Nat \X Contents /\ result \in Contents \cup {None}
  BY DEF Init, Contents
<1>3. file \in [status : Statuses, result : Revisions \cup {Legacy, None}]
  BY DEF Init, Statuses
<1>4. calls \in [Callers -> Calls \cup {None}]
  BY DEF Init
<1>5. pc \in [Runs \cup {Api} -> Steps]
  BY DEF Init, Steps
<1> QED BY <1>1, <1>2, <1>3, <1>4, <1>5 DEF Init, TypeOK

\* An upsert of a payload is a row (_upsert_analysis_job).
LEMMA UpsertedType ==
  ASSUME TypeOK, NEW p \in Payloads
  PROVE  Upserted(p) \in Rows
<1>1. row \in Rows /\ Generation(p.content) \in Nat
  BY DEF TypeOK, Rows, Generation
<1> QED BY <1>1 DEF Upserted, Rows, Payloads

\* Storing a result keeps the shape of the tables it writes.
LEMMA StoreResultType ==
  ASSUME TypeOK, NEW p \in Payloads, p.content # None, StoreResult(p)
  PROVE  /\ row' \in Rows
         /\ result' \in Contents \cup {None}
         /\ core' \subseteq Revisions /\ pending' \subseteq Revisions
         /\ landed' \subseteq Nat \X Contents
         /\ p.receipt => p.content \in Revisions
<1>1. p.content \in Contents /\ (p.receipt => p.content \in Revisions)
  BY DEF Payloads, StoreResult, Publishable, TypeOK
<1>2. row' \in Rows
  BY <1>1, UpsertedType DEF StoreResult, Rows
<1>3. <<row'.gen, p.content>> \in Nat \X Contents
  BY <1>1, <1>2 DEF Rows
<1> QED BY <1>1, <1>2, <1>3 DEF StoreResult, TypeOK

\* So does the transaction of one attempt (persist_analysis_job_snapshot).
LEMMA TransactionType ==
  ASSUME TypeOK, NEW p \in Payloads, Transaction(p)
  PROVE  /\ row' \in Rows
         /\ result' \in Contents \cup {None}
         /\ core' \subseteq Revisions /\ pending' \subseteq Revisions
         /\ landed' \subseteq Nat \X Contents
<1>1. CASE p.content = None
  <2>1. row' \in Rows
    BY <1>1, UpsertedType DEF Transaction, StoreProgress, Rows
  <2> QED BY <1>1, <2>1 DEF Transaction, StoreProgress, TypeOK
<1>2. CASE p.content # None
  BY <1>2, StoreResultType DEF Transaction
<1> QED BY <1>1, <1>2

\* A call that is open has a payload and attempts left.
LEMMA OpenCall ==
  ASSUME TypeOK, NEW c \in Callers, calls[c] # None
  PROVE  /\ calls[c] \in Calls /\ calls[c].payload \in Payloads
         /\ calls[c].left \in 1..Attempts
  BY DEF TypeOK, Calls

\* A new call keeps the shape of the table of calls.
LEMMA CallType ==
  ASSUME TypeOK, NEW c \in Callers, NEW p \in Payloads, Call(c, p)
  PROVE  calls' \in [Callers -> Calls \cup {None}]
<1>1. Attempts \in 1..Attempts
  BY StoreAssumption
<1>2. [payload |-> p, left |-> Attempts] \in Calls
  BY <1>1 DEF Calls
<1> QED BY <1>2 DEF Call, TypeOK

\* The caller goes on to one of the steps of the body.
LEMMA ContinueType ==
  ASSUME TypeOK, NEW c \in Callers, NEW stored \in BOOLEAN, Continue(c, stored)
  PROVE  pc' \in [Runs \cup {Api} -> Steps]
<1>1. {"parsing", "mirroring", "uncommitted", "ended"} \subseteq Steps
  BY DEF Steps, Working, Receipted
<1>2. CASE c \notin Runs
  BY <1>2 DEF Continue, TypeOK
<1>3. CASE c \in Runs
  <2>1. PICK step \in Steps : pc' = [pc EXCEPT ![c] = step]
    BY <1>1, <1>3 DEF Continue
  <2> QED BY <2>1, <1>3 DEF TypeOK
<1> QED BY <1>2, <1>3

\* An attempt, successful or not, and a crash keep the shape.
LEMMA TypeCaller ==
  ASSUME TypeOK, NEW c \in Callers,
         PersistCommits(c) \/ PersistFails(c) \/ Crash(c)
  PROVE  TypeOK'
<1>1. CASE PersistCommits(c)
  <2>1. /\ row' \in Rows /\ result' \in Contents \cup {None}
        /\ core' \subseteq Revisions /\ pending' \subseteq Revisions
        /\ landed' \subseteq Nat \X Contents
    BY <1>1, OpenCall, TransactionType DEF PersistCommits
  <2>2. pc' \in [Runs \cup {Api} -> Steps]
    BY <1>1, ContinueType DEF PersistCommits
  <2>3. calls' \in [Callers -> Calls \cup {None}]
    BY <1>1 DEF PersistCommits, Return, TypeOK
  <2> QED BY <1>1, <2>1, <2>2, <2>3 DEF PersistCommits, TypeOK, tool, bounds
<1>2. CASE PersistFails(c)
  <2>1. /\ row' \in Rows /\ result' \in Contents \cup {None}
        /\ core' \subseteq Revisions /\ pending' \subseteq Revisions
        /\ landed' \subseteq Nat \X Contents
    <3>1. CASE Transaction(calls[c].payload)
      BY <1>2, <3>1, OpenCall, TransactionType DEF PersistFails
    <3>2. CASE UNCHANGED <<row, result, core, pending, landed>>
      BY <3>2 DEF TypeOK
    <3> QED BY <1>2, <3>1, <3>2 DEF PersistFails
  <2>2. /\ pc' \in [Runs \cup {Api} -> Steps]
        /\ calls' \in [Callers -> Calls \cup {None}]
        /\ sync' \in {"none", "pending", "synced"}
    <3>1. CASE calls[c].left > 1
      <4>1. calls[c].left - 1 \in 1..Attempts
        BY <1>2, <3>1, OpenCall, StoreAssumption DEF PersistFails
      <4>2. [calls[c] EXCEPT !.left = @ - 1] \in Calls
        BY <1>2, <4>1, OpenCall DEF PersistFails, Calls
      <4>3. calls' = [calls EXCEPT ![c] = [calls[c] EXCEPT !.left = @ - 1]]
        BY <1>2, <3>1 DEF PersistFails, TypeOK
      <4> QED BY <1>2, <3>1, <4>2, <4>3 DEF PersistFails, TypeOK
    <3>2. CASE ~(calls[c].left > 1)
      BY <1>2, <3>2, ContinueType DEF PersistFails, Return, TypeOK
    <3> QED BY <3>1, <3>2
  <2> QED BY <1>2, <2>1, <2>2 DEF PersistFails, TypeOK, tool
<1>3. CASE Crash(c)
  <2>1. pc' \in [Runs \cup {Api} -> Steps]
    <3>1. {"idle", "ended"} \subseteq Steps
      BY DEF Steps
    <3>2. CASE c = Sync
      BY <1>3, <3>2 DEF Crash, TypeOK
    <3>3. CASE c # Sync
      <4>1. PICK step \in Steps : pc' = [pc EXCEPT ![c] = step]
        BY <1>3, <3>1, <3>3 DEF Crash
      <4> QED BY <4>1 DEF TypeOK
    <3> QED BY <3>2, <3>3
  <2>2. calls' \in [Callers -> Calls \cup {None}]
    BY <1>3 DEF Crash, Return, TypeOK
  <2> QED BY <1>3, <2>1, <2>2 DEF Crash, TypeOK, db, files, tool
<1> QED BY <1>1, <1>2, <1>3

\* The mirror keeps the shape of what it writes.
LEMMA MirrorType ==
  ASSUME TypeOK, NEW cleared \in BOOLEAN, Mirror(cleared)
  PROVE  /\ row' \in Rows /\ result' \in Contents \cup {None}
         /\ snap' \subseteq Revisions /\ core' \subseteq Revisions
         /\ pending' \subseteq Revisions /\ archive' \subseteq Revisions
         /\ pointer' \in Revisions \cup {None, ErrorRev}
         /\ file' \in [status : Statuses, result : Revisions \cup {Legacy, None}]
         /\ sync' \in {"none", "pending", "synced"}
<1>1. row.current \in Revisions
  BY DEF Mirror, TypeOK, Rows
<1>2. file'.status \in Statuses /\ file' = [status |-> file'.status, result |-> row.current]
  BY DEF Mirror, TypeOK, Statuses
<1> QED BY <1>1, <1>2 DEF Mirror, TypeOK

\* What start_analysis and the replay at startup do keeps the shape.
LEMMA TypeApi ==
  ASSUME TypeOK, Request \/ ClearFingerprint \/ Replay
  PROVE  TypeOK'
<1>a. Api \in Callers /\ Sync \in Callers /\ {"idle", "clearing"} \subseteq Steps
  BY DEF Callers, Steps
<1>1. CASE Request
  <2>1. pc' \in [Runs \cup {Api} -> Steps]
    BY <1>1, <1>a DEF Request, Goto, TypeOK
  <2>2. file' \in [status : Statuses, result : Revisions \cup {Legacy, None}]
    BY <1>1 DEF Request, Statuses, ActiveStatus
  <2> QED BY <1>1, <2>1, <2>2 DEF Request, TypeOK, db, tool
<1>2. CASE ClearFingerprint
  <2>1. pc' \in [Runs \cup {Api} -> Steps]
    BY <1>2, <1>a DEF ClearFingerprint, Goto, TypeOK
  <2>2. row' \in Rows
    BY <1>2 DEF ClearFingerprint, TypeOK, Rows
  <2>3. Payload("queued", None, FALSE, None) \in Payloads
    BY DEF Payload, Payloads, Statuses, ActiveStatus
  <2>4. calls' \in [Callers -> Calls \cup {None}]
    BY <1>2, <1>a, <2>3, CallType DEF ClearFingerprint
  <2> QED BY <1>2, <2>1, <2>2, <2>4 DEF ClearFingerprint, TypeOK, files, tool, bounds
<1>3. CASE Replay
  <2>1. /\ file.status \in Statuses /\ file.result \in Contents \cup {None}
        /\ file.result \in Revisions => base[file.result] \in Revisions \cup {None}
    BY DEF TypeOK, Contents
  <2>2. Replayed \in Payloads
    BY <2>1 DEF Replayed, Payload, Payloads
  <2>3. calls' \in [Callers -> Calls \cup {None}]
    BY <1>3, <1>a, <2>2, CallType DEF Replay
  <2> QED BY <1>3, <2>3 DEF Replay, TypeOK, db, files, tool, bounds
<1> QED BY <1>1, <1>2, <1>3

\* So does writing an error, from the body or from the frame.
LEMMA WriteErrorType ==
  ASSUME TypeOK, NEW r \in Runs, NEW receipt \in BOOLEAN, WriteError(r, receipt),
         NEW step \in Steps, Goto(r, step)
  PROVE  TypeOK'
<1>1. Payload("error", Empty, receipt, None) \in Payloads
  BY DEF Payload, Payloads, Statuses, Contents
<1>2. calls' \in [Callers -> Calls \cup {None}]
  BY <1>1, CallType DEF WriteError, Callers
<1>3. file' \in [status : Statuses, result : Revisions \cup {Legacy, None}]
  BY DEF WriteError, Statuses
<1>4. pc' \in [Runs \cup {Api} -> Steps]
  BY DEF Goto, TypeOK
<1> QED BY <1>2, <1>3, <1>4 DEF WriteError, TypeOK, db, tool, bounds

\* The body of the pipeline keeps the shape.
LEMMA TypeRun ==
  ASSUME TypeOK, NEW r \in Runs, RunStep(r)
  PROVE  TypeOK'
<1>a. r \in Callers /\ r \in Revisions /\ r \in Contents
  BY DEF Callers, Revisions, Contents
<1>b. {"begun", "starting", "ended", "ingested", "committing", "finishing",
       "failing", "interrupted"} \subseteq Steps
  BY DEF Steps, Working, Receipted
<1>1. CASE BeginRun(r)
  <2>1. pc' \in [Runs \cup {Api} -> Steps]
    BY <1>1, <1>b DEF BeginRun, Goto, TypeOK
  <2>2. base' \in [Revisions -> Revisions \cup {None}]
    BY <1>1 DEF BeginRun, TypeOK, Rows
  <2> QED BY <1>1, <2>1, <2>2 DEF BeginRun, TypeOK, db, files, tool, bounds
<1>2. CASE StartProcessing(r)
  <2>1. pc' \in [Runs \cup {Api} -> Steps]
    BY <1>2, <1>b DEF StartProcessing, Goto, TypeOK
  <2>2. Payload("processing", None, FALSE, None) \in Payloads
    BY DEF Payload, Payloads, Statuses, ActiveStatus
  <2>3. calls' \in [Callers -> Calls \cup {None}]
    BY <1>2, <1>a, <2>2, CallType DEF StartProcessing
  <2>4. file' \in [status : Statuses, result : Revisions \cup {Legacy, None}]
    BY <1>2 DEF StartProcessing, Statuses, ActiveStatus
  <2> QED BY <1>2, <2>1, <2>3, <2>4 DEF StartProcessing, TypeOK, db, tool, bounds
<1>3. CASE Yield(r)
  <2>1. pc' \in [Runs \cup {Api} -> Steps]
    BY <1>3, <1>b DEF Yield, Goto, TypeOK
  <2>2. file' \in [status : Statuses, result : Revisions \cup {Legacy, None}]
    BY <1>3 DEF Yield, Statuses, ActiveStatus
  <2> QED BY <1>3, <2>1, <2>2 DEF Yield, TypeOK, db, tool, bounds
<1>4. CASE Ingest(r)
  <2>1. pc' \in [Runs \cup {Api} -> Steps]
    BY <1>4, <1>b DEF Ingest, Goto, TypeOK
  <2> QED BY <1>4, <1>a, <2>1 DEF Ingest, TypeOK, files, tool, bounds
<1>5. CASE Commit(r)
  <2>1. pc' \in [Runs \cup {Api} -> Steps]
    BY <1>5, <1>b DEF Commit, Goto, TypeOK
  <2>2. Payload("done", r, TRUE, base[r]) \in Payloads
    BY <1>a DEF Payload, Payloads, Statuses, TypeOK
  <2>3. calls' \in [Callers -> Calls \cup {None}]
    BY <1>5, <1>a, <2>2, CallType DEF Commit
  <2> QED BY <1>5, <2>1, <2>3 DEF Commit, TypeOK, db, files, tool, bounds
<1>6. CASE MirrorRun(r)
  <2>1. pc' \in [Runs \cup {Api} -> Steps]
    BY <1>6, <1>b DEF MirrorRun, Goto, TypeOK
  <2>2. \E cleared \in BOOLEAN : Mirror(cleared)
    BY <1>6 DEF MirrorRun
  <2> QED BY <1>6, <2>1, <2>2, MirrorType DEF MirrorRun, TypeOK, tool, bounds
<1>7. CASE Finish(r)
  <2>1. pc' \in [Runs \cup {Api} -> Steps]
    BY <1>7, <1>b DEF Finish, Goto, TypeOK
  <2>2. file' \in [status : Statuses, result : Revisions \cup {Legacy, None}]
    BY <1>7, <1>a DEF Finish, Statuses
  <2> QED BY <1>7, <1>a, <2>1, <2>2 DEF Finish, TypeOK, db, tool, bounds
<1>8. CASE BodyFails(r)
  <2>1. (pc[r] \in Receipted) \in BOOLEAN
    OBVIOUS
  <2> QED BY <1>8, <1>b, <2>1, WriteErrorType DEF BodyFails
<1>9. CASE Interrupt(r)
  BY <1>9, <1>b, WriteErrorType DEF Interrupt
<1> QED BY <1>1, <1>2, <1>3, <1>4, <1>5, <1>6, <1>7, <1>8, <1>9 DEF RunStep

\* The rebuild of history keeps the shape.
LEMMA TypeBatch ==
  ASSUME TypeOK, NEW k \in Candidates, BatchStep(k)
  PROVE  TypeOK'
<1>a. k \in Revisions /\ k \in Contents /\ k # None
  BY StoreAssumption DEF Revisions, Contents
<1>1. CASE Stage(k)
  <2>1. base' \in [Revisions -> Revisions \cup {None}]
    BY <1>1 DEF Stage, TypeOK, Rows
  <2> QED BY <1>1, <1>a, <2>1 DEF Stage, TypeOK, files, tool, bounds
<1>2. CASE PublishBatch(k)
  <2> DEFINE p == Payload("done", k, TRUE, base[k])
  <2>1. p \in Payloads /\ p.content = k
    BY <1>a DEF Payload, Payloads, Statuses, TypeOK
  <2>2. StoreResult(p)
    BY <1>2 DEF PublishBatch
  <2> HIDE DEF p
  <2>3. /\ row' \in Rows /\ result' \in Contents \cup {None}
        /\ core' \subseteq Revisions /\ pending' \subseteq Revisions
        /\ landed' \subseteq Nat \X Contents
    BY <1>a, <2>1, <2>2, StoreResultType
  <2>4. batch' \in [Candidates -> [row : Rows, result : Contents \cup {None},
                                  undone : BOOLEAN] \cup {None}]
    BY <1>2 DEF PublishBatch, TypeOK
  <2> QED BY <1>2, <2>3, <2>4 DEF PublishBatch, TypeOK, files, bounds
<1>3. CASE RollbackBatch(k)
  <2>1. batch[k] \in [row : Rows, result : Contents \cup {None}, undone : BOOLEAN]
    BY <1>3 DEF RollbackBatch, TypeOK
  <2>2. batch[k].row \in Rows /\ batch[k].row.current \in Revisions \cup {None}
    BY <2>1 DEF Rows
  <2>3. batch' \in [Candidates -> [row : Rows, result : Contents \cup {None},
                                  undone : BOOLEAN] \cup {None}]
    <3>1. batch' = [batch EXCEPT ![k] = [batch[k] EXCEPT !.undone = TRUE]]
      BY <1>3 DEF RollbackBatch, TypeOK
    <3> QED BY <2>1, <3>1 DEF TypeOK
  <2> QED BY <1>3, <2>1, <2>2, <2>3 DEF RollbackBatch, TypeOK, files, bounds
<1>4. CASE RestoreLegacy(k)
  <2>1. file' \in [status : Statuses, result : Revisions \cup {Legacy, None}]
    BY <1>4 DEF RestoreLegacy, Statuses
  <2> QED BY <1>4, <2>1 DEF RestoreLegacy, TypeOK, db, tool, bounds
<1> QED BY <1>1, <1>2, <1>3, <1>4 DEF BatchStep

\* Every step keeps the shape.
LEMMA TypeNext == TypeOK /\ [Next]_vars => TypeOK'
<1> SUFFICES ASSUME TypeOK, [Next]_vars PROVE TypeOK'
  OBVIOUS
<1>1. CASE UNCHANGED vars
  BY <1>1 DEF vars, db, files, tool, bounds, TypeOK
<1>2. CASE MirrorBatch
  BY <1>2, MirrorType DEF MirrorBatch, TypeOK, tool, bounds
<1>3. CASE Next /\ ~MirrorBatch
  BY <1>3, TypeCaller, TypeApi, TypeRun, TypeBatch DEF Next
<1> QED BY <1>1, <1>2, <1>3

\* TypeOK is an invariant of the store.
THEOREM TypeCorrect == Spec => []TypeOK
<1> QED BY TypeInit, TypeNext, PTL DEF Spec

-----------------------------------------------------------------------------
(* The stored result is the current one and can be read in full.           *)

\* What a rollback brings back could be read when it was replaced.
BatchesComplete ==
    \A k \in Candidates : batch[k] # None =>
        /\ batch[k].result \in Revisions => batch[k].row.current = batch[k].result
        /\ batch[k].row.current # None => batch[k].row.current \in snap \cap core

\* A payload with the result of a revision carries its receipt, so that the
\* transaction that stores it also publishes it.
RevisionsHaveReceipts ==
    \A c \in Callers : calls[c] # None /\ calls[c].payload.content \in Revisions
                         => calls[c].payload.receipt

TablesInv == ResultIsCurrent /\ CurrentIsComplete /\ BatchesComplete

StoreInv == TypeOK /\ TablesInv /\ RevisionsHaveReceipts

LEMMA StoreInit == Init => StoreInv
<1> SUFFICES ASSUME Init PROVE StoreInv
  OBVIOUS
<1>1. row.current = None
  BY DEF Init, NoRow
<1>2. result \notin Revisions
  BY StoreAssumption DEF Init
<1>3. BatchesComplete /\ RevisionsHaveReceipts
  BY DEF Init, BatchesComplete, RevisionsHaveReceipts
<1> QED BY <1>1, <1>2, <1>3, TypeInit
           DEF StoreInv, TablesInv, ResultIsCurrent, CurrentIsComplete

\* A step that leaves the current revision alone and takes nothing away keeps
\* the tables right.
LEMMA TablesGrow ==
  ASSUME TablesInv, row'.current = row.current,
         result' = result \/ result' \notin Revisions,
         snap \subseteq snap', core \subseteq core', pending \subseteq pending',
         archive \subseteq archive', batch' = batch
  PROVE  TablesInv'
  BY DEF TablesInv, ResultIsCurrent, CurrentIsComplete, BatchesComplete

\* So does storing the result of a revision with its receipt.
LEMMA TablesPublish ==
  ASSUME TypeOK, TablesInv, NEW p, p.receipt, p.content # None, StoreResult(p),
         snap' = snap, archive' = archive
  PROVE  /\ ResultIsCurrent' /\ CurrentIsComplete'
         /\ core \subseteq core'
<1>1. row'.current = p.content /\ result' = p.content
  BY DEF StoreResult, Upserted
<1>2. p.content \in snap' \cap core' /\ p.content \in pending'
  BY DEF StoreResult, Publishable
<1>3. core \subseteq core'
  BY DEF StoreResult
<1> QED BY <1>1, <1>2, <1>3 DEF ResultIsCurrent, CurrentIsComplete

\* An attempt keeps the tables right.
LEMMA TablesTransaction ==
  ASSUME StoreInv, NEW c \in Callers, calls[c] # None,
         Transaction(calls[c].payload),
         snap' = snap, archive' = archive, batch' = batch
  PROVE  TablesInv'
<1> DEFINE p == calls[c].payload
<1>1. p \in Payloads
  BY OpenCall DEF StoreInv
<1>2. p.content \in Revisions => p.receipt
  BY DEF StoreInv, RevisionsHaveReceipts
<1>3. Transaction(p)
  OBVIOUS
<1> HIDE DEF p
<1>4. CASE p.content = None
  <2>1. row'.current = row.current /\ (result' = result \/ result' = None)
    BY <1>3, <1>4 DEF Transaction, StoreProgress, Upserted
  <2>2. core' = core /\ pending' = pending
    BY <1>3, <1>4 DEF Transaction, StoreProgress
  <2> QED BY <2>1, <2>2, TablesGrow, StoreAssumption DEF StoreInv
<1>5. CASE p.content # None /\ p.receipt
  <2>1. ResultIsCurrent' /\ CurrentIsComplete' /\ core \subseteq core'
    BY <1>3, <1>5, TablesPublish DEF Transaction, StoreInv
  <2> QED BY <2>1 DEF StoreInv, TablesInv, BatchesComplete
<1>6. CASE p.content # None /\ ~p.receipt
  <2>1. row'.current = row.current /\ result' \notin Revisions
    BY <1>2, <1>3, <1>6 DEF Transaction, StoreResult, Upserted
  <2>2. core' = core /\ pending' = pending
    BY <1>3, <1>6 DEF Transaction, StoreResult
  <2> QED BY <2>1, <2>2, TablesGrow DEF StoreInv
<1> QED BY <1>4, <1>5, <1>6

\* The mirror completes the archive before it clears the mark.
LEMMA TablesMirror ==
  ASSUME TablesInv, NEW cleared \in BOOLEAN, Mirror(cleared), batch' = batch
  PROVE  TablesInv'
  BY DEF Mirror, TablesInv, ResultIsCurrent, CurrentIsComplete, BatchesComplete

\* What is not the mirror, an attempt or a batch leaves the tables right.
LEMMA TablesRun ==
  ASSUME TypeOK, TablesInv, NEW r \in Runs, RunStep(r)
  PROVE  TablesInv'
<1>1. CASE \E cleared \in BOOLEAN : Mirror(cleared) /\ batch' = batch
  BY <1>1, TablesMirror
<1>2. CASE /\ row' = row /\ result' = result /\ batch' = batch
           /\ snap \subseteq snap' /\ core' = core /\ pending' = pending
           /\ archive \subseteq archive'
  BY <1>2, TablesGrow
<1>3. MirrorRun(r) => \E cleared \in BOOLEAN : Mirror(cleared) /\ batch' = batch
  BY DEF MirrorRun, tool
<1> QED BY <1>1, <1>2, <1>3 DEF RunStep, BeginRun, StartProcessing, Yield, Ingest,
      Commit, Finish, BodyFails, Interrupt, WriteError, db, files, tool

\* The rebuild of history keeps the tables right.
LEMMA TablesBatch ==
  ASSUME TypeOK, TablesInv, NEW k \in Candidates, BatchStep(k)
  PROVE  TablesInv'
<1>a. k \in Revisions /\ k # None
  BY StoreAssumption DEF Revisions
<1>1. CASE Stage(k)
  BY <1>1, TablesGrow DEF Stage, files, tool
<1>2. CASE PublishBatch(k)
  <2> DEFINE p == Payload("done", k, TRUE, base[k])
  <2>1. p.content = k /\ p.receipt /\ StoreResult(p)
    BY <1>2 DEF PublishBatch, Payload
  <2>2. snap' = snap /\ archive' = archive
    BY <1>2 DEF PublishBatch, files
  <2> HIDE DEF p
  <2>3. ResultIsCurrent' /\ CurrentIsComplete' /\ core \subseteq core'
    BY <1>a, <2>1, <2>2, TablesPublish
  <2>4. batch' = [batch EXCEPT ![k] = [row |-> row, result |-> result,
                                       undone |-> FALSE]]
    BY <1>2 DEF PublishBatch
  <2>5. BatchesComplete'
    <3> SUFFICES ASSUME NEW q \in Candidates, batch'[q] # None
                 PROVE  /\ batch'[q].result \in Revisions
                             => batch'[q].row.current = batch'[q].result
                        /\ batch'[q].row.current # None
                             => batch'[q].row.current \in snap' \cap core'
      BY DEF BatchesComplete
    <3>1. CASE q = k
      BY <2>2, <2>3, <2>4, <3>1
         DEF TypeOK, TablesInv, ResultIsCurrent, CurrentIsComplete
    <3>2. CASE q # k
      BY <2>2, <2>3, <2>4, <3>2 DEF TypeOK, TablesInv, BatchesComplete
    <3> QED BY <3>1, <3>2
  <2> QED BY <2>3, <2>5 DEF TablesInv
<1>3. CASE RollbackBatch(k)
  <2>1. /\ batch[k].result \in Revisions => batch[k].row.current = batch[k].result
        /\ batch[k].row.current # None => batch[k].row.current \in snap \cap core
    BY <1>3 DEF RollbackBatch, TablesInv, BatchesComplete
  <2>2. ResultIsCurrent' /\ CurrentIsComplete'
    BY <1>3, <2>1 DEF RollbackBatch, ResultIsCurrent, CurrentIsComplete
  <2>3. \A q \in Candidates : batch'[q] # None =>
           /\ batch[q] # None
           /\ batch'[q].row = batch[q].row /\ batch'[q].result = batch[q].result
    <3>1. batch[k] \in [row : Rows, result : Contents \cup {None}, undone : BOOLEAN]
      BY <1>3 DEF RollbackBatch, TypeOK
    <3> QED BY <1>3, <3>1 DEF RollbackBatch, TypeOK
  <2>4. BatchesComplete'
    BY <1>3, <2>3 DEF RollbackBatch, TablesInv, BatchesComplete
  <2> QED BY <2>2, <2>4 DEF TablesInv
<1>4. CASE RestoreLegacy(k)
  BY <1>4, TablesGrow DEF RestoreLegacy, db, tool
<1> QED BY <1>1, <1>2, <1>3, <1>4 DEF BatchStep

\* No caller opens a call for a revision without the receipt.
LEMMA ReceiptsNext ==
  ASSUME TypeOK, RevisionsHaveReceipts, Next
  PROVE  RevisionsHaveReceipts'
<1>1. ASSUME NEW c \in Callers, NEW p \in Payloads, Call(c, p),
             p.content \in Revisions => p.receipt
      PROVE  RevisionsHaveReceipts'
  BY <1>1 DEF Call, TypeOK, RevisionsHaveReceipts
<1>2. ASSUME NEW c \in Callers, Return(c)
      PROVE  RevisionsHaveReceipts'
  BY <1>2 DEF Return, TypeOK, RevisionsHaveReceipts
<1>3. CASE calls' = calls
  BY <1>3 DEF RevisionsHaveReceipts
<1>4. ASSUME NEW c \in Callers, PersistCommits(c) \/ PersistFails(c) \/ Crash(c)
      PROVE  RevisionsHaveReceipts'
  <2>1. CASE calls' = [calls EXCEPT ![c].left = @ - 1] /\ calls[c] # None
    <3>1. \A d \in Callers : calls'[d] # None
             => calls[d] # None /\ calls'[d].payload = calls[d].payload
      BY <2>1, OpenCall DEF TypeOK, Calls
    <3> QED BY <3>1 DEF RevisionsHaveReceipts
  <2> QED BY <1>2, <1>4, <2>1 DEF PersistCommits, PersistFails, Crash
<1>5. CASE ClearFingerprint \/ Replay
  <2>1. /\ Payload("queued", None, FALSE, None) \in Payloads
        /\ Payload("queued", None, FALSE, None).content \notin Revisions
    BY StoreAssumption DEF Payload, Payloads, Statuses, ActiveStatus
  <2>2. /\ file.status \in Statuses /\ file.result \in Contents \cup {None}
        /\ file.result \in Revisions => base[file.result] \in Revisions \cup {None}
    BY DEF TypeOK, Contents
  <2>3. Replayed \in Payloads /\ (Replayed.content \in Revisions => Replayed.receipt)
    <3>1. Replayed \in Payloads
      BY <2>2 DEF Replayed, Payload, Payloads
    <3>2. /\ Replayed.content = file.result
          /\ Replayed.receipt = (file.result \in Revisions)
      BY Zenon DEF Replayed, Payload
    <3> QED BY <3>1, <3>2
  <2>4. Api \in Callers /\ Sync \in Callers
    BY DEF Callers
  <2>5. CASE ClearFingerprint
    BY <1>1, <2>1, <2>4, <2>5 DEF ClearFingerprint
  <2>6. CASE Replay
    BY <1>1, <2>3, <2>4, <2>6 DEF Replay
  <2> QED BY <1>5, <2>5, <2>6
<1>6. ASSUME NEW r \in Runs, RunStep(r)
      PROVE  RevisionsHaveReceipts'
  <2>a. r \in Callers /\ r \in Revisions
    BY DEF Callers, Revisions
  <2>1. CASE StartProcessing(r)
    <3>1. /\ Payload("processing", None, FALSE, None) \in Payloads
          /\ Payload("processing", None, FALSE, None).content \notin Revisions
      BY StoreAssumption DEF Payload, Payloads, Statuses, ActiveStatus
    <3> QED BY <1>1, <2>1, <2>a, <3>1 DEF StartProcessing
  <2>2. CASE Commit(r)
    <3>1. /\ Payload("done", r, TRUE, base[r]) \in Payloads
          /\ Payload("done", r, TRUE, base[r]).receipt
      BY <2>a DEF Payload, Payloads, Statuses, TypeOK, Contents
    <3> QED BY <1>1, <2>2, <2>a, <3>1 DEF Commit
  <2>3. CASE BodyFails(r) \/ Interrupt(r)
    <3>1. \A receipt \in BOOLEAN :
             /\ Payload("error", Empty, receipt, None) \in Payloads
             /\ Payload("error", Empty, receipt, None).content \notin Revisions
      BY StoreAssumption DEF Payload, Payloads, Statuses, Contents
    <3>2. ASSUME NEW receipt \in BOOLEAN, WriteError(r, receipt)
          PROVE  RevisionsHaveReceipts'
      BY <1>1, <2>a, <3>1, <3>2 DEF WriteError
    <3>3. (pc[r] \in Receipted) \in BOOLEAN
      OBVIOUS
    <3> QED BY <2>3, <3>2, <3>3 DEF BodyFails, Interrupt
  <2>4. CASE calls' = calls
    BY <1>3, <2>4
  <2> QED BY <1>6, <2>1, <2>2, <2>3, <2>4 DEF RunStep, BeginRun, Yield, Ingest,
        MirrorRun, Finish
<1>7. CASE Request \/ MirrorBatch \/ \E k \in Candidates : BatchStep(k)
  BY <1>3, <1>7 DEF Request, MirrorBatch, BatchStep, Stage, PublishBatch,
       RollbackBatch, RestoreLegacy
<1> QED BY <1>4, <1>5, <1>6, <1>7 DEF Next

LEMMA StoreNext == StoreInv /\ [Next]_vars => StoreInv'
<1> SUFFICES ASSUME StoreInv, [Next]_vars PROVE StoreInv'
  OBVIOUS
<1>1. CASE UNCHANGED vars
  BY <1>1, TypeNext DEF StoreInv, TablesInv, ResultIsCurrent, CurrentIsComplete,
       BatchesComplete, RevisionsHaveReceipts, vars, db, files, tool
<1>2. CASE Next
  <2>1. TypeOK' /\ RevisionsHaveReceipts'
    BY <1>2, TypeNext, ReceiptsNext DEF StoreInv
  <2>2. TablesInv'
    <3>1. ASSUME NEW c \in Callers,
                 PersistCommits(c) \/ PersistFails(c) \/ Crash(c)
          PROVE  TablesInv'
      <4>1. CASE /\ calls[c] # None /\ Transaction(calls[c].payload)
                 /\ snap' = snap /\ archive' = archive /\ batch' = batch
        BY <4>1, TablesTransaction
      <4>2. CASE UNCHANGED <<row, result, core, pending, snap, archive, batch>>
        BY <4>2, TablesGrow DEF StoreInv
      <4> QED BY <3>1, <4>1, <4>2
                 DEF PersistCommits, PersistFails, Crash, db, files, tool
    <3>2. CASE Request \/ ClearFingerprint \/ Replay
      <4>1. row'.current = row.current
        BY <3>2 DEF Request, ClearFingerprint, Replay, db, StoreInv, TypeOK, Rows
      <4> QED BY <3>2, <4>1, TablesGrow
                 DEF Request, ClearFingerprint, Replay, db, files, tool, StoreInv
    <3>3. CASE MirrorBatch
      BY <3>3, TablesMirror DEF MirrorBatch, tool, StoreInv
    <3> QED BY <1>2, <3>1, <3>2, <3>3, TablesRun, TablesBatch DEF Next, StoreInv
  <2> QED BY <2>1, <2>2 DEF StoreInv
<1> QED BY <1>1, <1>2

\* A superseded run leaves nothing of its own in the database: whatever is
\* stored belongs to the revision the row calls current.
THEOREM ResultCurrent == Spec => []ResultIsCurrent
<1>1. StoreInv => ResultIsCurrent
  BY DEF StoreInv, TablesInv
<1> QED BY <1>1, StoreInit, StoreNext, PTL DEF Spec

\* The revision the row calls current can be read from the database, and from
\* the archive once the mirror is done.
THEOREM CurrentComplete == Spec => []CurrentIsComplete
<1>1. StoreInv => CurrentIsComplete
  BY DEF StoreInv, TablesInv
<1> QED BY <1>1, StoreInit, StoreNext, PTL DEF Spec

-----------------------------------------------------------------------------
(* A generation names one result.                                          *)

\* The row is at the latest generation that holds a result, and its
\* fingerprint, while it has one, is the content of that generation.
RowIsLatest ==
    rollbacks = 0 =>
        \A a \in landed : /\ a[1] <= row.gen
                          /\ row.fp # None /\ a[1] = row.gen => a[2] = row.fp

TokenInv == TypeOK /\ RowIsLatest /\ TokenIdentifiesResult

LEMMA TokenInit == Init => TokenInv
<1> SUFFICES ASSUME Init PROVE TokenInv
  OBVIOUS
<1>1. landed = {} \/ (landed = {<<1, Legacy>>} /\ row.gen = 1 /\ row.fp = Legacy)
  BY DEF Init
<1> QED BY <1>1, TypeInit DEF TokenInv, RowIsLatest, TokenIdentifiesResult

\* Storing a result: the generation is new, or the content is the same
\* (_upsert_analysis_job).
LEMMA TokenStore ==
  ASSUME TokenInv, NEW p \in Payloads, p.content # None, StoreResult(p),
         rollbacks' = rollbacks
  PROVE  RowIsLatest' /\ TokenIdentifiesResult'
<1>1. row'.gen = Generation(p.content) /\ row'.fp = p.content
  BY DEF StoreResult, Upserted
<1>2. landed' = landed \cup {<<row'.gen, p.content>>}
  BY DEF StoreResult
<1>3. /\ row.gen \in Nat
      /\ \A a \in landed : a[1] \in Nat
  BY DEF TokenInv, TypeOK, Rows
<1>4. CASE p.content = row.fp
  <2>1. row'.gen = row.gen
    BY <1>1, <1>4 DEF Generation
  <2> QED BY <1>1, <1>2, <1>3, <1>4, <2>1
          DEF TokenInv, RowIsLatest, TokenIdentifiesResult
<1>5. CASE p.content # row.fp
  <2>1. row'.gen = row.gen + 1
    BY <1>1, <1>5 DEF Generation
  <2> QED BY <1>1, <1>2, <1>3, <2>1 DEF TokenInv, RowIsLatest, TokenIdentifiesResult
<1> QED BY <1>4, <1>5

\* A step that stores no result may forget the fingerprint, no more.
LEMMA TokenKeep ==
  ASSUME TokenInv, landed' = landed, row'.gen = row.gen,
         row'.fp = row.fp \/ row'.fp = None, rollbacks' = rollbacks
  PROVE  RowIsLatest' /\ TokenIdentifiesResult'
  BY DEF TokenInv, RowIsLatest, TokenIdentifiesResult

LEMMA TokenTransaction ==
  ASSUME TokenInv, NEW p \in Payloads, Transaction(p), rollbacks' = rollbacks
  PROVE  RowIsLatest' /\ TokenIdentifiesResult'
<1>1. CASE p.content # None
  BY <1>1, TokenStore DEF Transaction
<1>2. CASE p.content = None
  <2>1. /\ landed' = landed /\ row'.gen = row.gen
        /\ row'.fp = row.fp \/ row'.fp = None
    BY <1>2 DEF Transaction, StoreProgress, Upserted, Generation
  <2> QED BY <2>1, TokenKeep
<1> QED BY <1>1, <1>2

LEMMA TokenNext == TokenInv /\ [Next]_vars => TokenInv'
<1> SUFFICES ASSUME TokenInv, [Next]_vars PROVE TokenInv'
  OBVIOUS
<1>a. TypeOK' /\ TypeOK
  BY TypeNext DEF TokenInv
<1> SUFFICES RowIsLatest' /\ TokenIdentifiesResult'
  BY <1>a DEF TokenInv
<1>1. CASE UNCHANGED <<row, landed, rollbacks>>
  BY <1>1, TokenKeep
<1>2. CASE UNCHANGED vars
  BY <1>1, <1>2 DEF vars, db, tool
<1>3. ASSUME NEW c \in Callers, PersistCommits(c) \/ PersistFails(c) \/ Crash(c)
      PROVE  RowIsLatest' /\ TokenIdentifiesResult'
  <2>1. CASE /\ calls[c] # None /\ Transaction(calls[c].payload)
             /\ rollbacks' = rollbacks
    BY <1>a, <2>1, OpenCall, TokenTransaction
  <2> QED BY <1>1, <1>3, <2>1 DEF PersistCommits, PersistFails, Crash, db, tool
<1>4. CASE ClearFingerprint
  <2>1. /\ row'.gen = row.gen /\ (row'.fp = row.fp \/ row'.fp = None)
        /\ landed' = landed /\ rollbacks' = rollbacks
    BY <1>4, <1>a DEF ClearFingerprint, tool, TypeOK, Rows
  <2> QED BY <2>1, TokenKeep
<1>5. CASE Request \/ Replay \/ MirrorBatch \/ \E r \in Runs : RunStep(r)
  <2>1. UNCHANGED <<row, landed, rollbacks>>
    BY <1>5 DEF Request, Replay, MirrorBatch, Mirror, RunStep, BeginRun,
       StartProcessing, Yield, Ingest, Commit, MirrorRun, Finish, BodyFails,
       Interrupt, WriteError, db, tool
  <2> QED BY <1>1, <2>1
<1>6. ASSUME NEW k \in Candidates, BatchStep(k)
      PROVE  RowIsLatest' /\ TokenIdentifiesResult'
  <2>1. CASE Stage(k) \/ RestoreLegacy(k)
    BY <1>1, <2>1 DEF Stage, RestoreLegacy, db, tool
  <2>2. CASE PublishBatch(k)
    <3> DEFINE p == Payload("done", k, TRUE, base[k])
    <3>1. p \in Payloads /\ p.content = k /\ k # None
      BY <1>a, StoreAssumption
         DEF Payload, Payloads, Statuses, TypeOK, Contents, Revisions
    <3>2. StoreResult(p) /\ rollbacks' = rollbacks
      BY <2>2 DEF PublishBatch
    <3> HIDE DEF p
    <3> QED BY <3>1, <3>2, TokenStore
  <2>3. CASE RollbackBatch(k)
    <3>1. rollbacks' # 0
      BY <2>3, <1>a DEF RollbackBatch, TypeOK
    <3> QED BY <3>1 DEF RowIsLatest, TokenIdentifiesResult
  <2> QED BY <1>6, <2>1, <2>2, <2>3 DEF BatchStep
<1> QED BY <1>2, <1>3, <1>4, <1>5, <1>6 DEF Next

\* The generation a review refers to stands for one content, as long as
\* nothing has been rolled back.
THEOREM TokenIdentifies == Spec => []TokenIdentifiesResult
<1>1. TokenInv => TokenIdentifiesResult
  BY DEF TokenInv
<1> QED BY <1>1, TokenInit, TokenNext, PTL DEF Spec

-----------------------------------------------------------------------------
(* A revision replaces the one it was computed against.                    *)

\* Revision v has been computed, or its run has begun: base[v] is final.
Fixed(v) == (v \in Runs => pc[v] # "idle") /\ (v \in Candidates => v \in core)

\* The payload says what its revision was computed against, or nothing, and
\* then it cannot be taken for the first result.
Knows(p) ==
    p.content \in Revisions =>
        /\ Fixed(p.content)
        /\ p.over = base[p.content] \/ (p.over = None /\ row.current # None)

CallsKnow == \A c \in Callers : calls[c] # None => Knows(calls[c].payload)

\* status.json holds a revision only when one has been published.
FileFollows ==
    /\ file.result \in Revisions => row.current # None /\ Fixed(file.result)
    /\ row.current # None => Fixed(row.current)
    /\ \A r \in Runs : pc[r] = "finishing" => row.current # None

\* A rollback restores what its candidate was computed against.
BatchesKnow ==
    \A k \in Candidates : batch[k] # None =>
        base[k] = batch[k].row.current /\ k \in core

BaseInv == /\ TypeOK /\ BatchesKnow
           /\ rollbacks = 0 => CallsKnow /\ FileFollows

LEMMA BaseInit == Init => BaseInv
<1> SUFFICES ASSUME Init PROVE BaseInv
  OBVIOUS
<1>1. row.current = None /\ file.result \notin Revisions
  BY StoreAssumption DEF Init, NoRow
<1>2. BatchesKnow /\ CallsKnow /\ \A r \in Runs : pc[r] # "finishing"
  BY DEF Init, BatchesKnow, CallsKnow
<1> QED BY <1>1, <1>2, TypeInit DEF BaseInv, FileFollows

\* What a transaction does to the pointer: nothing, or it moves it to the
\* content of its payload, from where the payload expects it (publish_snapshot).
LEMMA TransactionMoves ==
  ASSUME TypeOK, NEW p \in Payloads, Transaction(p)
  PROVE  /\ core \subseteq core'
         /\ row'.current # row.current =>
              /\ p.content \in Revisions /\ row'.current = p.content
              /\ row.current = p.over
<1>1. CASE p.content = None
  BY <1>1 DEF Transaction, StoreProgress, Upserted
<1>2. CASE p.content # None
  BY <1>2 DEF Transaction, StoreResult, Publishable, Upserted, TypeOK
<1> QED BY <1>1, <1>2

\* What an attempt or a crash does, as far as the base of a revision goes.
LEMMA CallerMoves ==
  ASSUME TypeOK, NEW c \in Callers,
         PersistCommits(c) \/ PersistFails(c) \/ Crash(c)
  PROVE  /\ base' = base /\ batch' = batch /\ rollbacks' = rollbacks
         /\ file' = file /\ core \subseteq core'
         /\ \A r \in Runs : /\ pc'[r] = "idle" => pc[r] = "idle"
                            /\ pc'[r] = "finishing" => pc[r] = "finishing"
         /\ \A d \in Callers : calls'[d] # None =>
              calls[d] # None /\ calls'[d].payload = calls[d].payload
         /\ row'.current # row.current =>
              /\ calls[c] # None /\ calls[c].payload.content \in Revisions
              /\ row'.current = calls[c].payload.content
              /\ row.current = calls[c].payload.over
<1>1. /\ base' = base /\ batch' = batch /\ rollbacks' = rollbacks /\ file' = file
  BY DEF PersistCommits, PersistFails, Crash, files, tool
<1>2. \A d \in Callers : calls'[d] # None =>
         calls[d] # None /\ calls'[d].payload = calls[d].payload
  <2>1. CASE calls' = [calls EXCEPT ![c].left = @ - 1] /\ calls[c] # None
    BY <2>1, OpenCall DEF TypeOK, Calls
  <2>2. CASE Return(c)
    BY <2>2 DEF Return, TypeOK
  <2> QED BY <2>1, <2>2 DEF PersistCommits, PersistFails, Crash
<1>3. \A r \in Runs : /\ pc'[r] = "idle" => pc[r] = "idle"
                      /\ pc'[r] = "finishing" => pc[r] = "finishing"
  <2>1. ASSUME NEW stored \in BOOLEAN, Continue(c, stored)
        PROVE  \A r \in Runs : /\ pc'[r] = "idle" => pc[r] = "idle"
                               /\ pc'[r] = "finishing" => pc[r] = "finishing"
    BY <2>1 DEF Continue, TypeOK
  <2>2. CASE Crash(c)
    BY <2>2, StoreAssumption DEF Crash, TypeOK
  <2>3. CASE pc' = pc
    BY <2>3
  <2> QED BY <2>1, <2>2, <2>3 DEF PersistCommits, PersistFails
<1>4. CASE calls[c] # None /\ Transaction(calls[c].payload)
  BY <1>1, <1>2, <1>3, <1>4, OpenCall, TransactionMoves
<1>5. CASE row' = row /\ core' = core
  BY <1>1, <1>2, <1>3, <1>5
<1> QED BY <1>4, <1>5 DEF PersistCommits, PersistFails, Crash, db

\* base[v] is final: the body reads the current revision once, at its start,
\* and a candidate is staged once.
LEMMA FixedStays ==
  ASSUME TypeOK, Next, NEW v \in Revisions, Fixed(v)
  PROVE  Fixed(v)' /\ base'[v] = base[v]
<1>1. CASE base' = base /\ core \subseteq core'
           /\ \A r \in Runs : pc'[r] = "idle" => pc[r] = "idle"
  BY <1>1 DEF Fixed
<1>2. ASSUME NEW c \in Callers, PersistCommits(c) \/ PersistFails(c) \/ Crash(c)
      PROVE  Fixed(v)' /\ base'[v] = base[v]
  BY <1>1, <1>2, CallerMoves
<1>3. CASE Request \/ ClearFingerprint \/ Replay \/ MirrorBatch
  <2>1. \A r \in Runs : pc'[r] = pc[r]
    BY <1>3, StoreAssumption
       DEF Request, ClearFingerprint, Replay, MirrorBatch, Goto, TypeOK
  <2> QED BY <1>1, <1>3, <2>1 DEF Request, ClearFingerprint, Replay, MirrorBatch,
          Mirror, db
<1>4. ASSUME NEW r \in Runs, RunStep(r)
      PROVE  Fixed(v)' /\ base'[v] = base[v]
  <2>1. core' = core
    BY <1>4 DEF RunStep, BeginRun, StartProcessing, Yield, Ingest, Commit,
       MirrorRun, Mirror, Finish, BodyFails, Interrupt, WriteError, db
  <2>2. \A q \in Runs : pc'[q] = "idle" => pc[q] = "idle"
    BY <1>4 DEF RunStep, BeginRun, StartProcessing, Yield, Ingest, Commit,
       MirrorRun, Finish, BodyFails, Interrupt, Goto, TypeOK
  <2>3. CASE BeginRun(r)
    <3>1. v # r
      BY <2>3 DEF BeginRun, Fixed
    <3> QED BY <2>1, <2>2, <2>3, <3>1 DEF BeginRun, TypeOK, Fixed
  <2>4. CASE base' = base
    BY <1>1, <2>1, <2>2, <2>4
  <2> QED BY <1>4, <2>3, <2>4 DEF RunStep, StartProcessing, Yield, Ingest, Commit,
          MirrorRun, Finish, BodyFails, Interrupt, WriteError
<1>5. ASSUME NEW k \in Candidates, BatchStep(k)
      PROVE  Fixed(v)' /\ base'[v] = base[v]
  <2>1. core \subseteq core' /\ pc' = pc
    BY <1>5 DEF BatchStep, Stage, PublishBatch, StoreResult, RollbackBatch,
       RestoreLegacy, db
  <2>2. CASE Stage(k)
    <3>1. v # k
      BY <2>2 DEF Stage, Fixed
    <3> QED BY <2>1, <2>2, <3>1 DEF Stage, TypeOK, Fixed
  <2>3. CASE base' = base
    BY <1>1, <2>1, <2>3
  <2> QED BY <1>5, <2>2, <2>3 DEF BatchStep, PublishBatch, RollbackBatch,
          RestoreLegacy
<1> QED BY <1>2, <1>3, <1>4, <1>5 DEF Next

\* Only a rollback leaves a job without a current revision.
LEMMA CurrentStays ==
  ASSUME TypeOK, Next, rollbacks' = rollbacks, row.current # None
  PROVE  row'.current # None
<1>1. None \notin Revisions
  BY StoreAssumption
<1>2. ASSUME NEW c \in Callers, PersistCommits(c) \/ PersistFails(c) \/ Crash(c)
      PROVE  row'.current # None
  BY <1>1, <1>2, CallerMoves
<1>3. CASE row' = row \/ ClearFingerprint
  BY <1>3 DEF ClearFingerprint, TypeOK, Rows
<1>4. ASSUME NEW k \in Candidates, BatchStep(k)
      PROVE  row'.current # None
  <2>1. CASE PublishBatch(k)
    <3>1. k # None
      BY StoreAssumption DEF Revisions
    <3> QED BY <2>1, <3>1 DEF PublishBatch, StoreResult, Payload, Upserted
  <2>2. ~RollbackBatch(k)
    BY DEF RollbackBatch, TypeOK
  <2> QED BY <1>3, <1>4, <2>1, <2>2 DEF BatchStep, Stage, RestoreLegacy, db
<1>5. CASE Request \/ Replay \/ MirrorBatch \/ \E r \in Runs : RunStep(r)
  BY <1>3, <1>5 DEF Request, Replay, MirrorBatch, Mirror, RunStep, BeginRun,
     StartProcessing, Yield, Ingest, Commit, MirrorRun, Finish, BodyFails,
     Interrupt, WriteError, db
<1> QED BY <1>2, <1>3, <1>4, <1>5 DEF Next

\* A payload goes on knowing what it knew.
LEMMA KnowsStays ==
  ASSUME TypeOK, Next, rollbacks' = rollbacks, NEW p, Knows(p)
  PROVE  Knows(p)'
<1>1. CASE p.content \in Revisions
  <2>1. Fixed(p.content)' /\ base'[p.content] = base[p.content]
    BY <1>1, FixedStays DEF Knows
  <2>2. row.current # None => row'.current # None
    BY CurrentStays
  <2> QED BY <1>1, <2>1, <2>2 DEF Knows
<1> QED BY <1>1 DEF Knows

\* Whoever opens a call says what its revision was computed against.
LEMMA CallsKnowNext ==
  ASSUME TypeOK, Next, rollbacks' = rollbacks, CallsKnow, FileFollows
  PROVE  CallsKnow'
<1>1. ASSUME \A d \in Callers : calls'[d] # None =>
                calls[d] # None /\ calls'[d].payload = calls[d].payload
      PROVE  CallsKnow'
  <2>1. \A p : Knows(p) => Knows(p)'
    BY KnowsStays
  <2> SUFFICES ASSUME NEW d \in Callers, calls'[d] # None
               PROVE  Knows(calls[d].payload)'
    BY DEF CallsKnow
  <2>2. Knows(calls[d].payload)
    BY <1>1 DEF CallsKnow
  <2> DEFINE p == calls[d].payload
  <2>3. PICK q : q = p
    OBVIOUS
  <2>4. Knows(q)'
    BY <2>1, <2>2, <2>3
  <2> QED BY <1>1, <2>3, <2>4 DEF Knows
<1>2. ASSUME NEW c \in Callers, NEW p, Call(c, p), Knows(p)'
      PROVE  CallsKnow'
  <2>1. calls' = [calls EXCEPT ![c] = [payload |-> p, left |-> Attempts]]
    BY <1>2 DEF Call
  <2> SUFFICES ASSUME NEW d \in Callers, calls'[d] # None
               PROVE  Knows(calls[d].payload)'
    BY DEF CallsKnow
  <2>2. CASE d = c
    BY <1>2, <2>1, <2>2 DEF TypeOK, Knows
  <2>3. CASE d # c
    <3>1. PICK q : q = calls[d].payload
      OBVIOUS
    <3>2. calls'[d] = calls[d] /\ Knows(q)
      BY <2>1, <2>3, <3>1 DEF TypeOK, CallsKnow
    <3>3. Knows(q)'
      BY <3>2, KnowsStays
    <3> QED BY <3>1, <3>2, <3>3 DEF Knows
  <2> QED BY <2>2, <2>3
<1>a. \A p : p.content \notin Revisions => Knows(p)'
  BY DEF Knows
<1>b. {None, Empty} \cap Revisions = {}
  BY StoreAssumption
<1>3. ASSUME NEW c \in Callers, PersistCommits(c) \/ PersistFails(c) \/ Crash(c)
      PROVE  CallsKnow'
  BY <1>1, <1>3, CallerMoves
<1>4. CASE ClearFingerprint
  <2>1. Payload("queued", None, FALSE, None).content \notin Revisions
    BY <1>b DEF Payload
  <2> QED BY <1>2, <1>4, <1>a, <2>1 DEF ClearFingerprint, Callers
<1>5. CASE Replay
  <2>1. Replayed.content = file.result
    BY DEF Replayed, Payload
  <2>2. file.result \in Revisions =>
           Replayed.over = base[file.result]
             \/ (Replayed.over = None /\ row.current # None)
    BY DEF Replayed, Payload, FileFollows
  <2>3. PICK q : q = Replayed
    OBVIOUS
  <2>4. Knows(q)
    BY <2>1, <2>2, <2>3 DEF Knows, FileFollows
  <2>5. Knows(q)' /\ Call(Sync, q)
    BY <1>5, <2>3, <2>4, KnowsStays DEF Replay
  <2> QED BY <1>2, <2>5 DEF Callers
<1>6. ASSUME NEW r \in Runs, RunStep(r)
      PROVE  CallsKnow'
  <2>a. r \in Callers /\ r \in Revisions /\ r \notin Candidates
    BY StoreAssumption DEF Callers, Revisions
  <2>1. CASE StartProcessing(r)
    <3>1. Payload("processing", None, FALSE, None).content \notin Revisions
      BY <1>b DEF Payload
    <3> QED BY <1>2, <1>a, <2>1, <2>a, <3>1 DEF StartProcessing
  <2>2. CASE Commit(r)
    <3>1. PICK q : q = Payload("done", r, TRUE, base[r])
      OBVIOUS
    <3>2. Knows(q)
      BY <2>2, <2>a, <3>1 DEF Commit, Payload, Knows, Fixed
    <3>3. Knows(q)' /\ Call(r, q)
      BY <2>2, <3>1, <3>2, KnowsStays DEF Commit
    <3> QED BY <1>2, <2>a, <3>3
  <2>3. ASSUME NEW receipt \in BOOLEAN, WriteError(r, receipt)
        PROVE  CallsKnow'
    <3>1. Payload("error", Empty, receipt, None).content \notin Revisions
      BY <1>b DEF Payload
    <3> QED BY <1>2, <1>a, <2>3, <2>a, <3>1 DEF WriteError
  <2>4. CASE BodyFails(r) \/ Interrupt(r)
    <3>1. (pc[r] \in Receipted) \in BOOLEAN
      OBVIOUS
    <3> QED BY <2>3, <2>4, <3>1 DEF BodyFails, Interrupt
  <2>5. CASE calls' = calls
    BY <1>1, <2>5
  <2> QED BY <1>6, <2>1, <2>2, <2>4, <2>5 DEF RunStep, BeginRun, Yield, Ingest,
          MirrorRun, Finish
<1>7. CASE Request \/ MirrorBatch \/ \E k \in Candidates : BatchStep(k)
  BY <1>1, <1>7 DEF Request, MirrorBatch, BatchStep, Stage, PublishBatch,
     RollbackBatch, RestoreLegacy
<1> QED BY <1>3, <1>4, <1>5, <1>6, <1>7 DEF Next

\* The revision a step makes current has been computed.
LEMMA CurrentFixed ==
  ASSUME TypeOK, Next, rollbacks' = rollbacks, CallsKnow, FileFollows,
         row'.current # None
  PROVE  Fixed(row.current)'
<1>1. PICK v : v = row'.current
  OBVIOUS
<1>2. v \in Revisions
  BY <1>1, TypeNext DEF TypeOK, Rows
<1>3. Fixed(v) => Fixed(row.current)'
  <2>1. Fixed(v) => Fixed(v)'
    BY <1>2, FixedStays
  <2> QED BY <1>1, <2>1 DEF Fixed
<1>4. CASE row'.current = row.current
  BY <1>1, <1>3, <1>4 DEF FileFollows
<1>5. ASSUME NEW c \in Callers, PersistCommits(c) \/ PersistFails(c) \/ Crash(c),
             row'.current # row.current
      PROVE  Fixed(row.current)'
  BY <1>1, <1>3, <1>5, CallerMoves DEF CallsKnow, Knows
<1>6. ASSUME NEW k \in Candidates, PublishBatch(k)
      PROVE  Fixed(row.current)'
  BY <1>1, <1>3, <1>6, StoreAssumption
     DEF PublishBatch, StoreResult, Payload, Upserted, Fixed
<1>7. CASE ClearFingerprint
  BY <1>4, <1>7 DEF ClearFingerprint, TypeOK, Rows
<1>8. ASSUME NEW k \in Candidates, RollbackBatch(k) PROVE FALSE
  BY <1>8 DEF RollbackBatch, TypeOK
<1>9. CASE row' = row
  BY <1>4, <1>9
<1> QED BY <1>4, <1>5, <1>6, <1>7, <1>8, <1>9 DEF Next, Request, Replay, MirrorBatch,
      Mirror, RunStep, BeginRun, StartProcessing, Yield, Ingest, Commit, MirrorRun,
      Finish, BodyFails, Interrupt, WriteError, BatchStep, Stage, RestoreLegacy, db

\* status.json goes on following what has been published.
LEMMA FileFollowsNext ==
  ASSUME TypeOK, Next, rollbacks' = rollbacks, CallsKnow, FileFollows
  PROVE  FileFollows'
<1>1. row'.current # None => Fixed(row.current)'
  BY CurrentFixed
<1>2. \A r \in Runs : pc'[r] = "finishing" => row'.current # None
  <2>1. ASSUME NEW r \in Runs, pc'[r] = "finishing", pc[r] # "finishing"
        PROVE  row.current # None
    <3>1. ASSUME NEW c \in Callers, PersistCommits(c) \/ PersistFails(c) \/ Crash(c)
          PROVE  FALSE
      BY <2>1, <3>1, CallerMoves
    <3>2. ASSUME NEW q \in Runs, RunStep(q)
          PROVE  row.current # None
      BY <2>1, <3>2 DEF RunStep, BeginRun, StartProcessing, Yield, Ingest, Commit,
         MirrorRun, Mirror, Finish, BodyFails, Interrupt, Goto, TypeOK
    <3>3. ~(Request \/ ClearFingerprint \/ Replay \/ MirrorBatch)
      BY <2>1, StoreAssumption
         DEF Request, ClearFingerprint, Replay, MirrorBatch, Goto, TypeOK
    <3>4. ASSUME NEW k \in Candidates, BatchStep(k) PROVE FALSE
      BY <2>1, <3>4 DEF BatchStep, Stage, PublishBatch, RollbackBatch, RestoreLegacy
    <3> QED BY <3>1, <3>2, <3>3, <3>4 DEF Next
  <2> QED BY <2>1, CurrentStays DEF FileFollows
<1>3. file'.result \in Revisions => row'.current # None /\ Fixed(file.result)'
  <2>1. CASE file'.result = file.result
    <3>1. PICK v : v = file.result
      OBVIOUS
    <3>2. v \in Revisions => Fixed(v)' /\ row'.current # None
      BY <3>1, FixedStays, CurrentStays DEF FileFollows
    <3> QED BY <2>1, <3>1, <3>2 DEF Fixed
  <2>2. ASSUME NEW cleared \in BOOLEAN, Mirror(cleared)
        PROVE  row'.current # None /\ Fixed(file.result)'
    <3>1. row'.current # None /\ file'.result = row'.current
      BY <2>2 DEF Mirror
    <3> QED BY <1>1, <3>1 DEF Fixed
  <2>3. ASSUME NEW r \in Runs, Finish(r)
        PROVE  row'.current # None /\ Fixed(file.result)'
    <3>1. r \in Revisions /\ r \notin Candidates /\ file'.result = r
      BY <2>3, StoreAssumption DEF Finish, Revisions
    <3>2. Fixed(r) /\ row.current # None
      BY <2>3, <3>1 DEF Finish, Fixed, FileFollows
    <3>3. Fixed(r)'
      BY <3>1, <3>2, FixedStays
    <3> QED BY <3>1, <3>2, <3>3, CurrentStays DEF Fixed
  <2>4. CASE file'.result \in {None, Legacy}
    BY <2>4, StoreAssumption
  <2>5. ASSUME NEW c \in Callers, PersistCommits(c) \/ PersistFails(c) \/ Crash(c)
        PROVE  file' = file
    BY <2>5, CallerMoves
  <2>a. ASSUME file' = file \/ \E status : file' \in
                 {[status |-> status, result |-> None],
                  [status |-> status, result |-> Legacy]}
        PROVE  file'.result = file.result \/ file'.result \in {None, Legacy}
    BY <2>a
  <2>6. ASSUME NEW r \in Runs, RunStep(r)
        PROVE  \/ file'.result = file.result \/ file'.result \in {None, Legacy}
               \/ Finish(r) \/ \E cleared \in BOOLEAN : Mirror(cleared)
    <3>1. CASE MirrorRun(r)
      BY <3>1 DEF MirrorRun
    <3>2. CASE StartProcessing(r) \/ Yield(r)
      BY <2>a, <3>2 DEF StartProcessing, Yield
    <3>3. CASE BodyFails(r) \/ Interrupt(r)
      BY <2>a, <3>3 DEF BodyFails, Interrupt, WriteError
    <3>4. CASE BeginRun(r) \/ Ingest(r) \/ Commit(r)
      BY <2>a, <3>4 DEF BeginRun, Ingest, Commit, files
    <3> QED BY <2>6, <3>1, <3>2, <3>3, <3>4 DEF RunStep
  <2>7. ASSUME NEW k \in Candidates, BatchStep(k)
        PROVE  file'.result = file.result \/ file'.result \in {None, Legacy}
    <3>1. CASE RestoreLegacy(k)
      BY <2>a, <3>1 DEF RestoreLegacy
    <3> QED BY <2>7, <2>a, <3>1 DEF BatchStep, Stage, PublishBatch, RollbackBatch, files
  <2>8. CASE Request \/ ClearFingerprint \/ Replay
    <3>1. CASE Request
      BY <2>4, <2>a, <3>1 DEF Request
    <3>2. CASE ClearFingerprint \/ Replay
      BY <2>1, <3>2 DEF ClearFingerprint, Replay, files
    <3> QED BY <2>8, <3>1, <3>2
  <2>9. CASE MirrorBatch
    BY <2>2, <2>9 DEF MirrorBatch
  <2> QED BY <2>1, <2>2, <2>3, <2>4, <2>5, <2>6, <2>7, <2>8, <2>9 DEF Next
<1> QED BY <1>1, <1>2, <1>3 DEF FileFollows

\* A rollback goes on restoring what its candidate was computed against.
LEMMA BatchesKnowNext ==
  ASSUME TypeOK, Next, BatchesKnow
  PROVE  BatchesKnow'
<1>1. ASSUME NEW k \in Candidates, batch'[k] # None,
             batch[k] # None, batch'[k].row = batch[k].row
      PROVE  base'[k] = batch'[k].row.current /\ k \in core'
  <2>1. k \in Revisions /\ k \notin Runs /\ Fixed(k)
    BY <1>1, StoreAssumption DEF BatchesKnow, Revisions, Fixed
  <2>2. Fixed(k)' /\ base'[k] = base[k]
    BY <2>1, FixedStays
  <2> QED BY <1>1, <2>2 DEF BatchesKnow, Fixed
<1>2. CASE batch' = batch
  BY <1>1, <1>2 DEF BatchesKnow
<1>3. ASSUME NEW k \in Candidates, PublishBatch(k)
      PROVE  BatchesKnow'
  <2>1. batch' = [batch EXCEPT ![k] = [row |-> row, result |-> result,
                                       undone |-> FALSE]]
    BY <1>3 DEF PublishBatch
  <2>2. base' = base /\ base[k] = row.current /\ k \in core'
    BY <1>3 DEF PublishBatch, StoreResult
  <2> QED BY <1>1, <2>1, <2>2 DEF BatchesKnow, TypeOK
<1>4. ASSUME NEW k \in Candidates, RollbackBatch(k)
      PROVE  BatchesKnow'
  <2>1. batch[k] \in [row : Rows, result : Contents \cup {None}, undone : BOOLEAN]
    BY <1>4 DEF RollbackBatch, TypeOK
  <2>2. \A q \in Candidates : batch'[q] # None =>
           batch[q] # None /\ batch'[q].row = batch[q].row
    BY <1>4, <2>1 DEF RollbackBatch, TypeOK
  <2> QED BY <1>1, <2>2 DEF BatchesKnow
<1>5. ASSUME NEW c \in Callers, PersistCommits(c) \/ PersistFails(c) \/ Crash(c)
      PROVE  batch' = batch
  BY <1>5, CallerMoves
<1>6. ASSUME NEW r \in Runs, RunStep(r)
      PROVE  batch' = batch
  BY <1>6 DEF RunStep, BeginRun, StartProcessing, Yield, Ingest, Commit, MirrorRun,
     Finish, BodyFails, Interrupt, WriteError, tool
<1> QED BY <1>2, <1>3, <1>4, <1>5, <1>6 DEF Next, Request, ClearFingerprint, Replay,
      MirrorBatch, BatchStep, Stage, RestoreLegacy, tool

LEMMA BaseNext == BaseInv /\ [Next]_vars => BaseInv'
<1> SUFFICES ASSUME BaseInv, [Next]_vars PROVE BaseInv'
  OBVIOUS
<1>1. CASE UNCHANGED vars
  BY <1>1, TypeNext DEF BaseInv, BatchesKnow, CallsKnow, Knows, FileFollows, Fixed,
     vars, db, files, tool
<1>2. CASE Next
  <2>1. TypeOK' /\ BatchesKnow'
    BY <1>2, TypeNext, BatchesKnowNext DEF BaseInv
  <2>2. rollbacks' = rollbacks \/ rollbacks' = rollbacks + 1
    <3>1. ASSUME NEW c \in Callers,
                 PersistCommits(c) \/ PersistFails(c) \/ Crash(c)
          PROVE  rollbacks' = rollbacks
      BY <3>1, CallerMoves DEF BaseInv
    <3> QED BY <1>2, <3>1 DEF Next, Request, ClearFingerprint, Replay, MirrorBatch,
            RunStep, BeginRun, StartProcessing, Yield, Ingest, Commit, MirrorRun,
            Finish, BodyFails, Interrupt, WriteError, BatchStep, Stage, PublishBatch,
            RollbackBatch, RestoreLegacy, tool
  <2>3. rollbacks' = 0 => rollbacks' = rollbacks
    BY <2>2 DEF BaseInv, TypeOK
  <2>4. rollbacks' = 0 => CallsKnow' /\ FileFollows'
    BY <1>2, <2>3, CallsKnowNext, FileFollowsNext DEF BaseInv
  <2> QED BY <2>1, <2>4 DEF BaseInv
<1> QED BY <1>1, <1>2

\* What one step may do to the current revision.
LEMMA BaseStep ==
  ASSUME BaseInv, [Next]_vars, row'.current # row.current
  PROVE  IF rollbacks' # rollbacks
         THEN base[row.current] = row'.current
         ELSE rollbacks = 0 => base[row'.current] = row.current
<1> DEFINE Goal == IF rollbacks' # rollbacks
                   THEN base[row.current] = row'.current
                   ELSE rollbacks = 0 => base[row'.current] = row.current
<1>a. Next /\ row' # row /\ TypeOK
  BY DEF vars, db, BaseInv
<1>1. ASSUME NEW c \in Callers, PersistCommits(c) \/ PersistFails(c) \/ Crash(c)
      PROVE  Goal
  <2>1. /\ rollbacks' = rollbacks /\ calls[c] # None
        /\ calls[c].payload.content \in Revisions
        /\ row'.current = calls[c].payload.content
        /\ row.current = calls[c].payload.over
    BY <1>1, <1>a, CallerMoves
  <2> QED BY <2>1 DEF BaseInv, CallsKnow, Knows
<1>2. ASSUME NEW k \in Candidates, PublishBatch(k)
      PROVE  Goal
  BY <1>2 DEF PublishBatch, StoreResult, Payload, Upserted
<1>3. ASSUME NEW k \in Candidates, RollbackBatch(k)
      PROVE  Goal
  BY <1>3 DEF RollbackBatch, BaseInv, BatchesKnow, TypeOK
<1>4. ~ClearFingerprint
  BY <1>a DEF ClearFingerprint, TypeOK, Rows
<1> QED BY <1>1, <1>2, <1>3, <1>4, <1>a DEF Next, Request, Replay, MirrorBatch, Mirror,
      RunStep, BeginRun, StartProcessing, Yield, Ingest, Commit, MirrorRun, Finish,
      BodyFails, Interrupt, WriteError, BatchStep, Stage, RestoreLegacy, db

\* A revision replaces only the one it was computed against, and a rollback
\* only puts back what its candidate had replaced.
THEOREM RevisionReplacesItsBase == Spec => ReplacesItsBase
<1>1. BaseInv /\ [Next]_vars =>
        [row'.current # row.current =>
           IF rollbacks' # rollbacks
           THEN base[row.current] = row'.current
           ELSE rollbacks = 0 => base[row'.current] = row.current]_vars
  BY BaseStep
<1> QED BY <1>1, BaseInit, BaseNext, PTL DEF Spec, ReplacesItsBase
=============================================================================
