---------------------------- MODULE WorkflowMirror ----------------------------
(***************************************************************************)
(* The file of the decisions on issues, and its mirror in PostgreSQL       *)
(* (issue_workflow_store).                                                 *)
(*                                                                         *)
(* The file is read, changed and written under a file lock that all        *)
(* processes share, and every write counts its revision up.  Most writers  *)
(* then mirror what they have written, without the lock, so that mirrors   *)
(* arrive in any order; some writers leave that to the next one.  A mirror *)
(* is given up after three seconds, whether or not it has committed.       *)
(*                                                                         *)
(* The file may be lost and made again, and then counts from 1.  The       *)
(* content of a decision, the locks and the events are left out.           *)
(***************************************************************************)
EXTENDS Naturals

CONSTANTS
    Issues,
    Callers,       \* the calls of persist_workflow_state that run side by side
    NoCall,
    MaxRevision,   \* bound
    MaxFaults,     \* bound: failed and unheard mirrors, and crashes
    MaxLosses      \* bound: times the file is lost

ASSUME WorkflowAssumption ==
    MaxRevision \in Nat \ {0} /\ MaxFaults \in Nat /\ MaxLosses \in Nat

VARIABLES
    file,      \* .issue_workflow.json
    mirror,    \* the tables of the mirror, with the row of their revision
    call,      \* call[c]: the snapshot c mirrors
    signal,    \* .issue_workflow_persistence.json
    faults

vars == <<file, mirror, call, signal, faults>>

Statuses == {"pending", "confirmed", "no_issue", "in_package"}

\* life tells the files that have been made again apart; the program has no
\* such number.
States == [revision : 0..MaxRevision, issues : [Issues -> Statuses \cup {"absent"}],
           packages : 0..MaxRevision, life : 0..MaxLosses]

Keys(state) == {i \in Issues : state.issues[i] # "absent"}
Content(state) == <<state.issues, state.packages>>

Empty(life) ==
    [revision |-> 0, issues |-> [i \in Issues |-> "absent"], packages |-> 0, life |-> life]

TypeOK ==
    /\ file \in States /\ mirror \in States
    /\ call \in [Callers -> States \cup {NoCall}]
    /\ \A c \in Callers : call[c] # NoCall => call[c].revision > 0
    /\ signal \in {"none", "synced", "pending_retry"}
    /\ faults \in 0..MaxFaults

-----------------------------------------------------------------------------
\* The file may be older than the mirror, and have no revision.
Init ==
    /\ file \in {[Empty(0) EXCEPT !.issues = f] : f \in [Issues -> {"absent", "confirmed"}]}
    /\ mirror = Empty(0)
    /\ call = [c \in Callers |-> NoCall]
    /\ signal = "none"
    /\ faults = 0

-----------------------------------------------------------------------------
(* Writers, under the file lock.                                           *)

\* Mutant of Written: the revision is only counted for what is mirrored.
WrittenKeeping(state) == [state EXCEPT !.revision = IF @ = 0 THEN 1 ELSE @]

\* _write_state.
Written(state) == [state EXCEPT !.revision = @ + 1]

CanWrite == file.revision < MaxRevision

\* persist_workflow_state, with the state that has been written.
Persist(c, state) ==
    /\ call[c] = NoCall
    /\ call' = [call EXCEPT ![c] = state]

\* update_issue.
UpdateIssue(c, i, status) ==
    /\ CanWrite
    /\ file' = Written([file EXCEPT !.issues[i] = status])
    /\ Persist(c, file')
    /\ UNCHANGED <<mirror, signal, faults>>

\* create_package: only of confirmed issues.
CreatePackage(c, i) ==
    /\ CanWrite /\ file.issues[i] = "confirmed"
    /\ file' = Written([file EXCEPT !.issues[i] = "in_package", !.packages = @ + 1])
    /\ Persist(c, file')
    /\ UNCHANGED <<mirror, signal, faults>>

\* set_job_ignored_issue_ids, and the import of ignored issues from an older
\* format: mirrored later.
SetIgnored(i, status) ==
    /\ CanWrite /\ file.issues[i] # status
    /\ file' = Written([file EXCEPT !.issues[i] = status])
    /\ signal' = "pending_retry"
    /\ UNCHANGED <<mirror, call, faults>>

\* The locks of a completed review are written and removed: a revision, and
\* nothing that is mirrored.
WriteLock ==
    /\ CanWrite
    /\ file' = Written(file)
    /\ UNCHANGED <<mirror, call, signal, faults>>

\* The file exists.
Found == file # Empty(file.life)

\* Mutant of Sync: only where the signal asks for it.
SyncIfSignalled(c) ==
    /\ Found /\ signal = "pending_retry"
    /\ file' = IF file.revision = 0 THEN Written(file) ELSE file
    /\ Persist(c, file')
    /\ UNCHANGED <<mirror, signal, faults>>

\* Mutant of Sync: the file of an older release keeps its revision 0.
SyncAsItIs(c) ==
    /\ Found
    /\ Persist(c, file)
    /\ UNCHANGED <<file, mirror, signal, faults>>

\* sync_workflow_recovery_state, when a process starts; a file without a
\* revision gets its first.
Sync(c) ==
    /\ Found
    /\ file' = IF file.revision = 0 THEN Written(file) ELSE file
    /\ Persist(c, file')
    /\ UNCHANGED <<mirror, signal, faults>>

-----------------------------------------------------------------------------
(* The mirror, one transaction under the lock of its row.                  *)

\* Mutant of Covered: revisions are not compared.
CoveredIfAlike(s) == Keys(s) = Keys(mirror) /\ s.packages = mirror.packages

\* The mirror need not be touched for the snapshot s.
Covered(s) ==
    /\ s.revision > 0
    /\ \/ mirror.revision > s.revision
       \/ /\ mirror.revision = s.revision
          /\ Keys(s) = Keys(mirror) /\ s.packages = mirror.packages

Mirrored(s) == [s EXCEPT !.revision = IF @ = 0 THEN 1 ELSE @]

Return(c) == call' = [call EXCEPT ![c] = NoCall]

\* The early returns leave the signal as it is.
Mirror(c) ==
    /\ call[c] # NoCall
    /\ Return(c)
    /\ IF Covered(call[c]) THEN UNCHANGED <<mirror, signal>>
       ELSE mirror' = Mirrored(call[c]) /\ signal' = "synced"
    /\ UNCHANGED <<file, faults>>

\* The database is not ready, the transaction fails, or the time is up.
MirrorFails(c) ==
    /\ call[c] # NoCall /\ faults < MaxFaults
    /\ Return(c)
    /\ signal' = "pending_retry"
    /\ faults' = faults + 1
    /\ UNCHANGED <<file, mirror>>

\* The time is up after the commit.
MirrorUnheard(c) ==
    /\ call[c] # NoCall /\ faults < MaxFaults
    /\ Return(c)
    /\ mirror' = IF Covered(call[c]) THEN mirror ELSE Mirrored(call[c])
    /\ signal' = "pending_retry"
    /\ faults' = faults + 1
    /\ UNCHANGED file

\* The process of c dies, before or after the commit.
Crash(c) ==
    /\ call[c] # NoCall /\ faults < MaxFaults
    /\ Return(c)
    /\ mirror' \in {mirror, IF Covered(call[c]) THEN mirror ELSE Mirrored(call[c])}
    /\ faults' = faults + 1
    /\ UNCHANGED <<file, signal>>

\* The file is lost; the next writer starts from nothing.
Lose ==
    /\ file.life < MaxLosses
    /\ file' = Empty(file.life + 1)
    /\ UNCHANGED <<mirror, call, signal, faults>>

-----------------------------------------------------------------------------
Next ==
    \/ \E c \in Callers, i \in Issues :
         CreatePackage(c, i) \/ \E s \in Statuses \ {"in_package"} : UpdateIssue(c, i, s)
    \/ \E i \in Issues, s \in {"pending", "no_issue"} : SetIgnored(i, s)
    \/ WriteLock
    \/ \E c \in Callers :
         Sync(c) \/ Mirror(c) \/ MirrorFails(c) \/ MirrorUnheard(c) \/ Crash(c)
    \/ Lose

Spec == Init /\ [][Next]_vars

\* A mirror that is not cut off ends, and the server is started again some
\* day: no writer is bound to do anything.
Fairness == \A c \in Callers : WF_vars(Mirror(c)) /\ WF_vars(Sync(c))

FairSpec == Spec /\ Fairness

-----------------------------------------------------------------------------
(* Properties.                                                             *)

\* However late it arrives, a mirror never takes the revision back.
MirrorForward == [][mirror'.revision >= mirror.revision]_vars

\* The mirror never claims a revision whose content it does not have, unless
\* it mirrors a file that has been lost since.
MirrorIsFile ==
    mirror.life = file.life /\ file.revision > 0 =>
        /\ mirror.revision <= file.revision
        /\ mirror.revision = file.revision => Content(mirror) = Content(file)

\* Whatever fails, and whatever the signal says: unless the file is lost, the
\* mirror gets to what the file says in the end.
Converges == <>[](file.life = 0 => Content(mirror) = Content(file))
=============================================================================
