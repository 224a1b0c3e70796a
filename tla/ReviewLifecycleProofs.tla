----------------------- MODULE ReviewLifecycleProofs -----------------------
(***************************************************************************)
(* Theorems about ReviewLifecycle, for any reviewers, versions and bounds. *)
(***************************************************************************)
EXTENDS ReviewLifecycle, TLAPS

USE DEF material, sessions, workflow, request, history

-----------------------------------------------------------------------------
(* The inductive invariant.                                                *)

\* Where an actor is tells what it has still to do to the locks.
Roles ==
    /\ \A a \in Actors : clears[a] # {} => pc[a] = "after"
    /\ \A r \in Reviewers : wrote[r] # 0 <=> pc[r] \in {"locked", "undo"}

\* Sessions are numbered by their creation, and only the latest is ever active;
\* none belongs to a version that has not been current.
Numbered ==
    \A s \in Ids :
        /\ s > last => session[s] = NoSession
        /\ s <= last => session[s].version \in 1..slot.version
        /\ session[s].state = "in_progress" => s = last

\* A lock names the session of its version.
Named ==
    /\ \A v \in Versions : lock[v] # 0 => lock[v] <= last /\ session[lock[v]].version = v
    /\ \A r \in Reviewers : wrote[r] <= last

\* Locks are only cleared for sessions that are gone for good.
Gone == \A a \in Actors : \A s \in clears[a] : session[s].state = "invalidated"

\* Between the writing of the edit lock and the commit the session is as it was,
\* and only another request's compensation can have removed its lock.
Uncommitted ==
    \A r \in Reviewers : pc[r] = "locked" =>
        /\ session[wrote[r]].state = "in_progress"
        /\ session[wrote[r]].version = slot.version
        /\ lock[slot.version] = wrote[r] \/ wrote[r] \in undone

ReviewInv ==
    /\ TypeOK /\ Roles /\ Numbered /\ Named /\ Gone /\ Uncommitted
    /\ CompletionIsLocked /\ LockHasOwner /\ LockedAsJudged

-----------------------------------------------------------------------------
(* What the steps have in common.                                          *)

LEMMA Known ==
    ASSUME ReviewInv
    PROVE  /\ last \in Nat /\ last <= MaxSessions /\ slot.version \in Nat
           /\ \A s \in Ids : s \in Nat /\ s > 0
           /\ \A s \in 1..last : s \in Ids
           /\ \A s \in Ids : session[s] \in Sessions
           /\ \A v \in Versions : lock[v] # 0 => lock[v] \in Ids
           /\ \A r \in Reviewers : wrote[r] # 0 => wrote[r] \in Ids
<1>1. last \in Nat /\ last <= MaxSessions /\ slot.version \in Nat
  BY ReviewAssumption DEF ReviewInv, TypeOK, Versions
<1>2. /\ \A s \in Ids : s \in Nat /\ s > 0
      /\ \A s \in 1..last : s \in Ids
      /\ \A s \in 0..MaxSessions : s # 0 => s \in Ids
  BY <1>1, ReviewAssumption DEF Ids
<1>3. \A s \in Ids : session[s] \in Sessions
  BY DEF ReviewInv, TypeOK
<1>4. /\ \A v \in Versions : lock[v] \in 0..MaxSessions
      /\ \A r \in Reviewers : wrote[r] \in 0..MaxSessions
  BY DEF ReviewInv, TypeOK
<1> QED
  BY <1>1, <1>2, <1>3, <1>4

\* The end of a transaction of r: what it gives up is cleared after it, or it
\* is known that it has not been.
LEMMA Committed ==
    ASSUME TypeOK, Roles, NEW r \in Reviewers, NEW S \in SUBSET Ids,
           pc[r] = "open" \/ (pc[r] = "locked" /\ S = {}),
           CommitTx(r, S)
    PROVE  /\ owner' = None /\ view' \in Views
           /\ pc' \in [Actors -> Steps]
           /\ wrote' \in [Reviewers -> 0..MaxSessions]
           /\ clears' \in [Actors -> SUBSET Ids]
           /\ faults' \in 0..MaxFaults /\ lapsed' \subseteq Ids /\ lapsed \subseteq lapsed'
           /\ \A q \in Reviewers : pc'[q] \notin {"reading", "open", "locked"}
           /\ Roles'
           /\ S \subseteq clears'[r] \cup lapsed' /\ clears'[r] \subseteq S
           /\ clears[r] = {}
           /\ \A a \in Actors \ {r} : clears'[a] = clears[a]
           /\ \A q \in Reviewers \ {r} : wrote'[q] = wrote[q]
           /\ wrote'[r] \in {0, wrote[r]}
<1>1. /\ pc \in [Actors -> Steps] /\ wrote \in [Reviewers -> 0..MaxSessions]
      /\ clears \in [Actors -> SUBSET Ids] /\ faults \in 0..MaxFaults
      /\ lapsed \subseteq Ids /\ r \in Actors /\ None \notin Reviewers /\ r # Analyzer
      /\ \A q \in Reviewers : pc[q] \in {"reading", "open", "locked"} <=> owner = q
  BY ReviewAssumption DEF TypeOK, Actors
<1>2. clears[r] = {}
  BY <1>1 DEF Roles
<1>3. owner = r /\ \A q \in Reviewers \ {r} : pc[q] \notin {"reading", "open", "locked"}
  BY <1>1
<1>4. NoView \in Views
  BY DEF NoView, Views
<1>5. CASE /\ Goto(r, IF S = {} THEN "idle" ELSE "after")
           /\ clears' = [clears EXCEPT ![r] = S]
           /\ wrote' = [wrote EXCEPT ![r] = 0]
           /\ UNCHANGED <<faults, lapsed>>
  <2>1. /\ pc' \in [Actors -> Steps] /\ pc'[r] = IF S = {} THEN "idle" ELSE "after"
        /\ \A a \in Actors \ {r} : pc'[a] = pc[a]
    BY <1>1, <1>5 DEF Goto, Steps
  <2>2. Roles'
    <3>1. /\ clears'[r] = S /\ wrote'[r] = 0
          /\ \A a \in Actors \ {r} : clears'[a] = clears[a]
          /\ \A q \in Reviewers \ {r} : wrote'[q] = wrote[q] /\ pc'[q] = pc[q]
      BY <1>1, <1>5, <2>1 DEF Actors
    <3>2. S # {} => pc'[r] = "after"
      BY <2>1
    <3>3. pc'[r] \notin {"locked", "undo"}
      BY <2>1
    <3> QED
      BY <2>1, <3>1, <3>2, <3>3 DEF Roles
  <2>3. /\ wrote' \in [Reviewers -> 0..MaxSessions] /\ wrote'[r] = 0
        /\ clears' \in [Actors -> SUBSET Ids] /\ clears'[r] = S
        /\ \A a \in Actors \ {r} : clears'[a] = clears[a]
        /\ \A q \in Reviewers \ {r} : wrote'[q] = wrote[q]
    BY <1>1, <1>5, ReviewAssumption
  <2>4. \A q \in Reviewers : pc'[q] \notin {"reading", "open", "locked"}
    BY <1>3, <2>1 DEF Actors
  <2>5. owner' = None /\ view' \in Views
    BY <1>4 DEF CommitTx
  <2> QED
    BY <1>1, <1>2, <1>5, <2>1, <2>2, <2>3, <2>4, <2>5
<1>6. CASE /\ Fault
           /\ Goto(r, IF wrote[r] = 0 THEN "idle" ELSE "undo")
           /\ lapsed' = lapsed \cup S
           /\ UNCHANGED <<clears, wrote>>
  <2>1. /\ pc' \in [Actors -> Steps] /\ pc'[r] = IF wrote[r] = 0 THEN "idle" ELSE "undo"
        /\ \A a \in Actors \ {r} : pc'[a] = pc[a]
    BY <1>1, <1>6 DEF Goto, Steps
  <2>2. Roles'
    <3>1. \A q \in Reviewers \ {r} : pc'[q] = pc[q]
      BY <2>1 DEF Actors
    <3>2. wrote[r] # 0 <=> pc'[r] \in {"locked", "undo"}
      BY <2>1
    <3> QED
      BY <1>2, <1>6, <2>1, <3>1, <3>2 DEF Roles
  <2>3. faults' \in 0..MaxFaults
    BY <1>1, <1>6, ReviewAssumption DEF Fault
  <2>4. \A q \in Reviewers : pc'[q] \notin {"reading", "open", "locked"}
    BY <1>3, <2>1 DEF Actors
  <2>5. owner' = None /\ view' \in Views
    BY <1>4 DEF CommitTx
  <2> QED
    BY <1>1, <1>2, <1>6, <2>1, <2>2, <2>3, <2>4, <2>5
<1> QED
  BY <1>5, <1>6 DEF CommitTx

LEMMA InvalidatedIs ==
    ASSUME session \in [Ids -> Sessions], NEW S \in SUBSET Ids
    PROVE  /\ Invalidated(S) \in [Ids -> Sessions]
           /\ \A s \in Ids \ S : Invalidated(S)[s] = session[s]
           /\ \A s \in S : /\ Invalidated(S)[s].state = "invalidated"
                           /\ Invalidated(S)[s].version = session[s].version
BY DEF Invalidated, Sessions, States

\* A request of r that gives up the sessions S and, perhaps, creates another.
LEMMA RequestKeeps ==
    ASSUME ReviewInv, NEW r \in Reviewers, NEW S \in SUBSET Ids, pc[r] = "open",
           \A s \in S : s <= last,
           CommitTx(r, S),
           \/ session' = Invalidated(S) /\ UNCHANGED <<slot, last>>
           \/ Active \subseteq S /\ \E again \in BOOLEAN : Create(S, again),
           covered' \in BOOLEAN, reopened' \in BOOLEAN,
           job' \in [Versions -> [done : BOOLEAN, gen : Nat]],
           UNCHANGED <<uploaded, lock, resolved, run, undone, overtaken>>
    PROVE  ReviewInv'
<1>1. /\ owner' = None /\ view' \in Views
      /\ pc' \in [Actors -> Steps]
      /\ wrote' \in [Reviewers -> 0..MaxSessions]
      /\ clears' \in [Actors -> SUBSET Ids]
      /\ faults' \in 0..MaxFaults /\ lapsed' \subseteq Ids /\ lapsed \subseteq lapsed'
      /\ \A q \in Reviewers : pc'[q] \notin {"reading", "open", "locked"}
      /\ Roles'
      /\ S \subseteq clears'[r] \cup lapsed' /\ clears'[r] \subseteq S
      /\ clears[r] = {}
      /\ \A a \in Actors \ {r} : clears'[a] = clears[a]
      /\ \A q \in Reviewers \ {r} : wrote'[q] = wrote[q]
      /\ wrote'[r] \in {0, wrote[r]}
  BY Committed DEF ReviewInv
<1>2. wrote[r] = 0
  BY DEF ReviewInv, Roles
<1>3. /\ session \in [Ids -> Sessions] /\ slot \in [version : Versions, status : Statuses]
      /\ Numbered
  BY DEF ReviewInv, TypeOK
<1>4. /\ Invalidated(S) \in [Ids -> Sessions]
      /\ \A s \in Ids \ S : Invalidated(S)[s] = session[s]
      /\ \A s \in S : /\ Invalidated(S)[s].state = "invalidated"
                      /\ Invalidated(S)[s].version = session[s].version
  BY <1>3, InvalidatedIs
<1>5. /\ session' \in [Ids -> Sessions]
      /\ \A s \in Ids : s <= last =>
           /\ session'[s].version = session[s].version
           /\ s \notin S => session'[s] = session[s]
           /\ s \in S => session'[s].state = "invalidated"
      /\ slot' \in [version : Versions, status : Statuses] /\ slot'.version = slot.version
      /\ last' \in 0..MaxSessions /\ last <= last'
      /\ \/ last' = last
         \/ /\ last' = last + 1 /\ session'[last'].state = "in_progress"
            /\ session'[last'].version = slot.version
            /\ Active \subseteq S
      /\ \A s \in Ids : s > last' => session'[s] = NoSession
  <2>1. CASE session' = Invalidated(S) /\ UNCHANGED <<slot, last>>
    BY <1>3, <1>4, <2>1, Known DEF ReviewInv, TypeOK, Numbered
  <2>2. CASE Active \subseteq S /\ \E again \in BOOLEAN : Create(S, again)
    <3> DEFINE n == [state |-> "in_progress", version |-> slot.version, basis |-> view.gen]
    <3>1. /\ last < MaxSessions /\ last' = last + 1
          /\ session' = [Invalidated(S) EXCEPT ![last + 1] = n]
          /\ slot' = [slot EXCEPT !.status = "reviewing"]
      BY <2>2 DEF Create
    <3>2. n \in Sessions
      BY <1>3, Known DEF ReviewInv, TypeOK, Views, Sessions, States
    <3>3. last + 1 \in Ids /\ last' \in 0..MaxSessions
      BY <3>1, Known, ReviewAssumption DEF Ids
    <3>4. /\ session' \in [Ids -> Sessions] /\ session'[last + 1] = n
          /\ \A s \in Ids : s # last + 1 => session'[s] = Invalidated(S)[s]
      BY <1>4, <3>1, <3>2, <3>3
    <3>5. slot' \in [version : Versions, status : Statuses] /\ slot'.version = slot.version
      BY <1>3, <3>1 DEF Statuses
    <3>6. \A s \in Ids : s > last + 1 => session'[s] = NoSession
      BY <1>3, <1>4, <3>4, Known DEF Numbered
    <3>7. \A s \in Ids : s <= last => s # last + 1
      BY Known
    <3> QED
      BY <1>4, <2>2, <3>1, <3>3, <3>4, <3>5, <3>6, <3>7, Known
  <2> QED
    BY <2>1, <2>2
<1>6. TypeOK'
  BY <1>1, <1>5, ReviewAssumption DEF ReviewInv, TypeOK, Actors
<1>7. Numbered'
  <2>1. SUFFICES ASSUME NEW s \in Ids
                 PROVE  /\ s > last' => session'[s] = NoSession
                        /\ s <= last' => session'[s].version \in 1..slot'.version
                        /\ session'[s].state = "in_progress" => s = last'
    BY DEF Numbered
  <2>2. CASE s <= last
    <3>1. session'[s].version \in 1..slot'.version
      BY <1>3, <1>5, <2>2 DEF Numbered
    <3>2. ASSUME session'[s].state = "in_progress" PROVE s = last'
      <4>1. s \notin S /\ session[s].state = "in_progress"
        BY <1>5, <2>2, <3>2
      <4>2. s \in Active
        BY <4>1 DEF Active
      <4> QED
        BY <1>3, <1>5, <4>1, <4>2 DEF Numbered
    <3> QED
      BY <1>5, <2>2, <3>1, <3>2, Known
  <2>3. CASE s > last
    <3>1. s = last' => session'[s].version \in 1..slot'.version
      BY <1>3, <1>5, <2>3, Known, ReviewAssumption DEF Versions
    <3>2. s <= last' => s = last'
      BY <1>5, <2>3, Known
    <3>3. s # last' => session'[s].state # "in_progress"
      BY <1>5, <2>3, Known DEF NoSession
    <3> QED
      BY <1>5, <3>1, <3>2, <3>3
  <2> QED
    BY <2>2, <2>3, Known
<1>8. Named'
  BY <1>1, <1>2, <1>5, Known DEF ReviewInv, Named
<1>9. Gone'
  <2>1. SUFFICES ASSUME NEW a \in Actors, NEW s \in clears'[a]
                 PROVE  session'[s].state = "invalidated"
    BY DEF Gone
  <2>2. CASE a = r
    BY <1>1, <1>5, <2>2
  <2>3. CASE a # r
    <3>1. s \in Ids /\ session[s].state = "invalidated"
      BY <1>1, <2>3 DEF ReviewInv, Gone, TypeOK
    <3>2. s <= last
      BY <1>3, <3>1, Known DEF Numbered, NoSession
    <3> QED
      BY <1>5, <3>1, <3>2
  <2> QED
    BY <2>2, <2>3
<1>10. Uncommitted'
  BY <1>1 DEF Uncommitted
<1>11. CompletionIsLocked'
  <2>1. CASE last' = last
    BY <1>5, <2>1, Known DEF ReviewInv, CompletionIsLocked
  <2>2. CASE last' # last
    BY <1>5, <2>2 DEF CompletionIsLocked
  <2> QED
    BY <2>1, <2>2
<1>12. LockHasOwner'
  <2>1. SUFFICES ASSUME NEW v \in Versions, lock[v] # 0
                 PROVE  (\/ session[lock[v]].state = "completed"
                         \/ lock[v] \in lapsed
                         \/ \E q \in Reviewers : wrote[q] = lock[v]
                         \/ \E a \in Actors : lock[v] \in clears[a]
                         \/ v # slot.version)'
    BY DEF LockHasOwner
  <2>2. lock[v] \in Ids /\ lock[v] <= last
    BY <2>1, Known DEF ReviewInv, Named
  <2>3. \/ session[lock[v]].state = "completed"
        \/ lock[v] \in lapsed
        \/ \E q \in Reviewers : wrote[q] = lock[v]
        \/ \E a \in Actors : lock[v] \in clears[a]
        \/ v # slot.version
    BY <2>1 DEF ReviewInv, LockHasOwner
  <2>4. CASE session[lock[v]].state = "completed"
    <3>1. CASE lock[v] \in S
      BY <1>1, <3>1 DEF Actors
    <3>2. CASE lock[v] \notin S
      BY <1>5, <2>2, <2>4, <3>2
    <3> QED
      BY <3>1, <3>2
  <2>5. CASE \E q \in Reviewers : wrote[q] = lock[v]
    BY <1>1, <1>2, <2>1, <2>5
  <2>6. CASE \E a \in Actors : lock[v] \in clears[a]
    BY <1>1, <2>6
  <2>7. CASE lock[v] \in lapsed \/ v # slot.version
    BY <1>1, <1>5, <2>7
  <2> QED
    BY <2>3, <2>4, <2>5, <2>6, <2>7
<1>13. LockedAsJudged'
  BY DEF ReviewInv, LockedAsJudged
<1> QED
  BY <1>1, <1>6, <1>7, <1>8, <1>9, <1>10, <1>11, <1>12, <1>13 DEF ReviewInv

LEMMA ServeKeeps ==
    ASSUME ReviewInv, NEW r \in Reviewers,
           StartReview(r) \/ ReopenReview(r) \/ DecideObligation(r) \/ ConfirmScope(r)
    PROVE  ReviewInv'
<1>1. /\ \A s \in Active : s \in Ids /\ s <= last
      /\ \A s \in Live : s \in Ids /\ s <= last
  BY Known DEF ReviewInv, Numbered, Active, Live, NoSession
<1>2. Stale \in SUBSET Ids /\ \A s \in Stale : s <= last
  BY <1>1 DEF Stale
<1>3. Previous \in SUBSET Ids /\ \A s \in Previous : s <= last
  <2>1. \A s \in Completed(slot.version, view.gen) : s \in Live
    BY DEF Completed, Live
  <2> QED
    BY <1>1, <2>1 DEF Previous, Latest
<1>4. /\ covered \in BOOLEAN /\ reopened \in BOOLEAN
      /\ job \in [Versions -> [done : BOOLEAN, gen : Nat]]
  BY DEF ReviewInv, TypeOK
<1>5. CASE StartReview(r)
  <2>1. /\ pc[r] = "open" /\ CommitTx(r, Stale)
        /\ UNCHANGED <<uploaded, job, lock, resolved, run, undone, overtaken>>
    BY <1>5 DEF StartReview
  <2>2. CASE Active \subseteq Stale /\ Create(Stale, FALSE)
    <3>1. covered' \in BOOLEAN /\ reopened' \in BOOLEAN
      BY <2>2 DEF Create
    <3> QED
      BY <1>2, <1>4, <2>1, <2>2, <3>1, RequestKeeps
  <2>3. CASE session' = Invalidated(Stale) /\ UNCHANGED <<slot, last, covered, reopened>>
    BY <1>2, <1>4, <2>1, <2>3, RequestKeeps
  <2> QED
    BY <1>5, <2>2, <2>3 DEF StartReview
<1>6. CASE ReopenReview(r)
  <2>1. /\ pc[r] = "open" /\ CommitTx(r, Previous)
        /\ UNCHANGED <<uploaded, job, lock, resolved, run, undone, overtaken>>
    BY <1>6 DEF ReopenReview
  <2>2. CASE Create(Previous, TRUE)
    <3>1. covered' \in BOOLEAN /\ reopened' \in BOOLEAN
      BY <2>2 DEF Create
    <3>2. Active \subseteq Previous
      BY DEF Previous
    <3> QED
      BY <1>3, <1>4, <2>1, <2>2, <3>1, <3>2, RequestKeeps
  <2>3. CASE session' = Invalidated(Previous) /\ UNCHANGED <<slot, last, covered, reopened>>
    BY <1>3, <1>4, <2>1, <2>3, RequestKeeps
  <2> QED
    BY <1>6, <2>2, <2>3 DEF ReopenReview
<1>7. CASE DecideObligation(r)
  <2>1. /\ pc[r] = "open" /\ CommitTx(r, Stale) /\ session' = Invalidated(Stale)
        /\ UNCHANGED <<slot, uploaded, last, reopened, job, lock, resolved, run,
                        undone, overtaken>>
    BY <1>7 DEF DecideObligation
  <2>2. covered' \in BOOLEAN
    BY <1>4, <1>7 DEF DecideObligation
  <2> QED
    BY <1>2, <1>4, <2>1, <2>2, RequestKeeps
<1>8. CASE ConfirmScope(r)
  <2> DEFINE gone == {s \in Live : session[s].version = slot.version}
  <2>1. /\ pc[r] = "open" /\ CommitTx(r, gone) /\ session' = Invalidated(gone)
        /\ UNCHANGED <<slot, uploaded, last, covered, reopened, lock, resolved, run,
                        undone, overtaken>>
        /\ job' = [job EXCEPT ![slot.version].done = FALSE]
    BY <1>8 DEF ConfirmScope
  <2>2. job' \in [Versions -> [done : BOOLEAN, gen : Nat]]
    BY <1>4, <2>1
  <2>3. gone \in SUBSET Ids /\ \A s \in gone : s <= last
    BY <1>1
  <2> HIDE DEF gone
  <2> QED
    BY <1>4, <2>1, <2>2, <2>3, RequestKeeps
<1> QED
  BY <1>5, <1>6, <1>7, <1>8

\* A step that changes neither sessions nor locks, nor what is to be done to them.
LEMMA QuietKeeps ==
    ASSUME ReviewInv, TypeOK', Roles', LockedAsJudged',
           UNCHANGED <<session, last, lock, wrote, clears, lapsed, undone>>,
           slot'.version = slot.version,
           \A r \in Reviewers : pc'[r] = "locked" => pc[r] = "locked"
    PROVE  ReviewInv'
<1>1. Numbered' /\ Named' /\ Gone' /\ Uncommitted' /\ CompletionIsLocked' /\ LockHasOwner'
  BY DEF ReviewInv, Numbered, Named, Gone, Uncommitted, CompletionIsLocked, LockHasOwner
<1> QED
  BY <1>1 DEF ReviewInv

LEMMA ReadingKeeps ==
    ASSUME ReviewInv, NEW r \in Reviewers, Open(r) \/ ReadIssues(r) \/ Rollback(r)
    PROVE  ReviewInv'
<1>1. /\ UNCHANGED <<material, sessions, job, workflow, wrote, clears, run, faults, history>>
      /\ pc[r] \in {"idle", "reading", "open"}
      /\ \E p \in {"idle", "reading", "open"} : Goto(r, p)
  BY DEF Open, ReadIssues, Rollback
<1>2. /\ pc \in [Actors -> Steps] /\ r \in Actors /\ r # Analyzer /\ r # None
      /\ \A q \in Reviewers : pc[q] \in {"reading", "open", "locked"} <=> owner = q
  BY ReviewAssumption DEF ReviewInv, TypeOK, Actors
<1>3. /\ pc' \in [Actors -> Steps] /\ pc'[r] \in {"idle", "reading", "open"}
      /\ \A a \in Actors \ {r} : pc'[a] = pc[a]
  BY <1>1, <1>2 DEF Goto, Steps
<1>4. /\ job \in [Versions -> [done : BOOLEAN, gen : Nat]] /\ slot.version \in Versions
      /\ resolved \in [Versions -> BOOLEAN] /\ view \in Views /\ NoView \in Views
  BY DEF ReviewInv, TypeOK, NoView, Views
<1>5. view' \in Views
  <2>1. CASE Open(r)
    <3> DEFINE j == job[slot.version]
    <3>1. j.gen \in Nat /\ j.done \in BOOLEAN
      BY <1>4
    <3>2. view' = [gen |-> j.gen, done |-> j.done, resolved |-> FALSE]
      BY <2>1 DEF Open
    <3> HIDE DEF j
    <3> QED
      BY <3>1, <3>2 DEF Views
  <2>2. CASE ReadIssues(r)
    <3>1. resolved[slot.version] \in BOOLEAN
      BY <1>4
    <3>2. view' = [view EXCEPT !.resolved = resolved[slot.version]]
      BY <2>2 DEF ReadIssues
    <3> QED
      BY <1>4, <3>1, <3>2 DEF Views
  <2>3. CASE Rollback(r)
    BY <1>4, <2>3 DEF Rollback
  <2> QED
    BY <2>1, <2>2, <2>3
<1>6. /\ owner' \in Reviewers \cup {None}
      /\ \A q \in Reviewers : pc'[q] \in {"reading", "open", "locked"} <=> owner' = q
  <2>1. \A q \in Reviewers \ {r} : pc'[q] = pc[q]
    BY <1>3 DEF Actors
  <2>2. CASE Open(r)
    <3>1. owner = None /\ owner' = r /\ pc'[r] = "reading"
      BY <1>2, <2>2 DEF Open, Goto
    <3> QED
      BY <1>2, <2>1, <3>1, ReviewAssumption DEF Actors
  <2>3. CASE ReadIssues(r)
    <3>1. owner' = owner /\ pc[r] = "reading" /\ pc'[r] = "open"
      BY <1>2, <2>3 DEF ReadIssues, Goto
    <3> QED
      BY <1>2, <2>1, <3>1
  <2>4. CASE Rollback(r)
    <3>1. owner' = None /\ pc[r] = "open" /\ pc'[r] = "idle"
      BY <1>2, <2>4 DEF Rollback, Goto
    <3> QED
      BY <1>2, <2>1, <3>1, ReviewAssumption DEF Actors
  <2> QED
    BY <2>2, <2>3, <2>4
<1>7. TypeOK'
  BY <1>1, <1>3, <1>5, <1>6 DEF ReviewInv, TypeOK
<1>8. Roles'
  BY <1>1, <1>2, <1>3 DEF ReviewInv, Roles, Actors
<1>9. LockedAsJudged'
  BY <1>1 DEF ReviewInv, LockedAsJudged
<1>10. \A q \in Reviewers : pc'[q] = "locked" => pc[q] = "locked"
  BY <1>3 DEF Actors
<1> QED
  BY <1>1, <1>7, <1>8, <1>9, <1>10, QuietKeeps

\* Steps of the analysis, and edits, that touch no session and no lock.
LEMMA AnalysisKeeps ==
    ASSUME ReviewInv,
           \/ \E v \in Versions : Restart(v) \/ Edit(v)
           \/ PersistQueued \/ Produce \/ Store \/ SyncRead \/ SyncWrite
    PROVE  ReviewInv'
<1>1. /\ UNCHANGED <<owner, uploaded, sessions, lock, request, clears, lapsed, undone>>
      /\ \/ UNCHANGED pc
         \/ \E p \in {"hook", "running", "produced", "stored", "syncing", "idle"} :
               pc[Analyzer] # "after" /\ Goto(Analyzer, p)
  BY DEF Restart, Edit, PersistQueued, Produce, Store, SyncRead, SyncWrite
<1>2. pc \in [Actors -> Steps] /\ Analyzer \in Actors /\ Analyzer \notin Reviewers
  BY ReviewAssumption DEF ReviewInv, TypeOK, Actors
<1>3. /\ pc' \in [Actors -> Steps]
      /\ \A r \in Reviewers : pc'[r] = pc[r]
      /\ pc'[Analyzer] = pc[Analyzer] \/ pc[Analyzer] # "after"
  BY <1>1, <1>2 DEF Goto, Steps, Actors
<1>4. Roles'
  BY <1>1, <1>2, <1>3 DEF ReviewInv, Roles, Actors
<1>5. /\ job \in [Versions -> [done : BOOLEAN, gen : Nat]]
      /\ slot \in [version : Versions, status : Statuses]
      /\ resolved \in [Versions -> BOOLEAN] /\ run \in [version : Versions, seen : BOOLEAN]
      /\ faults \in 0..MaxFaults /\ overtaken \subseteq Ids
      /\ \A v \in Versions : lock[v] # 0 => lock[v] \in Ids
  BY Known DEF ReviewInv, TypeOK
<1>6. /\ job' \in [Versions -> [done : BOOLEAN, gen : Nat]]
      /\ slot' \in [version : Versions, status : Statuses] /\ slot'.version = slot.version
      /\ resolved' \in [Versions -> BOOLEAN] /\ run' \in [version : Versions, seen : BOOLEAN]
      /\ faults' \in 0..MaxFaults /\ overtaken' \subseteq Ids
      /\ \A v \in Versions : lock[v] # 0 /\ lock[v] \notin overtaken' =>
            lock[v] \notin overtaken /\ resolved'[v] = resolved[v]
  <2>1. ASSUME NEW v \in Versions, Restart(v) PROVE <1>6!:
    BY <1>5, <2>1 DEF Restart
  <2>2. ASSUME NEW v \in Versions, Edit(v) PROVE <1>6!:
    <3>1. /\ resolved' = [resolved EXCEPT ![v] = ~resolved[v]] /\ lock[v] = 0
          /\ UNCHANGED <<job, slot, run, faults, overtaken>>
      BY <2>2 DEF Edit
    <3>2. resolved' \in [Versions -> BOOLEAN]
      BY <1>5, <3>1, Zenon
    <3>3. \A u \in Versions : u # v => resolved'[u] = resolved[u]
      BY <1>5, <3>1, Zenon
    <3> QED
      BY <1>5, <3>1, <3>2, <3>3
  <2>3. CASE PersistQueued
    <3>1. UNCHANGED <<slot, resolved, run, overtaken>>
      BY <2>3 DEF PersistQueued
    <3>2. faults' \in 0..MaxFaults
      BY <1>5, <2>3, ReviewAssumption DEF PersistQueued, Fault
    <3>3. job' = [job EXCEPT ![run.version].done = FALSE] \/ job' = job
      BY <2>3 DEF PersistQueued
    <3>4. job' \in [Versions -> [done : BOOLEAN, gen : Nat]]
      BY <1>5, <3>3
    <3> QED
      BY <1>5, <3>1, <3>2, <3>4
  <2>4. CASE Produce
    BY <1>5, <2>4 DEF Produce
  <2>5. CASE Store
    <3>1. UNCHANGED <<slot, resolved, run, overtaken, faults>>
      BY <2>5 DEF Store
    <3>2. PICK done \in BOOLEAN, gen \in {job[run.version].gen, job[run.version].gen + 1} \ {0} :
            job' = [job EXCEPT ![run.version] = [done |-> done, gen |-> gen]]
      BY <2>5 DEF Store
    <3>3. gen \in Nat
      BY <1>5, <3>2
    <3>4. job' \in [Versions -> [done : BOOLEAN, gen : Nat]]
      BY <1>5, <3>2, <3>3
    <3> QED
      BY <1>5, <3>1, <3>4
  <2>6. CASE SyncRead
    BY <1>5, <2>6 DEF SyncRead
  <2>7. CASE SyncWrite
    BY <1>5, <2>7 DEF SyncWrite, Statuses
  <2> QED
    BY <2>1, <2>2, <2>3, <2>4, <2>5, <2>6, <2>7
<1>7. TypeOK'
  BY <1>1, <1>3, <1>6 DEF ReviewInv, TypeOK
<1>8. LockedAsJudged'
  BY <1>1, <1>6 DEF ReviewInv, LockedAsJudged
<1> QED
  BY <1>1, <1>3, <1>4, <1>6, <1>7, <1>8, QuietKeeps

-----------------------------------------------------------------------------
(* The steps that write or clear a lock.                                   *)

\* The types the steps of an actor's control start from.
LEMMA ControlFacts ==
    ASSUME ReviewInv
    PROVE  /\ pc \in [Actors -> Steps] /\ wrote \in [Reviewers -> 0..MaxSessions]
           /\ clears \in [Actors -> SUBSET Ids] /\ lock \in [Versions -> 0..MaxSessions]
           /\ session \in [Ids -> Sessions] /\ faults \in 0..MaxFaults
           /\ owner \in Reviewers \cup {None}
           /\ lapsed \subseteq Ids /\ undone \subseteq Ids
           /\ Analyzer \notin Reviewers /\ None \notin Reviewers
           /\ \A r \in Reviewers : r \in Actors
           /\ Analyzer \in Actors
           /\ \A q \in Reviewers : pc[q] \in {"reading", "open", "locked"} <=> owner = q
BY ReviewAssumption DEF ReviewInv, TypeOK, Actors

LEMMA VersionOf ==
    ASSUME ReviewInv, NEW s \in 1..last
    PROVE  session[s].version \in Versions
<1>1. s \in Ids /\ s <= last
  BY Known
<1>2. session[s].version \in 1..slot.version
  BY <1>1 DEF ReviewInv, Numbered
<1>3. slot.version \in 1..MaxVersions
  BY DEF ReviewInv, TypeOK, Versions
<1> QED
  BY <1>2, <1>3, ReviewAssumption DEF Versions

LEMMA ClearedIs ==
    ASSUME ReviewInv, NEW s \in Ids, s <= last
    PROVE  /\ Cleared(s) \in [Versions -> 0..MaxSessions]
           /\ \A v \in Versions : Cleared(s)[v] = IF lock[v] = s THEN 0 ELSE lock[v]
<1>1. session[s].version \in Versions
  BY Known, VersionOf
<1>2. \A v \in Versions : lock[v] = s => v = session[s].version
  BY Known DEF ReviewInv, Named
<1>3. 0 \in 0..MaxSessions /\ lock \in [Versions -> 0..MaxSessions]
  BY ReviewAssumption, ControlFacts
<1>4. PICK u \in Versions : u = session[s].version
  BY <1>1
<1>5. Cleared(s) = [lock EXCEPT ![u] = IF lock[u] = s THEN 0 ELSE lock[u]]
  BY <1>4 DEF Cleared
<1>6. Cleared(s) \in [Versions -> 0..MaxSessions]
  BY <1>3, <1>5
<1>7. \A v \in Versions : v # u => Cleared(s)[v] = lock[v] /\ lock[v] # s
  BY <1>2, <1>3, <1>4, <1>5
<1>8. Cleared(s)[u] = IF lock[u] = s THEN 0 ELSE lock[u]
  BY <1>3, <1>5
<1> QED
  BY <1>6, <1>7, <1>8

\* A step that clears the lock of s, if it is there, and leaves the sessions
\* alone; the other parts of the invariant are those of its caller.
LEMMA ClearingKeeps ==
    ASSUME ReviewInv, NEW s \in Ids, s <= last, TypeOK', Roles',
           UNCHANGED <<session, last, slot, resolved, overtaken>>,
           lapsed \subseteq lapsed', undone \subseteq undone',
           \/ lock' = Cleared(s)
           \/ lock' = lock /\ s \in lapsed',
           session[s].state = "invalidated" \/ lock' = lock \/ s \in undone',
           \A r \in Reviewers : pc'[r] = "locked" => pc[r] = "locked" /\ wrote'[r] = wrote[r],
           \A r \in Reviewers : wrote'[r] = wrote[r] \/ (wrote'[r] = 0 /\ wrote[r] \in {0, s}),
           \A a \in Actors : clears'[a] \subseteq clears[a] /\ clears[a] \subseteq clears'[a] \cup {s}
    PROVE  ReviewInv'
<1>1. \A v \in Versions : lock'[v] = lock[v] \/ (lock[v] = s /\ lock'[v] = 0)
  BY ClearedIs
<1>2. \A v \in Versions : lock'[v] # s \/ s \in lapsed'
  BY ClearedIs, Known
<1>3. Numbered'
  BY DEF ReviewInv, Numbered
<1>4. Named'
  <2>1. \A r \in Reviewers : wrote'[r] <= last
    BY Known DEF ReviewInv, Named
  <2> QED
    BY <1>1, <2>1 DEF ReviewInv, Named
<1>5. Gone'
  BY DEF ReviewInv, Gone
<1>6. Uncommitted'
  <2>1. SUFFICES ASSUME NEW r \in Reviewers, pc'[r] = "locked"
                 PROVE  /\ session[wrote[r]].state = "in_progress"
                        /\ session[wrote[r]].version = slot.version
                        /\ lock'[slot.version] = wrote[r] \/ wrote[r] \in undone'
    BY DEF Uncommitted
  <2>2. /\ session[wrote[r]].state = "in_progress"
        /\ session[wrote[r]].version = slot.version
        /\ lock[slot.version] = wrote[r] \/ wrote[r] \in undone
    BY <2>1 DEF ReviewInv, Uncommitted
  <2>3. slot.version \in Versions
    BY DEF ReviewInv, TypeOK
  <2>4. \/ lock'[slot.version] = lock[slot.version]
        \/ lock[slot.version] = s /\ lock' # lock
    BY <1>1, <2>3
  <2>5. CASE lock[slot.version] = wrote[r] /\ lock[slot.version] = s /\ lock' # lock
    <3>1. session[s].state # "invalidated"
      BY <2>2, <2>5
    <3> QED
      BY <2>2, <2>5, <3>1
  <2> QED
    BY <2>2, <2>4, <2>5
<1>7. CompletionIsLocked'
  <2>1. SUFFICES ASSUME last > 0, session[last].state = "completed", last \notin undone'
                 PROVE  lock'[session[last].version] = last
    BY DEF CompletionIsLocked
  <2>2. lock[session[last].version] = last
    BY <2>1 DEF ReviewInv, CompletionIsLocked
  <2>3. session[last].version \in Versions
    BY <2>1, Known, VersionOf
  <2>4. CASE last = s
    <3>1. lock' = lock
      BY <2>1, <2>4
    <3> QED
      BY <2>2, <3>1
  <2>5. CASE last # s
    <3>1. PICK v \in Versions : v = session[last].version
      BY <2>3
    <3>2. lock'[v] = lock[v]
      BY <1>1, <2>2, <2>5, <3>1
    <3> QED
      BY <2>2, <3>1, <3>2
  <2> QED
    BY <2>4, <2>5
<1>8. LockHasOwner'
  <2>1. SUFFICES ASSUME NEW v \in Versions, lock'[v] # 0, lock'[v] # s
                 PROVE  (\/ session[lock[v]].state = "completed"
                         \/ lock[v] \in lapsed
                         \/ \E q \in Reviewers : wrote[q] = lock[v]
                         \/ \E a \in Actors : lock[v] \in clears[a]
                         \/ v # slot.version)'
    BY <1>2 DEF LockHasOwner
  <2>2. lock'[v] = lock[v]
    BY <1>1, <2>1
  <2>3. \/ session[lock[v]].state = "completed"
        \/ lock[v] \in lapsed
        \/ \E q \in Reviewers : wrote[q] = lock[v]
        \/ \E a \in Actors : lock[v] \in clears[a]
        \/ v # slot.version
    BY <2>1, <2>2 DEF ReviewInv, LockHasOwner
  <2>4. \A q \in Reviewers : wrote[q] = lock[v] => wrote'[q] = lock[v]
    BY <2>1, <2>2
  <2>5. \A a \in Actors : lock[v] \in clears[a] => lock[v] \in clears'[a]
    BY <2>1, <2>2
  <2> QED
    BY <2>2, <2>3, <2>4, <2>5
<1>9. LockedAsJudged'
  BY <1>1 DEF ReviewInv, LockedAsJudged
<1> QED
  BY <1>3, <1>4, <1>5, <1>6, <1>7, <1>8, <1>9 DEF ReviewInv

LEMMA ClearLockKeeps ==
    ASSUME ReviewInv, NEW a \in Actors, ClearLock(a) PROVE ReviewInv'
<1>1. PICK s \in clears[a] :
        /\ clears' = [clears EXCEPT ![a] = @ \ {s}]
        /\ Goto(a, IF clears[a] # {s} THEN "after"
                   ELSE IF a = Analyzer THEN "queue" ELSE "idle")
        /\ \/ lock' = Cleared(s) /\ UNCHANGED <<faults, lapsed>>
           \/ Fault /\ lapsed' = lapsed \cup {s} /\ UNCHANGED lock
  BY DEF ClearLock
<1>2. /\ pc[a] = "after"
      /\ UNCHANGED <<material, owner, sessions, job, resolved, request, run, undone, overtaken>>
  BY DEF ClearLock
<1>3. s \in Ids /\ session[s].state = "invalidated"
  BY <1>1, ControlFacts DEF ReviewInv, Gone
<1>4. s <= last
  BY <1>3, Known DEF ReviewInv, Numbered, NoSession
<1>5. /\ pc' \in [Actors -> Steps] /\ pc'[a] \in {"after", "queue", "idle"}
      /\ clears[a] # {s} => pc'[a] = "after"
      /\ \A b \in Actors \ {a} : pc'[b] = pc[b]
  BY <1>1, ControlFacts DEF Goto, Steps
<1>6. /\ clears' \in [Actors -> SUBSET Ids]
      /\ clears'[a] = clears[a] \ {s} /\ \A b \in Actors \ {a} : clears'[b] = clears[b]
  BY <1>1, ControlFacts
<1>7. Roles'
  <2>1. \A r \in Reviewers : wrote[r] # 0 <=> pc'[r] \in {"locked", "undo"}
    BY <1>2, <1>5, ControlFacts DEF ReviewInv, Roles
  <2>2. \A b \in Actors : clears'[b] # {} => pc'[b] = "after"
    BY <1>5, <1>6 DEF ReviewInv, Roles
  <2> QED
    BY <1>2, <2>1, <2>2 DEF Roles
<1>8. /\ lock' \in [Versions -> 0..MaxSessions] /\ lapsed' \subseteq Ids /\ faults' \in 0..MaxFaults
      /\ lapsed \subseteq lapsed' /\ (lock' = Cleared(s) \/ (lock' = lock /\ s \in lapsed'))
  BY <1>1, <1>3, <1>4, ClearedIs, ControlFacts, ReviewAssumption DEF Fault
<1>9. \A q \in Reviewers : pc'[q] \in {"reading", "open", "locked"} <=> owner = q
  BY <1>2, <1>5, ControlFacts
<1>10. TypeOK'
  BY <1>2, <1>5, <1>6, <1>8, <1>9 DEF ReviewInv, TypeOK
<1>11. \A r \in Reviewers : pc'[r] = "locked" => pc[r] = "locked" /\ wrote'[r] = wrote[r]
  BY <1>2, <1>5, ControlFacts
<1>12. \A b \in Actors :
          clears'[b] \subseteq clears[b] /\ clears[b] \subseteq clears'[b] \cup {s}
  BY <1>6
<1> QED
  BY <1>2, <1>3, <1>4, <1>7, <1>8, <1>10, <1>11, <1>12, ClearingKeeps

LEMMA CompensateKeeps ==
    ASSUME ReviewInv, NEW r \in Reviewers, Compensate(r) PROVE ReviewInv'
<1>1. PICK s : s = wrote[r]
  OBVIOUS
<1>2. /\ pc[r] = "undo" /\ s \in Ids /\ s <= last
  BY <1>1, Known DEF Compensate, ReviewInv, Roles, Named
<1>3. /\ \/ /\ lock' = Cleared(s)
            /\ undone' = IF lock' = lock THEN undone ELSE undone \cup {s}
            /\ UNCHANGED <<faults, lapsed>>
         \/ /\ Fault /\ lapsed' = lapsed \cup {s}
            /\ UNCHANGED <<lock, undone>>
      /\ wrote' = [wrote EXCEPT ![r] = 0] /\ Goto(r, "idle")
      /\ UNCHANGED <<material, owner, sessions, job, resolved, view, clears, run, overtaken>>
  BY <1>1 DEF Compensate
<1>4. /\ pc' \in [Actors -> Steps] /\ pc'[r] = "idle"
      /\ \A a \in Actors \ {r} : pc'[a] = pc[a]
  BY <1>3, ControlFacts DEF Goto, Steps
<1>5. /\ wrote' \in [Reviewers -> 0..MaxSessions] /\ wrote'[r] = 0
      /\ \A q \in Reviewers \ {r} : wrote'[q] = wrote[q]
  BY <1>3, ControlFacts, ReviewAssumption
<1>6. Roles'
  <2>1. \A q \in Reviewers : wrote'[q] # 0 <=> pc'[q] \in {"locked", "undo"}
    BY <1>4, <1>5, ControlFacts DEF ReviewInv, Roles
  <2>2. \A a \in Actors : clears[a] # {} => pc'[a] = "after"
    BY <1>2, <1>4 DEF ReviewInv, Roles
  <2> QED
    BY <1>3, <2>1, <2>2 DEF Roles
<1>7. /\ lock' \in [Versions -> 0..MaxSessions] /\ lapsed' \subseteq Ids /\ undone' \subseteq Ids
      /\ faults' \in 0..MaxFaults /\ lapsed \subseteq lapsed' /\ undone \subseteq undone'
      /\ lock' = lock \/ s \in undone'
      /\ (lock' = Cleared(s) \/ (lock' = lock /\ s \in lapsed'))
  BY <1>2, <1>3, ClearedIs, ControlFacts, ReviewAssumption DEF Fault
<1>8. \A q \in Reviewers : pc'[q] \in {"reading", "open", "locked"} <=> owner = q
  BY <1>2, <1>4, ControlFacts
<1>9. TypeOK'
  BY <1>3, <1>4, <1>5, <1>7, <1>8 DEF ReviewInv, TypeOK
<1>10. \A q \in Reviewers : pc'[q] = "locked" => pc[q] = "locked" /\ wrote'[q] = wrote[q]
  BY <1>4, <1>5, ControlFacts
<1>11. \A q \in Reviewers : wrote'[q] = wrote[q] \/ (wrote'[q] = 0 /\ wrote[q] \in {0, s})
  BY <1>1, <1>5
<1> QED
  BY <1>2, <1>3, <1>6, <1>7, <1>9, <1>10, <1>11, ClearingKeeps

LEMMA WriteLockKeeps ==
    ASSUME ReviewInv, NEW r \in Reviewers, WriteLock(r) PROVE ReviewInv'
<1>1. PICK s \in Ids :
        /\ GateOpen(s) /\ resolved[slot.version] = view.resolved
        /\ lock' = [lock EXCEPT ![slot.version] = s]
        /\ wrote' = [wrote EXCEPT ![r] = s]
  BY DEF WriteLock
<1>2. /\ pc[r] = "open" /\ Goto(r, "locked")
      /\ UNCHANGED <<material, owner, sessions, job, resolved, view, clears, run, faults, history>>
  BY DEF WriteLock
<1>3. /\ session[s].state = "in_progress" /\ session[s].version = slot.version /\ s = last
      /\ resolved[slot.version]
  BY <1>1 DEF GateOpen, Active, Stale, ReviewInv, Numbered
<1>4. slot.version \in Versions /\ s \in 0..MaxSessions /\ s # 0
  BY Known, ReviewAssumption DEF ReviewInv, TypeOK, Ids
<1>5. /\ lock' \in [Versions -> 0..MaxSessions] /\ lock'[slot.version] = s
      /\ \A v \in Versions : v # slot.version => lock'[v] = lock[v]
      /\ wrote' \in [Reviewers -> 0..MaxSessions] /\ wrote'[r] = s
      /\ \A q \in Reviewers \ {r} : wrote'[q] = wrote[q]
  BY <1>1, <1>4, ControlFacts
<1>6. /\ pc' \in [Actors -> Steps] /\ pc'[r] = "locked"
      /\ \A a \in Actors \ {r} : pc'[a] = pc[a]
  BY <1>2, ControlFacts DEF Goto, Steps
<1>7. \A q \in Reviewers : pc'[q] \in {"reading", "open", "locked"} <=> owner = q
  BY <1>2, <1>6, ControlFacts
<1>8. TypeOK'
  BY <1>2, <1>5, <1>6, <1>7 DEF ReviewInv, TypeOK
<1>9. Roles'
  <2>1. \A q \in Reviewers : wrote'[q] # 0 <=> pc'[q] \in {"locked", "undo"}
    BY <1>4, <1>5, <1>6, ControlFacts DEF ReviewInv, Roles
  <2>2. \A a \in Actors : clears[a] # {} => pc'[a] = "after"
    BY <1>2, <1>6 DEF ReviewInv, Roles
  <2> QED
    BY <1>2, <2>1, <2>2 DEF Roles
<1>10. Numbered' /\ Gone'
  BY <1>2 DEF ReviewInv, Numbered, Gone
<1>11. Named'
  BY <1>2, <1>3, <1>5, Known DEF ReviewInv, Named
<1>12. Uncommitted'
  <2>1. \A q \in Reviewers : pc'[q] = "locked" => q = r
    BY <1>2, <1>6, ControlFacts
  <2> QED
    BY <1>2, <1>3, <1>5, <2>1 DEF Uncommitted
<1>13. CompletionIsLocked'
  BY <1>2, <1>3 DEF CompletionIsLocked
<1>14. LockHasOwner'
  BY <1>2, <1>5 DEF LockHasOwner
<1>15. LockedAsJudged'
  BY <1>2, <1>3, <1>5 DEF ReviewInv, LockedAsJudged
<1> QED
  BY <1>8, <1>9, <1>10, <1>11, <1>12, <1>13, <1>14, <1>15 DEF ReviewInv

LEMMA FinishKeeps ==
    ASSUME ReviewInv, NEW r \in Reviewers, FinishCompletion(r) PROVE ReviewInv'
<1>1. PICK w : w = wrote[r]
  OBVIOUS
<1>2. /\ pc[r] = "locked" /\ session' = [session EXCEPT ![w].state = "completed"]
      /\ slot' = [slot EXCEPT !.status = "completed"] /\ CommitTx(r, {})
      /\ UNCHANGED <<last, covered, reopened, uploaded, job, workflow, run, undone, overtaken>>
  BY <1>1 DEF FinishCompletion
<1>3. w \in Ids /\ w <= last
  BY <1>1, <1>2, Known DEF ReviewInv, Roles, Named
<1>4. /\ session[w].state = "in_progress" /\ session[w].version = slot.version /\ w = last
      /\ lock[slot.version] = w \/ w \in undone
  BY <1>1, <1>2, <1>3 DEF ReviewInv, Uncommitted, Numbered
<1>5. /\ session' \in [Ids -> Sessions]
      /\ session'[w].state = "completed" /\ session'[w].version = session[w].version
      /\ \A s \in Ids \ {w} : session'[s] = session[s]
  BY <1>2, <1>3, ControlFacts DEF Sessions, States
<1>6. slot' \in [version : Versions, status : Statuses] /\ slot'.version = slot.version
  BY <1>2 DEF ReviewInv, TypeOK, Statuses
<1>7. /\ owner' = None /\ view' \in Views
      /\ pc' \in [Actors -> Steps]
      /\ wrote' \in [Reviewers -> 0..MaxSessions]
      /\ clears' \in [Actors -> SUBSET Ids]
      /\ faults' \in 0..MaxFaults /\ lapsed' \subseteq Ids /\ lapsed \subseteq lapsed'
      /\ \A q \in Reviewers : pc'[q] \notin {"reading", "open", "locked"}
      /\ Roles'
      /\ clears'[r] = {} /\ clears[r] = {}
      /\ \A a \in Actors \ {r} : clears'[a] = clears[a]
      /\ \A q \in Reviewers \ {r} : wrote'[q] = wrote[q]
      /\ wrote'[r] \in {0, w}
  BY <1>1, <1>2, Committed DEF ReviewInv
<1>8. TypeOK'
  BY <1>2, <1>5, <1>6, <1>7, ControlFacts DEF ReviewInv, TypeOK
<1>9. Numbered'
  BY <1>2, <1>3, <1>4, <1>5, <1>6, Known DEF ReviewInv, Numbered
<1>10. Named'
  BY <1>1, <1>2, <1>3, <1>5, <1>7, Known DEF ReviewInv, Named
<1>11. Gone'
  <2>1. SUFFICES ASSUME NEW a \in Actors, NEW s \in clears'[a]
                 PROVE  session'[s].state = "invalidated"
    BY DEF Gone
  <2>2. s \in clears[a] /\ s \in Ids
    BY <1>7
  <2>3. session[s].state = "invalidated"
    BY <2>2 DEF ReviewInv, Gone
  <2> QED
    BY <1>4, <1>5, <2>2, <2>3
<1>12. Uncommitted'
  BY <1>7 DEF Uncommitted
<1>13. CompletionIsLocked'
  BY <1>2, <1>4, <1>5 DEF CompletionIsLocked
<1>14. LockHasOwner'
  <2>1. SUFFICES ASSUME NEW v \in Versions, lock[v] # 0, lock[v] # w
                 PROVE  (\/ session[lock[v]].state = "completed"
                         \/ lock[v] \in lapsed
                         \/ \E q \in Reviewers : wrote[q] = lock[v]
                         \/ \E a \in Actors : lock[v] \in clears[a]
                         \/ v # slot.version)'
    BY <1>2, <1>5 DEF LockHasOwner
  <2>2. /\ \/ session[lock[v]].state = "completed"
           \/ lock[v] \in lapsed
           \/ \E q \in Reviewers : wrote[q] = lock[v]
           \/ \E a \in Actors : lock[v] \in clears[a]
           \/ v # slot.version
        /\ lock[v] \in Ids
    BY <2>1, Known DEF ReviewInv, LockHasOwner
  <2>3. \A q \in Reviewers : wrote[q] = lock[v] => wrote'[q] = lock[v]
    BY <1>1, <1>7, <2>1
  <2>4. \A a \in Actors : lock[v] \in clears[a] => lock[v] \in clears'[a]
    BY <1>7
  <2> QED
    BY <1>2, <1>5, <1>6, <1>7, <2>1, <2>2, <2>3, <2>4
<1>15. LockedAsJudged'
  BY <1>2 DEF ReviewInv, LockedAsJudged
<1> QED
  BY <1>7, <1>8, <1>9, <1>10, <1>11, <1>12, <1>13, <1>14, <1>15 DEF ReviewInv

LEMMA CommitFailsKeeps ==
    ASSUME ReviewInv, NEW r \in Reviewers, CommitFails(r) PROVE ReviewInv'
<1>1. /\ pc[r] = "locked" /\ Fault /\ owner' = None /\ view' = NoView /\ Goto(r, "undo")
      /\ UNCHANGED <<material, sessions, job, workflow, wrote, clears, run, history>>
  BY DEF CommitFails
<1>2. /\ pc' \in [Actors -> Steps] /\ pc'[r] = "undo"
      /\ \A a \in Actors \ {r} : pc'[a] = pc[a]
  BY <1>1, ControlFacts DEF Goto, Steps
<1>3. \A q \in Reviewers : pc'[q] \notin {"reading", "open", "locked"}
  BY <1>1, <1>2, ControlFacts
<1>4. faults' \in 0..MaxFaults /\ view' \in Views
  BY <1>1, ControlFacts, ReviewAssumption DEF Fault, NoView, Views
<1>5. TypeOK'
  BY <1>1, <1>2, <1>3, <1>4, ControlFacts DEF ReviewInv, TypeOK
<1>6. Roles'
  <2>1. \A q \in Reviewers : wrote[q] # 0 <=> pc'[q] \in {"locked", "undo"}
    BY <1>1, <1>2, ControlFacts DEF ReviewInv, Roles
  <2>2. \A a \in Actors : clears[a] # {} => pc'[a] = "after"
    BY <1>1, <1>2 DEF ReviewInv, Roles
  <2> QED
    BY <1>1, <2>1, <2>2 DEF Roles
<1>7. LockedAsJudged'
  BY <1>1 DEF ReviewInv, LockedAsJudged
<1> QED
  BY <1>1, <1>3, <1>5, <1>6, <1>7, QuietKeeps
-----------------------------------------------------------------------------
(* The steps that give up sessions outside a request, and crashes.         *)

\* Sessions are given up while nobody holds the row lock; their locks are to be
\* cleared, or are those of a version that is no longer current.
LEMMA GivingUpKeeps ==
    ASSUME ReviewInv, NEW S \in SUBSET Ids, TypeOK', Roles', owner' = None,
           session' = Invalidated(S),
           UNCHANGED <<last, lock, resolved, wrote, lapsed, undone, overtaken>>,
           slot.version <= slot'.version,
           \A a \in Actors : clears[a] \subseteq clears'[a] /\ clears'[a] \subseteq clears[a] \cup S,
           \A s \in S : s <= last,
           \A v \in Versions : lock[v] \in S =>
               v # slot'.version \/ \E a \in Actors : lock[v] \in clears'[a]
    PROVE  ReviewInv'
<1>1. /\ \A s \in Ids \ S : session'[s] = session[s]
      /\ \A s \in S : /\ session'[s].state = "invalidated"
                      /\ session'[s].version = session[s].version
  BY InvalidatedIs, ControlFacts
<1>2. \A s \in Ids : session'[s].version = session[s].version
  BY <1>1
<1>3. slot.version \in Nat /\ slot'.version \in Nat
  <2>1. slot' \in [version : Versions, status : Statuses]
    BY DEF TypeOK
  <2>2. slot'.version \in Versions
    BY <2>1
  <2> QED
    BY <2>2, Known, ReviewAssumption DEF Versions
<1>4. Numbered'
  <2>1. SUFFICES ASSUME NEW s \in Ids
                 PROVE  /\ s > last => session'[s] = NoSession
                        /\ s <= last => session'[s].version \in 1..slot'.version
                        /\ session'[s].state = "in_progress" => s = last
    BY DEF Numbered
  <2>2. /\ s > last => session[s] = NoSession
        /\ s <= last => session[s].version \in 1..slot.version
        /\ session[s].state = "in_progress" => s = last
    BY DEF ReviewInv, Numbered
  <2>3. s > last => s \notin S
    BY Known
  <2>4. s <= last => session'[s].version \in 1..slot'.version
    BY <1>2, <1>3, <2>2
  <2> QED
    BY <1>1, <2>2, <2>3, <2>4
<1>5. Named'
  BY <1>2, Known DEF ReviewInv, Named
<1>6. Gone'
  <2>1. SUFFICES ASSUME NEW a \in Actors, NEW s \in clears'[a]
                 PROVE  session'[s].state = "invalidated"
    BY DEF Gone
  <2>2. CASE s \in S
    BY <1>1, <2>2
  <2>3. CASE s \notin S
    <3>1. s \in clears[a] /\ s \in Ids
      BY <2>1, <2>3, ControlFacts
    <3>2. session[s].state = "invalidated"
      BY <3>1 DEF ReviewInv, Gone
    <3> QED
      BY <1>1, <2>3, <3>1, <3>2
  <2> QED
    BY <2>2, <2>3
<1>7. Uncommitted'
  <2>1. \A r \in Reviewers : pc'[r] # "locked"
    BY ControlFacts DEF TypeOK
  <2> QED
    BY <2>1 DEF Uncommitted
<1>8. CompletionIsLocked'
  <2>1. SUFFICES ASSUME last > 0, session'[last].state = "completed", last \notin undone
                 PROVE  lock[session'[last].version] = last
    BY DEF CompletionIsLocked
  <2>2. last \in Ids
    BY <2>1, Known
  <2>3. session'[last] = session[last]
    BY <1>1, <2>1, <2>2
  <2> QED
    BY <2>1, <2>3 DEF ReviewInv, CompletionIsLocked
<1>9. LockHasOwner'
  <2>1. SUFFICES ASSUME NEW v \in Versions, lock[v] # 0, v = slot'.version, lock[v] \notin S
                 PROVE  (\/ session[lock[v]].state = "completed"
                         \/ lock[v] \in lapsed
                         \/ \E q \in Reviewers : wrote[q] = lock[v]
                         \/ \E a \in Actors : lock[v] \in clears[a])'
    BY DEF LockHasOwner
  <2>2. lock[v] \in Ids /\ lock[v] <= last /\ session[lock[v]].version = v
    BY <2>1, Known DEF ReviewInv, Named
  <2>3. session[lock[v]].version <= slot.version
    BY <1>3, <2>2 DEF ReviewInv, Numbered
  <2>4. v = slot.version
    BY <1>3, <2>1, <2>2, <2>3
  <2>5. \/ session[lock[v]].state = "completed"
        \/ lock[v] \in lapsed
        \/ \E q \in Reviewers : wrote[q] = lock[v]
        \/ \E a \in Actors : lock[v] \in clears[a]
    BY <2>1, <2>4 DEF ReviewInv, LockHasOwner
  <2>6. session'[lock[v]] = session[lock[v]]
    BY <1>1, <2>1, <2>2
  <2> QED
    BY <2>5, <2>6
<1>10. LockedAsJudged'
  BY DEF ReviewInv, LockedAsJudged
<1> QED
  BY <1>4, <1>5, <1>6, <1>7, <1>8, <1>9, <1>10 DEF ReviewInv

\* What binding a version does to the sessions and the slot.
LEMMA BindKeeps ==
    ASSUME ReviewInv, NEW v \in Versions, Bind(v), uploaded' \in Versions,
           UNCHANGED <<owner, last, covered, reopened, job, workflow, pc, request,
                       clears, run, faults, history>>
    PROVE  ReviewInv'
<1>1. PICK c : c = IF v > slot.version THEN v ELSE slot.version
  OBVIOUS
<1>2. PICK S : S = {s \in Live : session[s].version # c}
  OBVIOUS
<1>3. /\ owner = None
      /\ slot' = [version |-> c, status |-> "uploaded"]
      /\ session' = Invalidated(S)
  BY <1>1, <1>2 DEF Bind
<1>4. c \in Versions /\ slot.version <= c
  BY <1>1, Known DEF ReviewInv, TypeOK, Versions
<1>5. slot' \in [version : Versions, status : Statuses] /\ slot'.version = c
  BY <1>3, <1>4 DEF Statuses
<1>6. S \in SUBSET Ids /\ \A s \in S : s <= last
  BY <1>2, Known DEF ReviewInv, Numbered, Live, NoSession
<1>7. session' \in [Ids -> Sessions]
  BY <1>3, <1>6, InvalidatedIs, ControlFacts
<1>8. TypeOK'
  BY <1>5, <1>7 DEF ReviewInv, TypeOK
<1>9. Roles'
  BY DEF ReviewInv, Roles
<1>10. \A u \in Versions : lock[u] \in S => u # c
  <2>1. SUFFICES ASSUME NEW u \in Versions, lock[u] \in S PROVE u # c
    OBVIOUS
  <2>2. lock[u] \in Ids /\ lock[u] # 0
    BY <1>6, <2>1, Known
  <2>3. session[lock[u]].version = u
    BY <2>2 DEF ReviewInv, Named
  <2> QED
    BY <1>2, <2>1, <2>3
<1> QED
  BY <1>3, <1>4, <1>5, <1>6, <1>8, <1>9, <1>10, GivingUpKeeps

LEMMA UploadKeeps ==
    ASSUME ReviewInv, Upload PROVE ReviewInv'
<1>1. uploaded + 1 \in Versions /\ uploaded' = uploaded + 1
  BY ReviewAssumption DEF Upload, ReviewInv, TypeOK, Versions
<1>2. UNCHANGED <<owner, last, covered, reopened, job, workflow, pc, request,
                  clears, run, faults, history>>
  BY DEF Upload
<1>3. CASE Bind(uploaded + 1)
  BY <1>1, <1>2, <1>3, BindKeeps
<1>4. CASE UNCHANGED <<slot, session>>
  <2>1. TypeOK' /\ Roles' /\ LockedAsJudged'
    BY <1>1, <1>2, <1>4 DEF ReviewInv, TypeOK, Roles, LockedAsJudged
  <2> QED
    BY <1>2, <1>4, <2>1, QuietKeeps
<1> QED
  BY <1>3, <1>4 DEF Upload

LEMMA AllocateKeeps ==
    ASSUME ReviewInv, Allocate PROVE ReviewInv'
<1>1. run.version \in Versions /\ uploaded \in Versions
  BY DEF ReviewInv, TypeOK
<1>2. /\ Bind(run.version)
      /\ UNCHANGED <<owner, uploaded, last, covered, reopened, job, workflow, pc, request,
                     clears, run, faults, history>>
  BY DEF Allocate
<1> QED
  BY <1>1, <1>2, BindKeeps

LEMMA HookKeeps ==
    ASSUME ReviewInv, Hook PROVE ReviewInv'
<1>1. PICK gone : gone = {s \in Live : session[s].version = run.version}
  OBVIOUS
<1>2. /\ pc[Analyzer] = "hook"
      /\ UNCHANGED <<owner, uploaded, last, covered, reopened, job, workflow, request, run, history>>
  BY DEF Hook
<1>3. clears[Analyzer] = {}
  BY <1>2, ControlFacts DEF ReviewInv, Roles
<1>4. CASE /\ owner = None
           /\ session' = Invalidated(gone)
           /\ slot' = IF gone # {} /\ slot.status # "uploaded"
                      THEN [slot EXCEPT !.status = "review_required"] ELSE slot
           /\ clears' = [clears EXCEPT ![Analyzer] = gone]
           /\ Goto(Analyzer, IF gone = {} THEN "queue" ELSE "after")
           /\ UNCHANGED faults
  <2>1. gone \in SUBSET Ids /\ \A s \in gone : s <= last
    BY <1>1, Known DEF ReviewInv, Numbered, Live, NoSession
  <2>2. session' \in [Ids -> Sessions]
    BY <1>4, <2>1, InvalidatedIs, ControlFacts
  <2>3. slot' \in [version : Versions, status : Statuses] /\ slot'.version = slot.version
    BY <1>4 DEF ReviewInv, TypeOK, Statuses
  <2>4. /\ clears' \in [Actors -> SUBSET Ids] /\ clears'[Analyzer] = gone
        /\ \A a \in Actors : a # Analyzer => clears'[a] = clears[a]
    BY <1>4, <2>1, ControlFacts
  <2>5. /\ pc' \in [Actors -> Steps] /\ (gone # {} => pc'[Analyzer] = "after")
        /\ \A a \in Actors : a # Analyzer => pc'[a] = pc[a]
    BY <1>4, ControlFacts DEF Goto, Steps
  <2>6. \A r \in Reviewers : pc'[r] = pc[r]
    BY <2>5, ControlFacts
  <2>7. TypeOK'
    BY <1>2, <1>4, <2>2, <2>3, <2>4, <2>5, <2>6 DEF ReviewInv, TypeOK
  <2>8. Roles'
    <3>1. \A a \in Actors : clears'[a] # {} => pc'[a] = "after"
      BY <2>4, <2>5 DEF ReviewInv, Roles
    <3> QED
      BY <1>2, <2>6, <3>1 DEF ReviewInv, Roles
  <2>9. \A a \in Actors : clears[a] \subseteq clears'[a] /\ clears'[a] \subseteq clears[a] \cup gone
    BY <1>3, <2>4
  <2>10. \A v \in Versions : lock[v] \in gone => \E a \in Actors : lock[v] \in clears'[a]
    BY <2>4, ControlFacts
  <2>11. slot.version <= slot'.version
    BY <2>3, Known
  <2> QED
    BY <1>2, <1>4, <2>1, <2>7, <2>8, <2>9, <2>10, <2>11, GivingUpKeeps
<1>5. CASE Fault /\ Goto(Analyzer, "queue") /\ UNCHANGED <<slot, session, clears>>
  <2>1. /\ pc' \in [Actors -> Steps]
        /\ \A a \in Actors : a # Analyzer => pc'[a] = pc[a]
    BY <1>5, ControlFacts DEF Goto, Steps
  <2>2. \A r \in Reviewers : pc'[r] = pc[r]
    BY <2>1, ControlFacts
  <2>3. faults' \in 0..MaxFaults
    BY <1>5, ControlFacts, ReviewAssumption DEF Fault
  <2>4. TypeOK'
    BY <1>2, <1>5, <2>1, <2>2, <2>3 DEF ReviewInv, TypeOK
  <2>5. Roles'
    <3>1. \A a \in Actors : clears[a] # {} => pc'[a] = "after"
      BY <1>3, <2>1 DEF ReviewInv, Roles
    <3> QED
      BY <1>2, <1>5, <2>2, <3>1 DEF ReviewInv, Roles
  <2>6. LockedAsJudged'
    BY <1>2 DEF ReviewInv, LockedAsJudged
  <2> QED
    BY <1>2, <1>5, <2>2, <2>4, <2>5, <2>6, QuietKeeps
<1> QED
  BY <1>1, <1>4, <1>5 DEF Hook
LEMMA CrashKeeps ==
    ASSUME ReviewInv, NEW a \in Actors, Crash(a) PROVE ReviewInv'
<1>1. PICK w : w = IF a = Analyzer THEN 0 ELSE wrote[a]
  OBVIOUS
<1>2. /\ Fault /\ Goto(a, "idle")
      /\ owner' = (IF owner = a THEN None ELSE owner)
      /\ view' = (IF owner = a THEN NoView ELSE view)
      /\ clears' = [clears EXCEPT ![a] = {}]
      /\ wrote' = IF a = Analyzer THEN wrote ELSE [wrote EXCEPT ![a] = 0]
      /\ lapsed' = lapsed \cup clears[a] \cup (IF a = Analyzer \/ wrote[a] = 0 THEN {} ELSE {wrote[a]})
      /\ UNCHANGED <<material, sessions, job, workflow, run, undone, overtaken>>
  BY DEF Crash
<1>3. a = Analyzer \/ a \in Reviewers
  BY DEF Actors
<1>4. /\ pc' \in [Actors -> Steps] /\ pc'[a] = "idle"
      /\ \A b \in Actors \ {a} : pc'[b] = pc[b]
  BY <1>2, ControlFacts DEF Goto, Steps
<1>5. /\ clears' \in [Actors -> SUBSET Ids] /\ clears'[a] = {}
      /\ \A b \in Actors \ {a} : clears'[b] = clears[b]
  BY <1>2, ControlFacts
<1>6. /\ wrote' \in [Reviewers -> 0..MaxSessions]
      /\ \A q \in Reviewers \ {a} : wrote'[q] = wrote[q]
      /\ a \in Reviewers => wrote'[a] = 0 /\ wrote[a] = w
  BY <1>1, <1>2, <1>3, ControlFacts, ReviewAssumption
<1>7. /\ lapsed' \subseteq Ids /\ lapsed \subseteq lapsed' /\ clears[a] \subseteq lapsed'
      /\ w # 0 => w \in lapsed'
  <2>1. w # 0 => a \in Reviewers /\ w = wrote[a] /\ w \in Ids
    BY <1>1, <1>3, Known
  <2>2. lapsed' = lapsed \cup clears[a] \cup (IF w = 0 THEN {} ELSE {w})
    BY <1>1, <1>2
  <2>3. clears[a] \subseteq Ids /\ lapsed \subseteq Ids
    BY ControlFacts
  <2> QED
    BY <2>1, <2>2, <2>3
<1>8. faults' \in 0..MaxFaults
  BY <1>2, ControlFacts, ReviewAssumption DEF Fault
<1>9. view' \in Views
  BY <1>2 DEF ReviewInv, TypeOK, NoView, Views
<1>10. /\ owner' \in Reviewers \cup {None}
       /\ \A q \in Reviewers : pc'[q] \in {"reading", "open", "locked"} <=> owner' = q
  BY <1>2, <1>4, ControlFacts
<1>11. TypeOK'
  BY <1>2, <1>4, <1>5, <1>6, <1>7, <1>8, <1>9, <1>10 DEF ReviewInv, TypeOK
<1>12. Roles'
  <2>1. \A q \in Reviewers : wrote'[q] # 0 <=> pc'[q] \in {"locked", "undo"}
    BY <1>4, <1>6, ControlFacts DEF ReviewInv, Roles
  <2>2. \A b \in Actors : clears'[b] # {} => pc'[b] = "after"
    BY <1>4, <1>5 DEF ReviewInv, Roles
  <2> QED
    BY <2>1, <2>2 DEF Roles
<1>13. Numbered' /\ CompletionIsLocked' /\ LockedAsJudged'
  BY <1>2 DEF ReviewInv, Numbered, CompletionIsLocked, LockedAsJudged
<1>14. Named'
  <2>1. \A q \in Reviewers : wrote'[q] <= last
    BY <1>6, Known DEF ReviewInv, Named
  <2> QED
    BY <1>2, <2>1 DEF ReviewInv, Named
<1>15. Gone'
  BY <1>2, <1>5 DEF ReviewInv, Gone
<1>16. Uncommitted'
  <2>1. \A q \in Reviewers : pc'[q] = "locked" => q # a /\ pc[q] = "locked" /\ wrote'[q] = wrote[q]
    BY <1>4, <1>6, ControlFacts
  <2> QED
    BY <1>2, <2>1 DEF ReviewInv, Uncommitted
<1>17. LockHasOwner'
  <2>1. SUFFICES ASSUME NEW v \in Versions, lock[v] # 0
                 PROVE  (\/ session[lock[v]].state = "completed"
                         \/ lock[v] \in lapsed
                         \/ \E q \in Reviewers : wrote[q] = lock[v]
                         \/ \E b \in Actors : lock[v] \in clears[b]
                         \/ v # slot.version)'
    BY <1>2 DEF LockHasOwner
  <2>2. \/ session[lock[v]].state = "completed"
        \/ lock[v] \in lapsed
        \/ \E q \in Reviewers : wrote[q] = lock[v]
        \/ \E b \in Actors : lock[v] \in clears[b]
        \/ v # slot.version
    BY <2>1 DEF ReviewInv, LockHasOwner
  <2>3. CASE \E q \in Reviewers : wrote[q] = lock[v]
    BY <1>2, <1>6, <1>7, <2>1, <2>3
  <2>4. CASE \E b \in Actors : lock[v] \in clears[b]
    BY <1>2, <1>5, <1>7, <2>4
  <2>5. CASE session[lock[v]].state = "completed" \/ lock[v] \in lapsed \/ v # slot.version
    BY <1>2, <1>7, <2>5
  <2> QED
    BY <2>2, <2>3, <2>4, <2>5
<1> QED
  BY <1>11, <1>12, <1>13, <1>14, <1>15, <1>16, <1>17 DEF ReviewInv

-----------------------------------------------------------------------------
(* The invariant and what it implies.                                      *)

LEMMA InvInit == ASSUME Init PROVE ReviewInv
<1>1. /\ slot \in [version : Versions, status : Statuses]
      /\ session \in [Ids -> Sessions]
      /\ job \in [Versions -> [done : BOOLEAN, gen : Nat]]
      /\ lock \in [Versions -> 0..MaxSessions]
      /\ run \in [version : Versions, seen : BOOLEAN]
      /\ uploaded \in Versions /\ faults \in 0..MaxFaults /\ last \in 0..MaxSessions
      /\ view \in Views /\ wrote \in [Reviewers -> 0..MaxSessions]
  BY ReviewAssumption
     DEF Init, Versions, Statuses, Sessions, NoSession, States, Views, NoView
<1>2. resolved \in [Versions -> BOOLEAN] /\ covered \in BOOLEAN /\ reopened \in BOOLEAN
  BY DEF Init
<1>3. pc \in [Actors -> Steps] /\ clears \in [Actors -> SUBSET Ids]
  BY DEF Init, Steps
<1>4. \A r \in Reviewers : pc[r] \in {"reading", "open", "locked"} <=> owner = r
  BY ReviewAssumption DEF Init, Actors
<1>5. TypeOK
  BY <1>1, <1>2, <1>3, <1>4 DEF Init, TypeOK
<1>6. Roles
  BY DEF Init, Roles, Actors
<1>7. Numbered
  <2>1. SUFFICES ASSUME NEW s \in Ids
                 PROVE  s > last /\ session[s] = NoSession /\ session[s].state # "in_progress"
    BY ReviewAssumption DEF Init, Numbered, Ids
  <2> QED
    BY ReviewAssumption DEF Init, Ids, NoSession
<1>8. Named /\ Gone /\ Uncommitted /\ CompletionIsLocked /\ LockHasOwner /\ LockedAsJudged
  BY DEF Init, Named, Gone, Uncommitted, CompletionIsLocked, LockHasOwner, LockedAsJudged, Actors
<1> QED
  BY <1>5, <1>6, <1>7, <1>8 DEF ReviewInv

LEMMA InvNext == ASSUME ReviewInv, [Next]_vars PROVE ReviewInv'
<1>1. ASSUME NEW r \in Reviewers, Open(r) \/ ReadIssues(r) \/ Serve(r) PROVE ReviewInv'
  BY <1>1, ReadingKeeps, ServeKeeps, WriteLockKeeps DEF Serve
<1>2. ASSUME NEW a \in Actors, Settle(a) \/ Crash(a) PROVE ReviewInv'
  BY <1>2, ClearLockKeeps, FinishKeeps, CommitFailsKeeps, CompensateKeeps, CrashKeeps DEF Settle
<1>3. ASSUME NEW v \in Versions, Edit(v) PROVE ReviewInv'
  BY <1>3, AnalysisKeeps
<1>4. CASE Upload
  BY <1>4, UploadKeeps
<1>5. CASE Analyze
  BY <1>5, AnalysisKeeps, HookKeeps, AllocateKeeps DEF Analyze
<1>6. CASE UNCHANGED vars
  <2>1. UNCHANGED <<slot, uploaded, owner, session, last, covered, reopened, job, resolved,
                    lock, pc, view, wrote, clears, run, faults, lapsed, undone, overtaken>>
    BY <1>6 DEF vars
  <2>2. TypeOK' /\ Roles' /\ LockedAsJudged'
    BY <2>1 DEF ReviewInv, TypeOK, Roles, LockedAsJudged
  <2> QED
    BY <2>1, <2>2, QuietKeeps
<1> QED
  BY <1>1, <1>2, <1>3, <1>4, <1>5, <1>6 DEF Next

LEMMA InvAlways == Spec => []ReviewInv
BY InvInit, InvNext, PTL DEF Spec
LEMMA UnlockStep ==
    ASSUME ReviewInv, [Next]_vars, NEW v \in Versions, lock[v] # 0, lock'[v] # lock[v]
    PROVE  \/ session[lock[v]].state = "invalidated"
           \/ lock[v] \in undone'
           \/ lock'[v] > lock[v]
<1> DEFINE Rightly == \/ session[lock[v]].state = "invalidated"
                      \/ lock[v] \in undone'
                      \/ lock'[v] > lock[v]
<1>1. ASSUME NEW a \in Actors, ClearLock(a) PROVE Rightly
  <2>1. PICK s \in clears[a] : lock' = Cleared(s) \/ lock' = lock
    BY <1>1 DEF ClearLock
  <2>2. s \in Ids /\ session[s].state = "invalidated"
    BY <2>1, ControlFacts DEF ReviewInv, Gone
  <2>3. s <= last
    BY <2>2, Known DEF ReviewInv, Numbered, NoSession
  <2>4. lock[v] = s
    BY <2>1, <2>2, <2>3, ClearedIs
  <2> QED
    BY <2>2, <2>4
<1>2. ASSUME NEW r \in Reviewers, Compensate(r) PROVE Rightly
  <2>1. PICK s : s = wrote[r]
    OBVIOUS
  <2>2. s \in Ids /\ s <= last
    BY <1>2, <2>1, Known DEF Compensate, ReviewInv, Roles, Named
  <2>3. \/ lock' = Cleared(s) /\ undone' = IF lock' = lock THEN undone ELSE undone \cup {s}
        \/ lock' = lock
    BY <1>2, <2>1 DEF Compensate
  <2>4. lock[v] = s
    BY <2>2, <2>3, ClearedIs
  <2>5. s \in undone'
    BY <2>3
  <2> QED
    BY <2>4, <2>5
<1>3. ASSUME NEW r \in Reviewers, WriteLock(r) PROVE Rightly
  <2>1. PICK s \in Ids : GateOpen(s) /\ lock' = [lock EXCEPT ![slot.version] = s]
    BY <1>3 DEF WriteLock
  <2>2. s = last
    BY <2>1 DEF GateOpen, Active, Stale, ReviewInv, Numbered
  <2>3. lock'[v] = s \/ lock'[v] = lock[v]
    BY <2>1, ControlFacts
  <2>4. lock[v] \in Ids /\ lock[v] <= last
    BY Known DEF ReviewInv, Named
  <2> QED
    BY <2>2, <2>3, <2>4, Known
<1>4. ASSUME NEW r \in Reviewers,
             Open(r) \/ ReadIssues(r) \/ StartReview(r) \/ ReopenReview(r)
                \/ DecideObligation(r) \/ ConfirmScope(r) \/ Rollback(r)
                \/ FinishCompletion(r) \/ CommitFails(r)
      PROVE  FALSE
  BY <1>4 DEF Open, ReadIssues, StartReview, ReopenReview, DecideObligation,
              ConfirmScope, Rollback, FinishCompletion, CommitFails
<1>5. ASSUME NEW a \in Actors, Crash(a) PROVE FALSE
  BY <1>5 DEF Crash
<1>6. ASSUME NEW u \in Versions, Edit(u) PROVE FALSE
  BY <1>6 DEF Edit
<1>7. Upload \/ Analyze => FALSE
  BY DEF Upload, Analyze, Restart, Hook, PersistQueued, Allocate, Produce, Store,
         SyncRead, SyncWrite
<1>8. UNCHANGED vars => FALSE
  BY DEF vars
<1> HIDE DEF Rightly
<1>9. Rightly
  BY <1>1, <1>2, <1>3, <1>4, <1>5, <1>6, <1>7, <1>8 DEF Next, Serve, Settle
<1> QED
  BY <1>9 DEF Rightly

-----------------------------------------------------------------------------
(* Theorems.                                                               *)

\* The variables keep their types, and the row lock of the slot is held exactly
\* by the request that is inside its transaction.
THEOREM TypeCorrect == Spec => []TypeOK
BY InvAlways, PTL DEF ReviewInv

\* One review at a time: start_review and reopen_review never leave two sessions
\* in progress, however the requests, uploads and analyses interleave.
THEOREM OneReview == Spec => []OneActive
<1>1. ReviewInv => OneActive
  BY DEF ReviewInv, Numbered, OneActive, Active
<1> QED
  BY <1>1, InvAlways, PTL

\* complete_review never declares a completion without its edit lock, whatever
\* commits, fails or crashes between the two stores.
THEOREM CompletionLocked == Spec => []CompletionIsLocked
BY InvAlways, PTL DEF ReviewInv

\* A lock in the workflow file belongs to a completed session, or to somebody
\* who is about to act on it, or to a failure or a crash that was recorded.
THEOREM LocksHaveOwners == Spec => []LockHasOwner
BY InvAlways, PTL DEF ReviewInv

\* The issues under an edit lock stay as complete_review judged them, until a
\* new report is written beneath the lock.
THEOREM JudgedIsLocked == Spec => []LockedAsJudged
BY InvAlways, PTL DEF ReviewInv

\* No step opens an edit lock but one that the database, a compensation or a
\* later session justifies (clear_review_lock_if_matches).
THEOREM UnlockedRightly == Spec => UnlockedAfterInvalidation
<1>1. ReviewInv /\ [Next]_vars =>
        [\A v \in Versions : lock[v] # 0 /\ lock'[v] # lock[v] =>
            \/ session[lock[v]].state = "invalidated"
            \/ lock[v] \in undone'
            \/ lock'[v] > lock[v]]_vars
  BY UnlockStep
<1> QED
  BY <1>1, InvAlways, PTL DEF Spec, UnlockedAfterInvalidation
=============================================================================
