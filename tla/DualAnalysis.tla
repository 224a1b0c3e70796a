---------------------------- MODULE DualAnalysis ----------------------------
(***************************************************************************)
(* The checks of one analysis (analyze_dual), many of which run in one     *)
(* event loop.                                                             *)
(*                                                                         *)
(* The local rules run in a child process that a thread of the pool        *)
(* watches; a task of the loop waits for the thread.  The audit by a model *)
(* is another task: it draws a ticket, and only the first in line audits.  *)
(* The analysis waits for the rules, then for the audit, and merges what   *)
(* they have found.  It may be cancelled wherever it waits.                *)
(*                                                                         *)
(* What is found and how it is merged are left out, and so are the         *)
(* snapshots for the front end.  Only one process analyses a job.          *)
(***************************************************************************)
EXTENDS Naturals, FiniteSets, SequencesExt

CONSTANTS
    Jobs,
    Nobody,
    Asked,       \* the sets of checks that analyses are asked for
    Threads      \* threads of the executor of the loop

ASSUME AnalysisAssumption ==
    /\ IsFiniteSet(Jobs) /\ Nobody \notin Jobs
    /\ Asked \subseteq SUBSET {"local", "ai"} \ {{}}
    /\ Threads \in Nat \ {0}

VARIABLES
    wants,       \* the checks that are asked for
    main,        \* where the analysis is
    result,
    rule,        \* the task that waits for the rules
    call,        \* the thread and its child process, and whether it has an answer
    ai,          \* the task of the audit, and how it has ended
    queue,       \* _ai_wait_queue
    auditor,     \* who holds _ai_runner_lock
    progress     \* check_progress.json

vars == <<wants, main, result, rule, call, ai, queue, auditor, progress>>

AiOver == {"none", "succeeded", "failed", "cancelled"}
RuleOver == {"none", "done", "failed", "cancelled"}

\* The thread is at work, and its child process may be alive.
Busy == {"running", "reaping"}

\* A track that ends "degraded" is counted as failed.
Terminal == {"completed", "failed", "skipped", "cancelled"}
TrackStates == Terminal \cup {"waiting", "queued", "running"}

Idle == {"idle", "ended"}

Tracks == [local : TrackStates, ai : TrackStates]

\* The analyses that a thread is at work for.
AtWork == {j \in Jobs : call[j].at \in Busy}

Typed ==
    /\ wants \in [Jobs -> SUBSET {"local", "ai"}]
    /\ main \in [Jobs -> Idle \cup {"rules", "late", "audit", "locate", "failing",
                                    "fallback", "rules_off", "audit_off", "unwind"}]
    /\ result \in [Jobs -> {"none", "merged", "partial", "failed", "cancelled"}]
    /\ rule \in [Jobs -> RuleOver \cup {"new", "running", "cancelling"}]
    /\ call \in [Jobs -> [at : Busy \cup {"none", "queued"}, ok : BOOLEAN]]
    /\ ai \in [Jobs -> AiOver \cup {"new", "waiting", "audit", "stopping"}]
    /\ queue \in Seq(Jobs)
    /\ auditor \in Jobs \cup {Nobody}
    /\ progress \in [Jobs -> Tracks]

\* The executor has no more threads at work than it has.
TypeOK == Typed /\ Cardinality(AtWork) <= Threads

Init ==
    /\ wants = [j \in Jobs |-> {}]
    /\ main = [j \in Jobs |-> "idle"]
    /\ result = [j \in Jobs |-> "none"]
    /\ rule = [j \in Jobs |-> "none"]
    /\ call = [j \in Jobs |-> [at |-> "none", ok |-> FALSE]]
    /\ ai = [j \in Jobs |-> "none"]
    /\ queue = <<>>
    /\ auditor = Nobody
    /\ progress = [j \in Jobs |-> [local |-> "skipped", ai |-> "skipped"]]

-----------------------------------------------------------------------------
(* The progress of the two tracks.                                         *)

\* update_progress: a track that has ended keeps its state.
Told(p, track, state) ==
    IF p[track] \in Terminal THEN p ELSE [p EXCEPT ![track] = state]

\* finish_incomplete.
Finished(p, state) == Told(Told(p, "local", state), "ai", state)

Tell(j, p) == progress' = [progress EXCEPT ![j] = p]

\* initialize_progress.
Fresh(w) ==
    [local |-> IF "local" \in w THEN "waiting" ELSE "skipped",
     ai |-> IF "ai" \in w THEN "waiting" ELSE "skipped"]

-----------------------------------------------------------------------------
(* Cancellation of the two tasks: one that has not begun never does.       *)

\* Mutant of RuleCancelled: the task does not wait for its thread.
RuleAbandoned(j) == IF rule[j] \in {"new", "running"} THEN "cancelled" ELSE rule[j]

RuleCancelled(j) ==
    CASE rule[j] = "new" -> "cancelled"
      [] rule[j] = "running" -> "cancelling"
      [] OTHER -> rule[j]

AiCancelled(j) ==
    CASE ai[j] = "new" -> "cancelled"
      [] ai[j] \in {"waiting", "audit"} -> "stopping"
      [] OTHER -> ai[j]

CancelRule(j) == rule' = [rule EXCEPT ![j] = RuleCancelled(j)]
CancelAi(j) == ai' = [ai EXCEPT ![j] = AiCancelled(j)]

-----------------------------------------------------------------------------
(* The local rules.                                                        *)

\* run_engine_rules_in_process hands the rules to a thread.
RunRules(j) ==
    /\ rule[j] = "new"
    /\ rule' = [rule EXCEPT ![j] = "running"]
    /\ call' = [call EXCEPT ![j] = [at |-> "queued", ok |-> FALSE]]
    /\ UNCHANGED <<wants, main, result, ai, queue, auditor, progress>>

CallAt(j, from, to, ok) ==
    /\ call[j].at \in from
    /\ call' = [call EXCEPT ![j] = [at |-> to, ok |-> ok]]
    /\ UNCHANGED <<wants, main, result, rule, ai, queue, auditor, progress>>

\* Mutant of StartChild: a thread of its own for each.
StartChildAtOnce(j) == CallAt(j, {"queued"}, "running", FALSE)

\* A thread is free; it starts the child before it looks at the cancellation.
StartChild(j) ==
    /\ Cardinality(AtWork) < Threads
    /\ CallAt(j, {"queued"}, "running", FALSE)

\* The child counts the rules it has done.
ChildReports(j) ==
    /\ call[j].at = "running"
    /\ progress[j].local \notin Terminal \cup {"running"}
    /\ Tell(j, Told(progress[j], "local", "running"))
    /\ UNCHANGED <<wants, main, result, rule, call, ai, queue, auditor>>

\* The three ways out of the loop of the thread: the child has answered or has
\* died, the analysis is cancelled, or the time is over.
Receive(j) == \E ok \in BOOLEAN : CallAt(j, {"running"}, "reaping", ok)

SeeCancel(j) == rule[j] = "cancelling" /\ CallAt(j, {"running"}, "reaping", FALSE)

Deadline(j) == CallAt(j, {"running"}, "reaping", FALSE)

\* The child is terminated, or killed, and waited for; the thread returns to the
\* task, which drops the answer if it is cancelled.
Reap(j) ==
    /\ call[j].at = "reaping"
    /\ LET ok == rule[j] = "running" /\ call[j].ok IN
        /\ call' = [call EXCEPT ![j] = [at |-> "none", ok |-> ok]]
        /\ rule' = [rule EXCEPT ![j] =
                       IF ok THEN "done"
                       ELSE IF @ = "cancelling" THEN "cancelled" ELSE "failed"]
    /\ UNCHANGED <<wants, main, result, ai, queue, auditor, progress>>

-----------------------------------------------------------------------------
(* The audit.                                                              *)

NoAiRules(j) ==
    /\ ai[j] = "new"
    /\ ai' = [ai EXCEPT ![j] = "failed"]
    /\ Tell(j, Told(progress[j], "ai", "failed"))
    /\ UNCHANGED <<wants, main, result, rule, call, queue, auditor>>

EnqueueTicket(j) ==
    /\ ai[j] = "new"
    /\ ai' = [ai EXCEPT ![j] = "waiting"]
    /\ queue' = Append(queue, j)
    /\ Tell(j, Told(progress[j], "ai", "queued"))
    /\ UNCHANGED <<wants, main, result, rule, call, auditor>>

\* Mutant of TakeTurn: whoever gets the lock.
TakeTurnUnordered(j) ==
    /\ ai[j] = "waiting" /\ auditor = Nobody
    /\ ai' = [ai EXCEPT ![j] = "audit"]
    /\ auditor' = j
    /\ Tell(j, Told(progress[j], "ai", "running"))
    /\ UNCHANGED <<wants, main, result, rule, call, queue>>

\* Mutant of TakeTurn: the last in line.
TakeTurnNewest(j) ==
    /\ ai[j] = "waiting" /\ queue[Len(queue)] = j /\ auditor = Nobody
    /\ ai' = [ai EXCEPT ![j] = "audit"]
    /\ auditor' = j
    /\ Tell(j, Told(progress[j], "ai", "running"))
    /\ UNCHANGED <<wants, main, result, rule, call, queue>>

\* _wait_for_ai_turn, and then the lock of the runner.
TakeTurn(j) ==
    /\ ai[j] = "waiting" /\ Head(queue) = j /\ auditor = Nobody
    /\ ai' = [ai EXCEPT ![j] = "audit"]
    /\ auditor' = j
    /\ Tell(j, Told(progress[j], "ai", "running"))
    /\ UNCHANGED <<wants, main, result, rule, call, queue>>

\* The lock is released and the ticket given back, however the task ends.
Leave(j) ==
    /\ auditor' = IF auditor = j THEN Nobody ELSE auditor
    /\ queue' = RemoveFirst(queue, j)

\* The state of the audit is that of the calls it has on record.
AuditEnds(j) ==
    /\ ai[j] = "audit"
    /\ \E v \in {"succeeded", "failed"} : ai' = [ai EXCEPT ![j] = v]
    /\ Leave(j)
    /\ UNCHANGED <<wants, main, result, rule, call, progress>>

\* An exception, or the time limit of the audit, which does not count the time
\* in the queue.
AuditFails(j) ==
    /\ ai[j] = "audit"
    /\ ai' = [ai EXCEPT ![j] = "failed"]
    /\ Leave(j)
    /\ Tell(j, Told(progress[j], "ai", "failed"))
    /\ UNCHANGED <<wants, main, result, rule, call>>

AiStops(j) ==
    /\ ai[j] = "stopping"
    /\ ai' = [ai EXCEPT ![j] = "cancelled"]
    /\ Leave(j)
    /\ UNCHANGED <<wants, main, result, rule, call, progress>>

-----------------------------------------------------------------------------
(* The analysis.                                                           *)

Goto(j, m) == main' = [main EXCEPT ![j] = m]
Result(j, r) == result' = [result EXCEPT ![j] = r]

\* analyze: a new run, with its two tasks.
Begin(j) ==
    /\ main[j] \in Idle
    /\ \E w \in Asked :
        /\ wants' = [wants EXCEPT ![j] = w]
        /\ Goto(j, IF "local" \in w THEN "rules" ELSE "audit")
        /\ rule' = [rule EXCEPT ![j] = IF "local" \in w THEN "new" ELSE "none"]
        /\ ai' = [ai EXCEPT ![j] = IF "ai" \in w THEN "new" ELSE "none"]
        /\ Tell(j, Fresh(w))
    /\ call' = [call EXCEPT ![j] = [at |-> "none", ok |-> FALSE]]
    /\ Result(j, "none")
    /\ UNCHANGED <<queue, auditor>>

\* The rules cannot be loaded, or there is none for the engine.
BeginFails(j) ==
    /\ main[j] \in Idle
    /\ \E w \in Asked :
        /\ wants' = [wants EXCEPT ![j] = w]
        /\ \/ /\ Goto(j, "fallback")
              /\ rule' = [rule EXCEPT ![j] = IF "local" \in w THEN "new" ELSE "none"]
              /\ ai' = [ai EXCEPT ![j] = "none"]
              /\ Tell(j, Finished(Fresh(w), "failed"))
           \/ /\ "local" \in w
              /\ Goto(j, "failing")
              /\ rule' = [rule EXCEPT ![j] = "none"]
              /\ ai' = [ai EXCEPT ![j] = IF "ai" \in w THEN "cancelled" ELSE "none"]
              /\ Tell(j, Told(Fresh(w), "local", "failed"))
    /\ call' = [call EXCEPT ![j] = [at |-> "none", ok |-> FALSE]]
    /\ Result(j, "none")
    /\ UNCHANGED <<queue, auditor>>

\* The rules are done.
RulesEnd(j) ==
    /\ main[j] = "rules" /\ rule[j] = "done"
    /\ Goto(j, IF "ai" \in wants[j] THEN "audit" ELSE "locate")
    /\ Tell(j, Told(progress[j], "local", "completed"))
    /\ UNCHANGED <<wants, result, rule, call, ai, queue, auditor>>

\* wait_for gives up, and waits for the task it has cancelled.
RulesLate(j) ==
    /\ main[j] = "rules" /\ rule[j] \notin RuleOver
    /\ Goto(j, "late")
    /\ CancelRule(j)
    /\ UNCHANGED <<wants, result, call, ai, queue, auditor, progress>>

\* Mutant of RulesFail: the audit goes on without the rules.
RulesFailSoftly(j) ==
    /\ main[j] \in {"rules", "late"} /\ rule[j] \in {"failed", "cancelled"}
    /\ Goto(j, IF "ai" \in wants[j] THEN "audit" ELSE "locate")
    /\ Tell(j, Told(progress[j], "local", "failed"))
    /\ UNCHANGED <<wants, result, rule, call, ai, queue, auditor>>

\* The rules have failed or are late: so has the analysis, and the audit is
\* cancelled.
RulesFail(j) ==
    /\ main[j] \in {"rules", "late"} /\ rule[j] \in {"failed", "cancelled"}
    /\ Goto(j, "failing")
    /\ CancelAi(j)
    /\ Tell(j, Told(progress[j], "local", "failed"))
    /\ UNCHANGED <<wants, result, rule, call, queue, auditor>>

Failed(j) ==
    /\ main[j] = "failing" /\ ai[j] \in AiOver
    /\ Goto(j, "unwind")
    /\ Result(j, "failed")
    /\ Tell(j, Finished(progress[j], "failed"))
    /\ UNCHANGED <<wants, rule, call, ai, queue, auditor>>

AuditOver(j) ==
    /\ main[j] = "audit" /\ ai[j] \in AiOver
    /\ Goto(j, "locate")
    /\ UNCHANGED <<wants, result, rule, call, ai, queue, auditor, progress>>

\* The track of the audit is told its end after the evidence is located.
AuditTold(j) ==
    Told(progress[j], "ai", IF ai[j] = "succeeded" THEN "completed" ELSE "failed")

Merge(j) ==
    /\ main[j] = "locate"
    /\ Goto(j, "unwind")
    /\ Result(j, "merged")
    /\ Tell(j, AuditTold(j))
    /\ UNCHANGED <<wants, rule, call, ai, queue, auditor>>

\* Locating or merging raises: what the rules have found is kept, and if that
\* is nothing they run again.
MergeFails(j) ==
    /\ main[j] = "locate"
    /\ \E p \in {progress[j], AuditTold(j)} : Tell(j, Finished(p, "failed"))
    /\ \/ /\ rule[j] = "done"
          /\ Goto(j, "unwind")
          /\ Result(j, "partial")
          /\ UNCHANGED <<rule, call>>
       \/ /\ Goto(j, "fallback")
          /\ rule' = [rule EXCEPT ![j] = IF "local" \in wants[j] THEN "new" ELSE "none"]
          /\ call' = [call EXCEPT ![j] = [at |-> "none", ok |-> FALSE]]
          /\ UNCHANGED result
    /\ UNCHANGED <<wants, ai, queue, auditor>>

\* The end of the fallback; its rules may not have loaded.
FallbackEnds(j) ==
    /\ main[j] = "fallback"
    /\ \/ /\ rule[j] \in {"none", "done"}
          /\ Result(j, "partial")
       \/ /\ rule[j] \in {"none", "failed"}
          /\ Result(j, "failed")
    /\ Goto(j, "unwind")
    /\ UNCHANGED <<wants, rule, call, ai, queue, auditor, progress>>

FallbackUnloaded(j) ==
    /\ main[j] = "fallback" /\ rule[j] = "new"
    /\ rule' = [rule EXCEPT ![j] = "none"]
    /\ Goto(j, "unwind")
    /\ Result(j, "failed")
    /\ UNCHANGED <<wants, call, ai, queue, auditor, progress>>

\* The pipeline cancels the analysis: at its time limit, for the user, or when
\* the worker stops.  What it waits for is cancelled with it.
Cancel(j) ==
    /\ \/ /\ main[j] \in {"rules", "late", "fallback"}
          /\ CancelRule(j)
          /\ Goto(j, "rules_off")
          /\ UNCHANGED ai
       \/ /\ main[j] \in {"audit", "failing"}
          /\ CancelAi(j)
          /\ Goto(j, "audit_off")
          /\ UNCHANGED rule
       \/ /\ main[j] = "locate"
          /\ Goto(j, "audit_off")
          /\ UNCHANGED <<rule, ai>>
    /\ UNCHANGED <<wants, result, call, queue, auditor, progress>>

\* Mutant of Cancelled: the tracks are not told.
CancelledSilently(j) ==
    /\ \/ main[j] = "rules_off" /\ rule[j] \in RuleOver
       \/ main[j] = "audit_off" /\ ai[j] \in AiOver
    /\ Goto(j, "unwind")
    /\ Result(j, "cancelled")
    /\ CancelAi(j)
    /\ UNCHANGED <<wants, rule, call, queue, auditor, progress>>

\* The cancellation comes through; the other task is cancelled too.
Cancelled(j) ==
    /\ \/ main[j] = "rules_off" /\ rule[j] \in RuleOver
       \/ main[j] = "audit_off" /\ ai[j] \in AiOver
    /\ Goto(j, "unwind")
    /\ Result(j, "cancelled")
    /\ CancelAi(j)
    /\ Tell(j, Finished(progress[j], "cancelled"))
    /\ UNCHANGED <<wants, rule, call, queue, auditor>>

\* The analysis returns or raises when its tasks have ended.
End(j) ==
    /\ main[j] = "unwind"
    /\ rule[j] \in RuleOver /\ ai[j] \in AiOver
    /\ Goto(j, "ended")
    /\ UNCHANGED <<wants, result, rule, call, ai, queue, auditor, progress>>

-----------------------------------------------------------------------------
Rules(j) ==
    RunRules(j) \/ SeeCancel(j) \/ Receive(j) \/ Deadline(j) \/ Reap(j)

Audit(j) ==
    \/ NoAiRules(j) \/ EnqueueTicket(j) \/ TakeTurn(j)
    \/ AuditEnds(j) \/ AuditFails(j) \/ AiStops(j)

Main(j) ==
    \/ RulesEnd(j) \/ RulesLate(j) \/ RulesFail(j) \/ Failed(j)
    \/ AuditOver(j) \/ Merge(j) \/ MergeFails(j)
    \/ FallbackEnds(j) \/ FallbackUnloaded(j) \/ Cancelled(j) \/ End(j)

Next ==
    \E j \in Jobs :
        \/ Begin(j) \/ BeginFails(j) \/ Cancel(j)
        \/ StartChild(j) \/ ChildReports(j) \/ Rules(j) \/ Audit(j) \/ Main(j)

Spec == Init /\ [][Next]_vars

\* The loop runs what is ready, a thread looks at its clock, and every wait on
\* a model has a time limit; the executor serves in order.  A child need not
\* ever answer.
Fairness ==
    \A j \in Jobs :
        /\ WF_vars(Rules(j) \/ Audit(j) \/ Main(j))
        /\ SF_vars(StartChild(j))

FairSpec == Spec /\ Fairness

-----------------------------------------------------------------------------
(* Properties.                                                             *)

\* AI_SEQUENTIAL_MODE: whoever is cancelled or fails while others wait, one
\* audit runs at a time, and it is that of the first in line.
AuditInTurn == \A j \in Jobs : ai[j] = "audit" => auditor = j /\ Head(queue) = j

\* An analysis that has returned, failed or been cancelled leaves nothing
\* behind: no child process, no task, no lock, no ticket.
NothingOutlives ==
    \A j \in Jobs : main[j] \in Idle =>
        /\ call[j].at \notin Busy
        /\ rule[j] \in RuleOver /\ ai[j] \in AiOver
        /\ auditor # j
        /\ \A i \in DOMAIN queue : queue[i] # j

\* The tracks tell the truth: one of an analysis that has ended has ended, and
\* an audit that is shown as completed has succeeded.
TracksTellTruth ==
    \A j \in Jobs :
        /\ main[j] = "ended" => progress[j].local \in Terminal /\ progress[j].ai \in Terminal
        /\ progress[j].ai = "completed" => ai[j] = "succeeded"

\* A failure of the local rules is not hidden: an analysis that was asked for
\* them has no result without an answer of theirs.
NoMaskedFailure ==
    \A j \in Jobs :
        "local" \in wants[j] /\ result[j] \in {"merged", "partial"} => call[j].ok

\* Whatever hangs or is cancelled, every analysis ends; in particular nobody
\* waits for a turn forever.
EveryoneEnds == \A j \in Jobs : main[j] \notin Idle ~> main[j] = "ended"
=============================================================================
