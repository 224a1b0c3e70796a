---------------------------- MODULE JobContract ----------------------------
(***************************************************************************)
(* What the analysis service promises the caller of start_analysis, with  *)
(* nothing about processes, files or claims.  A request that was accepted *)
(* makes the job active; the job stays active, queued or running, until   *)
(* its analysis ends; and it never becomes active again by itself: only a *)
(* further accepted request reopens a job that has ended.                 *)
(*                                                                         *)
(* JobQueue implements this contract (see JobQueue!Contract).             *)
(***************************************************************************)
EXTENDS Naturals

CONSTANT Jobs

VARIABLES
    phase,      \* phase[j]: "ended" (or never started), "queued", "running"
    accepted    \* accepted[j]: how many requests have been accepted for j

vars == <<phase, accepted>>

Init ==
    /\ phase = [j \in Jobs |-> "ended"]
    /\ accepted = [j \in Jobs |-> 0]

\* A request is accepted only for a job that is not being analysed.
Accept(j) ==
    /\ phase[j] = "ended"
    /\ phase' = [phase EXCEPT ![j] = "queued"]
    /\ accepted' = [accepted EXCEPT ![j] = @ + 1]

\* A worker takes the job.
Begin(j) ==
    /\ phase[j] = "queued"
    /\ phase' = [phase EXCEPT ![j] = "running"]
    /\ UNCHANGED accepted

\* The job goes back to the queue: OCR yielded, or a restart resumed it.
Requeue(j) ==
    /\ phase[j] = "running"
    /\ phase' = [phase EXCEPT ![j] = "queued"]
    /\ UNCHANGED accepted

\* The analysis ends: a result, an error, a timeout or a cancellation.
End(j) ==
    /\ phase[j] # "ended"
    /\ phase' = [phase EXCEPT ![j] = "ended"]
    /\ UNCHANGED accepted

Next == \E j \in Jobs : Accept(j) \/ Begin(j) \/ Requeue(j) \/ End(j)

SafetySpec == Init /\ [][Next]_vars

\* Every accepted request is served: an active job eventually ends.
Spec == SafetySpec /\ \A j \in Jobs : WF_vars(End(j))
============================================================================
