----------------------------- MODULE ScopeGate -----------------------------
(***************************************************************************)
(* What the confirmation of a scope promises, with nothing about outboxes, *)
(* dispatchers, files or locks.  A reviewer decides on a job only while    *)
(* its analysis counts as complete, and that ends it; only an analysis     *)
(* with the latest decision completes it again.  So decisions take effect  *)
(* one after the other, and none is passed over.                           *)
(*                                                                         *)
(* ScopeOutbox implements this gate (see ScopeOutbox!Gate).                *)
(***************************************************************************)
EXTENDS Naturals

CONSTANT Jobs

VARIABLES
    latest,     \* latest[j]: how many decisions have been made on j
    complete,   \* complete[j]: does its analysis count
    basis,      \* basis[j]: the decision the last complete analysis was made with
    effective   \* effective[j]: the decisions a complete analysis was made with

vars == <<latest, complete, basis, effective>>

Init ==
    /\ latest = [j \in Jobs |-> 0]
    /\ complete = [j \in Jobs |-> TRUE]
    /\ basis = [j \in Jobs |-> 0]
    /\ effective = [j \in Jobs |-> {}]

Decide(j) ==
    /\ complete[j]
    /\ latest' = [latest EXCEPT ![j] = @ + 1]
    /\ complete' = [complete EXCEPT ![j] = FALSE]
    /\ UNCHANGED <<basis, effective>>

\* Another analysis, or the failure of one.
Reopen(j) ==
    /\ complete' = [complete EXCEPT ![j] = FALSE]
    /\ UNCHANGED <<latest, basis, effective>>

Complete(j) ==
    /\ ~complete[j]
    /\ complete' = [complete EXCEPT ![j] = TRUE]
    /\ basis' = [basis EXCEPT ![j] = latest[j]]
    /\ effective' = [effective EXCEPT ![j] = @ \cup ({latest[j]} \ {0})]
    /\ UNCHANGED latest

Next == \E j \in Jobs : Decide(j) \/ Reopen(j) \/ Complete(j)

Spec == Init /\ [][Next]_vars
=============================================================================
