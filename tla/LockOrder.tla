------------------------------ MODULE LockOrder ------------------------------
(***************************************************************************)
(* The row locks of PostgreSQL that the services of slots, reviews and     *)
(* analysis results take, and in which order.                              *)
(*                                                                         *)
(* A material has an identity (an advisory lock on the key of its slot), a *)
(* slot, a document, the current version of the document, the sessions     *)
(* and decisions of its review and the job that analyses the version.  A   *)
(* client is a connection: it runs one transaction after the other, takes  *)
(* the locks of a transaction one by one and holds them to its end.        *)
(*                                                                         *)
(* The documented order is identity, slot, version, session, decision, job *)
(* (review_session_store.py:31).  The snapshots and projections locked     *)
(* under the row lock of their job, and the rounds and task rows locked    *)
(* under their slot, are left out, as are the key-share locks of foreign   *)
(* keys; the advisory locks of the dispatcher are only tried, never waited *)
(* for.                                                                    *)
(***************************************************************************)
EXTENDS Naturals, Sequences

CONSTANTS
    Clients,     \* connections
    MaterialCount,
    Operations   \* the operations in use, besides those on slots and reviews

ASSUME LockAssumption ==
    /\ MaterialCount \in Nat
    /\ Operations \subseteq {"repair", "rebuild"}

VARIABLES
    script,   \* script[c]: the locks of the transaction of c, <<>> if it has none
    taken     \* taken[c]: how many of them c has got

vars == <<script, taken>>

\* Numbered by the order of their keys.
Materials == 1..MaterialCount

Kinds == {"identity", "slot", "document", "version", "session", "decision", "job"}
Rows == [kind : Kinds, of : Materials]

Row(kind, m) == [kind |-> kind, of |-> m]

-----------------------------------------------------------------------------
(* The transactions, by the locks they take.                               *)

\* allocate_for_document: upsert_from_decision, bind_document_version and
\* refresh_status in one transaction.
Allocate(m) ==
    <<Row("identity", m), Row("slot", m), Row("version", m), Row("session", m)>>

\* register_uploaded_material: the slot, then document and version are made,
\* then the version is bound.
Register(m) ==
    <<Row("identity", m), Row("slot", m), Row("document", m), Row("version", m),
      Row("session", m)>>

\* Mutant of Bind: the version before the slot.
BindVersionFirst(m) == <<Row("version", m), Row("slot", m), Row("session", m)>>

\* bind_document_version; the sessions of other versions are invalidated.
Bind(m) == <<Row("slot", m), Row("version", m), Row("session", m)>>

\* refresh_status, also as the last step of sync_slot_review_state_for_job,
\* and mark_not_applicable.
Refresh(m) == <<Row("slot", m)>>

\* start_review, complete_review, reopen_review: _load_state locks the slot
\* and the active session; the job is only read.
Review(m) == <<Row("slot", m), Row("session", m)>>

\* decide_obligation.
Decide(m) == <<Row("slot", m), Row("session", m), Row("decision", m)>>

\* invalidate_reviews_for_analysis_restart, and confirm_document_scope: slot,
\* sessions, then the job, whose fingerprint is cleared.
Restart(m) == <<Row("slot", m), Row("session", m), Row("job", m)>>

\* verify_round: the generation of the job is read FOR SHARE.
Verify(m) == <<Row("slot", m), Row("job", m)>>

\* persist_analysis_job_snapshot: the job is written, publish_snapshot locks
\* the document, and the metadata of the version are filled in at the end.
Persist(m) == <<Row("job", m), Row("document", m), Row("version", m)>>

\* The import of expected materials, and the publication of a reporting task:
\* the keys of all materials in order, then the slots in the same order.
Import(m, n) ==
    <<Row("identity", m), Row("identity", n), Row("slot", m), Row("slot", n)>>

\* repair_material_identity.
Repair(m) ==
    <<Row("identity", m), Row("slot", m), Row("version", m), Row("session", m),
      Row("job", m), Row("document", m)>>

\* publish_batch with one job.
Publish(m) ==
    <<Row("job", m), Row("version", m), Row("slot", m), Row("document", m)>>

OfMaterial(m) ==
    {Allocate(m), Register(m), Bind(m), Refresh(m), Review(m), Decide(m),
     Restart(m), Verify(m), Persist(m)}
    \cup {t \in {Repair(m)} : "repair" \in Operations}
    \cup {t \in {Publish(m)} : "rebuild" \in Operations}
    \cup {Import(m, n) : n \in {k \in Materials : m < k}}

Transactions == UNION {OfMaterial(m) : m \in Materials}

Transaction(c) == script[c] # <<>>
Held(c) == {script[c][i] : i \in 1..taken[c]}
Asks(c) == taken[c] < Len(script[c])
Wanted(c) == script[c][taken[c] + 1]

\* c cannot go on before d ends.
WaitsFor(c, d) == Asks(c) /\ c # d /\ Wanted(c) \in Held(d)

TypeOK ==
    /\ script \in [Clients -> Transactions \cup {<<>>}]
    /\ taken \in [Clients -> Nat]
    /\ \A c \in Clients : taken[c] <= Len(script[c])
    /\ \A c, d \in Clients : c # d => Held(c) \cap Held(d) = {}

-----------------------------------------------------------------------------
Init ==
    /\ script = [c \in Clients |-> <<>>]
    /\ taken = [c \in Clients |-> 0]

Begin(c) ==
    /\ ~Transaction(c)
    /\ \E t \in Transactions : script' = [script EXCEPT ![c] = t]
    /\ UNCHANGED taken

\* Mutant of Lock: outside a transaction a row lock ends with its statement,
\* so that the row is free for others.
LockForAStatement(c) ==
    /\ Asks(c)
    /\ taken' = [taken EXCEPT ![c] = @ + 1]
    /\ UNCHANGED script

Lock(c) ==
    /\ Asks(c)
    /\ \A d \in Clients : ~WaitsFor(c, d)
    /\ taken' = [taken EXCEPT ![c] = @ + 1]
    /\ UNCHANGED script

\* Commit, or rollback after an error (transaction_scope); all locks go.
End(c) ==
    /\ Transaction(c)
    /\ script' = [script EXCEPT ![c] = <<>>]
    /\ taken' = [taken EXCEPT ![c] = 0]

Next == \E c \in Clients : Begin(c) \/ Lock(c) \/ End(c)

Spec == Init /\ [][Next]_vars

-----------------------------------------------------------------------------
(* Properties.                                                             *)

\* No deadlock: there are no transactions each of which can only go on when
\* another of them ends, although persist_analysis_job_snapshot locks the job
\* before the version.
NoDeadlock ==
    \A S \in SUBSET Clients :
        S # {} => \E c \in S : \A d \in S : ~WaitsFor(c, d)
=============================================================================
