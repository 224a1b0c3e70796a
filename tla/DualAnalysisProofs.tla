------------------------- MODULE DualAnalysisProofs -------------------------
(***************************************************************************)
(* Proofs about DualAnalysis: its five invariants, for any jobs, any       *)
(* number of threads and any checks that are asked for.                    *)
(*                                                                         *)
(* An action belongs to one analysis and leaves the state of the others    *)
(* alone; what they share is the line of the tickets with its lock, and    *)
(* the threads.  The inductive invariant is therefore an invariant of the  *)
(* line and one of each analysis.                                          *)
(***************************************************************************)
EXTENDS DualAnalysis, FiniteSetTheorems, SequenceTheorems, TLAPS

\* The tasks of the audit that hold a ticket.
InLine == {"waiting", "audit", "stopping"}

\* The tickets are those of the tasks in line, one for each, and the lock is
\* with the first of them.
LineInv ==
    /\ \A a, b \in DOMAIN queue : queue[a] = queue[b] => a = b
    /\ \A j \in Jobs : ai[j] \in InLine <=> \E a \in DOMAIN queue : queue[a] = j
    /\ auditor \in Jobs =>
          queue # <<>> /\ Head(queue) = auditor /\ ai[auditor] \in {"audit", "stopping"}
    /\ \A j \in Jobs : ai[j] = "audit" => auditor = j

\* A thread is at work only while the task waits for it, and the rules are
\* done only with an answer.
CallInv(j) ==
    /\ call[j].at # "none" => rule[j] \in {"running", "cancelling"}
    /\ rule[j] = "done" => call[j].ok

\* What has ended by the time the analysis gets to where it is.
MainInv(j) ==
    /\ main[j] \in Idle => rule[j] \in RuleOver /\ ai[j] \in AiOver
    /\ main[j] \in {"audit", "locate"} =>
          progress[j].local \in Terminal /\ ("local" \in wants[j] => rule[j] = "done")
    /\ main[j] = "fallback" /\ "local" \in wants[j] => rule[j] # "none"
    /\ main[j] \in {"fallback", "unwind", "ended"} =>
          progress[j].local \in Terminal /\ progress[j].ai \in Terminal

\* A result is there from the end on, and rests on the rules if they were
\* asked for.
ResultInv(j) ==
    /\ main[j] \notin {"unwind"} \cup Idle => result[j] = "none"
    /\ result[j] \in {"merged", "partial"} /\ "local" \in wants[j] => rule[j] = "done"

AnalysisInv(j) ==
    /\ CallInv(j)
    /\ MainInv(j)
    /\ ResultInv(j)
    /\ progress[j].ai = "completed" => ai[j] = "succeeded"

Inv == TypeOK /\ LineInv /\ \A j \in Jobs : AnalysisInv(j)
-----------------------------------------------------------------------------
(* Sequences.                                                              *)

\* list.remove takes out the place where the ticket is, if there is but one.
LEMMA RemoveFirstIs ==
  ASSUME NEW q \in Seq(Jobs), NEW j, NEW i \in 1..Len(q), q[i] = j, \A a, b \in 1..Len(q) : q[a] = q[b] => a = b
  PROVE  RemoveFirst(q, j) = RemoveAt(q, i)
<1>1. {k \in 1..Len(q) : q[k] = j} = {i}
  OBVIOUS
<1>2. Min({i}) = i
  BY DEF Min
<1>3. SelectInSeq(q, LAMBDA v : v = j) = i
  BY <1>1, <1>2 DEF SelectInSeq
<1> QED BY <1>3 DEF RemoveFirst

\* What is left when one place is taken out of a sequence.
LEMMA RemoveAtIs ==
  ASSUME NEW q \in Seq(Jobs), NEW i \in 1..Len(q)
  PROVE  /\ RemoveAt(q, i) \in Seq(Jobs)
         /\ Len(RemoveAt(q, i)) = Len(q) - 1
         /\ \A k \in 1..Len(q) - 1 : RemoveAt(q, i)[k] = q[IF k < i THEN k ELSE k + 1]
<1> DEFINE u == SubSeq(q, 1, i - 1)  v == SubSeq(q, i + 1, Len(q))
<1>0. Len(q) \in Nat /\ i \in Int
  OBVIOUS
<1>1. u \in Seq(Jobs) /\ Len(u) = i - 1 /\ \A k \in 1..i - 1 : u[k] = q[k]
  <2>1. \A k \in 1..i - 1 : q[k] \in Jobs
    OBVIOUS
  <2> QED BY <1>0, <2>1, SubSeqProperties
<1>2. v \in Seq(Jobs) /\ Len(v) = Len(q) - i /\ \A k \in 1..Len(q) - i : v[k] = q[i + k]
  <2>1. \A k \in i + 1..Len(q) : q[k] \in Jobs
    OBVIOUS
  <2> QED BY <1>0, <2>1, SubSeqProperties
<1> HIDE DEF u, v
<1>3. /\ u \o v \in Seq(Jobs) /\ Len(u \o v) = Len(q) - 1
      /\ \A k \in 1..Len(q) - 1 : (u \o v)[k] = IF k <= i - 1 THEN u[k] ELSE v[k - (i - 1)]
  <2>1. Len(u) + Len(v) = Len(q) - 1
    BY <1>0, <1>1, <1>2
  <2>2. \A S : \A a, b \in Seq(S) : /\ a \o b \in Seq(S) /\ Len(a \o b) = Len(a) + Len(b)
          /\ \A k \in 1..Len(a) + Len(b) : (a \o b)[k] = IF k <= Len(a) THEN a[k] ELSE b[k - Len(a)]
    BY ConcatProperties, Zenon
  <2>3. /\ u \o v \in Seq(Jobs) /\ Len(u \o v) = Len(u) + Len(v)
        /\ \A k \in 1..Len(u) + Len(v) : (u \o v)[k] = IF k <= Len(u) THEN u[k] ELSE v[k - Len(u)]
    BY <1>1, <1>2, <2>2, Zenon
  <2> QED BY <1>1, <2>1, <2>3
<1>4. RemoveAt(q, i) = u \o v
  BY DEF RemoveAt, u, v
<1>5. \A k \in 1..Len(q) - 1 : (u \o v)[k] = q[IF k < i THEN k ELSE k + 1]
  BY <1>0, <1>1, <1>2, <1>3
<1> QED BY <1>3, <1>4, <1>5

\* In line q, j comes before k.
Before(q, j, k) == \E a, b \in DOMAIN q : a < b /\ q[a] = j /\ q[b] = k

\* A ticket that is given back: the others stay in line, in their order.
LEMMA RemoveTicket ==
  ASSUME NEW q \in Seq(Jobs), NEW j \in Jobs, NEW i \in DOMAIN q, q[i] = j,
         \A a, b \in DOMAIN q : q[a] = q[b] => a = b
  PROVE  LET r == RemoveFirst(q, j) IN
         /\ r \in Seq(Jobs)
         /\ \A a, b \in DOMAIN r : r[a] = r[b] => a = b
         /\ \A k \in Jobs : (\E a \in DOMAIN r : r[a] = k) <=> k # j /\ \E a \in DOMAIN q : q[a] = k
         /\ q # <<>> /\ Head(q) # j => r # <<>> /\ Head(r) = Head(q)
         /\ \A k, l \in Jobs : Before(r, k, l) => Before(q, k, l)
<1> DEFINE r == RemoveAt(q, i)
<1>0. DOMAIN q = 1..Len(q) /\ Len(q) \in Nat /\ i \in 1..Len(q)
  OBVIOUS
<1>1. RemoveFirst(q, j) = r
  BY <1>0, RemoveFirstIs
<1>2. /\ r \in Seq(Jobs) /\ Len(r) = Len(q) - 1
      /\ \A k \in 1..Len(q) - 1 : r[k] = q[IF k < i THEN k ELSE k + 1]
  BY <1>0, RemoveAtIs
<1> HIDE DEF r
<1>3. DOMAIN r = 1..Len(q) - 1
  BY <1>2
<1>4. ASSUME NEW a \in DOMAIN r, NEW b \in DOMAIN r, r[a] = r[b]
      PROVE  a = b
  <2>1. \A k \in DOMAIN r : (IF k < i THEN k ELSE k + 1) \in DOMAIN q
    BY <1>0, <1>3
  <2>2. (IF a < i THEN a ELSE a + 1) = (IF b < i THEN b ELSE b + 1)
    BY <1>2, <1>3, <1>4, <2>1
  <2> QED BY <1>0, <1>3, <2>2
<1>5. ASSUME NEW k \in Jobs
      PROVE  (\E a \in DOMAIN r : r[a] = k) <=> k # j /\ \E a \in DOMAIN q : q[a] = k
  <2>1. ASSUME NEW a \in DOMAIN r, r[a] = k
        PROVE  k # j /\ \E b \in DOMAIN q : q[b] = k
    <3> DEFINE b == IF a < i THEN a ELSE a + 1
    <3>1. b \in 1..Len(q) /\ b # i /\ q[b] = k
      BY <1>0, <1>2, <1>3, <2>1
    <3> HIDE DEF b
    <3> QED BY <1>0, <3>1
  <2>2. ASSUME k # j, NEW b \in DOMAIN q, q[b] = k
        PROVE  \E a \in DOMAIN r : r[a] = k
    <3>0. b \in 1..Len(q)
      BY <1>0, <2>2
    <3>1. CASE b < i
      <4>1. b \in DOMAIN r /\ r[b] = k
        BY <1>0, <1>2, <1>3, <2>2, <3>0, <3>1
      <4> QED BY <4>1
    <3>2. CASE b > i
      <4>1. b - 1 \in DOMAIN r /\ r[b - 1] = k
        BY <1>0, <1>2, <1>3, <2>2, <3>0, <3>2
      <4> QED BY <4>1
    <3> QED BY <1>0, <2>2, <3>0, <3>1, <3>2
  <2> QED BY <2>1, <2>2
<1>6. ASSUME q # <<>>, Head(q) # j
      PROVE  r # <<>> /\ Head(r) = Head(q)
  <2>1. Head(q) = q[1] /\ i > 1
    BY <1>0, <1>6
  <2>2. Len(r) > 0 /\ r[1] = q[1]
    BY <1>0, <1>2, <2>1
  <2> QED BY <1>2, <2>1, <2>2
<1>7. ASSUME NEW k \in Jobs, NEW l \in Jobs, Before(r, k, l)
      PROVE  Before(q, k, l)
  <2>1. PICK a, b \in DOMAIN r : a < b /\ r[a] = k /\ r[b] = l
    BY <1>7 DEF Before
  <2> DEFINE c == IF a < i THEN a ELSE a + 1
             d == IF b < i THEN b ELSE b + 1
  <2>2. c \in DOMAIN q /\ d \in DOMAIN q /\ c < d
    BY <1>0, <1>3, <2>1
  <2>3. q[c] = k /\ q[d] = l
    BY <1>2, <1>3, <2>1
  <2> HIDE DEF c, d
  <2> QED BY <2>2, <2>3 DEF Before
<1> QED BY <1>1, <1>2, <1>4, <1>5, <1>6, <1>7

-----------------------------------------------------------------------------
(* The tracks.                                                             *)

\* update_progress changes one track, and only one that has not ended.
LEMMA ToldIs ==
  ASSUME NEW p \in Tracks, NEW s \in TrackStates
  PROVE  /\ Told(p, "local", s) \in Tracks /\ Told(p, "ai", s) \in Tracks
         /\ Told(p, "local", s).local = IF p.local \in Terminal THEN p.local ELSE s
         /\ Told(p, "local", s).ai = p.ai
         /\ Told(p, "ai", s).ai = IF p.ai \in Terminal THEN p.ai ELSE s
         /\ Told(p, "ai", s).local = p.local
BY DEF Told, Tracks

\* finish_incomplete ends both tracks, and completes none.
LEMMA FinishedIs ==
  ASSUME NEW p \in Tracks, NEW s \in {"failed", "cancelled"}
  PROVE  /\ Finished(p, s) \in Tracks
         /\ Finished(p, s).local \in Terminal /\ Finished(p, s).ai \in Terminal
         /\ Finished(p, s).ai = "completed" => p.ai = "completed"
<1>1. s \in TrackStates /\ s \in Terminal /\ s # "completed"
  BY DEF TrackStates, Terminal
<1> DEFINE q == Told(p, "local", s)
<1>2. q \in Tracks /\ q.ai = p.ai /\ q.local \in Terminal
  BY <1>1, ToldIs
<1> HIDE DEF q
<1>3. /\ Told(q, "ai", s) \in Tracks /\ Told(q, "ai", s).local = q.local
      /\ Told(q, "ai", s).ai = IF q.ai \in Terminal THEN q.ai ELSE s
  BY <1>1, <1>2, ToldIs
<1> QED BY <1>1, <1>2, <1>3 DEF Finished, q

LEMMA FreshIs ==
  ASSUME NEW w \in SUBSET {"local", "ai"}
  PROVE  /\ Fresh(w) \in Tracks /\ Fresh(w).ai # "completed"
         /\ "local" \notin w => Fresh(w).local \in Terminal
BY DEF Fresh, Tracks, TrackStates, Terminal
-----------------------------------------------------------------------------
(* What a step does to its own analysis, and to the others: nothing.       *)

Others(j) ==
    \A k \in Jobs \ {j} :
        /\ wants'[k] = wants[k] /\ main'[k] = main[k] /\ result'[k] = result[k]
        /\ rule'[k] = rule[k] /\ call'[k] = call[k] /\ ai'[k] = ai[k]
        /\ progress'[k] = progress[k]

\* The child process, its thread and the task that waits for them.
LEMMA RulesLocal ==
  ASSUME Typed, NEW j \in Jobs, AnalysisInv(j),
         StartChild(j) \/ ChildReports(j) \/ Rules(j)
  PROVE  Typed' /\ AnalysisInv(j)' /\ Others(j)
<1> USE DEF AnalysisInv, CallInv, MainInv, ResultInv, Others, Typed
<1>1. CASE RunRules(j)
  BY <1>1 DEF RunRules, RuleOver, Idle
<1>2. ASSUME NEW from, NEW to \in {"running", "reaping"}, NEW ok \in BOOLEAN,
             from \in {{"queued"}, {"running"}}, CallAt(j, from, to, ok)
      PROVE  Typed' /\ AnalysisInv(j)' /\ Others(j)
  BY <1>2 DEF CallAt, Busy
<1>3. CASE StartChild(j) \/ SeeCancel(j) \/ Receive(j) \/ Deadline(j)
  BY <1>2, <1>3 DEF StartChild, SeeCancel, Receive, Deadline
<1>4. CASE ChildReports(j)
  <2>1. /\ Told(progress[j], "local", "running") \in Tracks
        /\ Told(progress[j], "local", "running").local = "running"
        /\ Told(progress[j], "local", "running").ai = progress[j].ai
    BY <1>4, ToldIs DEF ChildReports, TrackStates
  <2> QED BY <1>4, <2>1 DEF ChildReports, Tell
<1>5. CASE Reap(j)
  BY <1>5 DEF Reap, Busy, RuleOver, Idle
<1> QED BY <1>1, <1>3, <1>4, <1>5 DEF Rules

\* A ticket is given back.
LEMMA LeaveIs ==
  ASSUME Typed, LineInv, NEW j \in Jobs, ai[j] \in InLine, Leave(j)
  PROVE  /\ queue' \in Seq(Jobs)
         /\ \A a, b \in DOMAIN queue' : queue'[a] = queue'[b] => a = b
         /\ \A k \in Jobs : (\E a \in DOMAIN queue' : queue'[a] = k) <=>
                               k # j /\ \E a \in DOMAIN queue : queue[a] = k
         /\ queue # <<>> /\ Head(queue) # j => queue' # <<>> /\ Head(queue') = Head(queue)
         /\ \A k, l \in Jobs : Before(queue', k, l) => Before(queue, k, l)
<1>1. PICK i \in DOMAIN queue : queue[i] = j
  BY DEF LineInv
<1>2. queue \in Seq(Jobs) /\ \A a, b \in DOMAIN queue : queue[a] = queue[b] => a = b
  BY DEF Typed, LineInv
<1>3. queue' = RemoveFirst(queue, j)
  BY DEF Leave
<1> QED BY <1>1, <1>2, <1>3, RemoveTicket

\* The task of the audit.
LEMMA AuditLocal ==
  ASSUME Typed, NEW j \in Jobs, AnalysisInv(j), LineInv, Audit(j)
  PROVE  Typed' /\ AnalysisInv(j)' /\ Others(j)
<1> USE DEF AnalysisInv, CallInv, MainInv, ResultInv, Others, InLine, AiOver, Idle
<1>0. progress[j] \in Tracks /\ progress \in [Jobs -> Tracks] /\ queue \in Seq(Jobs)
  BY DEF Typed
<1>1. ASSUME NEW s \in TrackStates \ {"completed"}, Tell(j, Told(progress[j], "ai", s))
      PROVE  /\ progress' \in [Jobs -> Tracks]
             /\ progress'[j].local = progress[j].local
             /\ progress'[j].ai = progress[j].ai \/ progress[j].ai \notin Terminal
             /\ progress'[j].ai # "completed" \/ progress'[j].ai = progress[j].ai
             /\ progress[j].ai \in Terminal => progress'[j].ai \in Terminal
             /\ \A k \in Jobs \ {j} : progress'[k] = progress[k]
  BY <1>0, <1>1, ToldIs DEF Tell
<1>2. "failed" \in TrackStates \ {"completed"} /\ "queued" \in TrackStates \ {"completed"}
      /\ "running" \in TrackStates \ {"completed"}
  BY DEF TrackStates, Terminal
<1>3. CASE NoAiRules(j)
  BY <1>1, <1>2, <1>3 DEF NoAiRules, Typed
<1>4. CASE EnqueueTicket(j)
  <2>1. queue' \in Seq(Jobs)
    BY <1>0, <1>4 DEF EnqueueTicket
  <2> QED BY <1>1, <1>2, <1>4, <2>1 DEF EnqueueTicket, Typed
<1>5. CASE TakeTurn(j)
  BY <1>1, <1>2, <1>5 DEF TakeTurn, Typed
<1>6. ASSUME ai[j] \in InLine, Leave(j)
      PROVE  queue' \in Seq(Jobs) /\ auditor' \in Jobs \cup {Nobody}
  BY <1>6, LeaveIs DEF Leave, Typed
<1>7. CASE AuditEnds(j)
  BY <1>6, <1>7 DEF AuditEnds, Typed
<1>8. CASE AuditFails(j)
  BY <1>1, <1>2, <1>6, <1>8 DEF AuditFails, Typed
<1>9. CASE AiStops(j)
  BY <1>6, <1>9 DEF AiStops, Typed
<1> QED BY <1>3, <1>4, <1>5, <1>7, <1>8, <1>9 DEF Audit

\* Cancellation changes only a task that is not over.
LEMMA CancelledIs ==
  ASSUME Typed, NEW j \in Jobs
  PROVE  /\ RuleCancelled(j) \in RuleOver \cup {"new", "running", "cancelling"}
         /\ AiCancelled(j) \in AiOver \cup {"new", "waiting", "audit", "stopping"}
         /\ rule[j] \in {"running", "cancelling"} => RuleCancelled(j) = "cancelling"
         /\ RuleCancelled(j) = "done" <=> rule[j] = "done"
         /\ RuleCancelled(j) = "none" <=> rule[j] = "none"
         /\ rule[j] \in RuleOver => RuleCancelled(j) = rule[j]
         /\ ai[j] \in AiOver => AiCancelled(j) = ai[j]
         /\ AiCancelled(j) = ai[j] \/ (ai[j] = "new" /\ AiCancelled(j) = "cancelled")
               \/ (ai[j] \in {"waiting", "audit"} /\ AiCancelled(j) = "stopping")
BY DEF RuleCancelled, AiCancelled, Typed, RuleOver, AiOver

\* The analysis begins.
LEMMA BeginLocal ==
  ASSUME Typed, NEW j \in Jobs, AnalysisInv(j), Begin(j) \/ BeginFails(j)
  PROVE  Typed' /\ AnalysisInv(j)' /\ Others(j)
<1> USE DEF AnalysisInv, CallInv, MainInv, ResultInv, Others, Typed, Idle, Goto, Result, Tell
<1>1. Asked \subseteq SUBSET {"local", "ai"}
  BY AnalysisAssumption
<1>2. CASE Begin(j)
  <2>1. PICK w \in Asked :
            /\ wants' = [wants EXCEPT ![j] = w]
            /\ Goto(j, IF "local" \in w THEN "rules" ELSE "audit")
            /\ rule' = [rule EXCEPT ![j] = IF "local" \in w THEN "new" ELSE "none"]
            /\ ai' = [ai EXCEPT ![j] = IF "ai" \in w THEN "new" ELSE "none"]
            /\ Tell(j, Fresh(w))
    BY <1>2 DEF Begin
  <2>2. /\ Fresh(w) \in Tracks /\ Fresh(w).ai # "completed"
        /\ "local" \notin w => Fresh(w).local \in Terminal
    BY <1>1, FreshIs
  <2> QED BY <1>1, <1>2, <2>1, <2>2 DEF Begin, RuleOver, AiOver
<1>3. CASE BeginFails(j)
  <2> DEFINE Unloaded(w) ==
               /\ Goto(j, "fallback")
               /\ rule' = [rule EXCEPT ![j] = IF "local" \in w THEN "new" ELSE "none"]
               /\ ai' = [ai EXCEPT ![j] = "none"]
               /\ Tell(j, Finished(Fresh(w), "failed"))
             Ruleless(w) ==
               /\ "local" \in w
               /\ Goto(j, "failing")
               /\ rule' = [rule EXCEPT ![j] = "none"]
               /\ ai' = [ai EXCEPT ![j] = IF "ai" \in w THEN "cancelled" ELSE "none"]
               /\ Tell(j, Told(Fresh(w), "local", "failed"))
  <2>1. PICK w \in Asked : wants' = [wants EXCEPT ![j] = w] /\ (Unloaded(w) \/ Ruleless(w))
    BY <1>3 DEF BeginFails
  <2>2. /\ Fresh(w) \in Tracks /\ Fresh(w).ai # "completed"
    BY <1>1, FreshIs
  <2>3. /\ Finished(Fresh(w), "failed") \in Tracks
        /\ Finished(Fresh(w), "failed").local \in Terminal
        /\ Finished(Fresh(w), "failed").ai \in Terminal
        /\ Finished(Fresh(w), "failed").ai # "completed"
    BY <2>2, FinishedIs
  <2>4. /\ Told(Fresh(w), "local", "failed") \in Tracks
        /\ Told(Fresh(w), "local", "failed").ai = Fresh(w).ai
    BY <2>2, ToldIs DEF TrackStates, Terminal
  <2>5. call' = [call EXCEPT ![j] = [at |-> "none", ok |-> FALSE]] /\ Result(j, "none")
        /\ UNCHANGED <<queue, auditor>> /\ main[j] \in Idle
    BY <1>3 DEF BeginFails
  <2>6. CASE Unloaded(w)
    BY <1>1, <2>1, <2>3, <2>5, <2>6 DEF RuleOver, AiOver
  <2>7. CASE Ruleless(w)
    BY <1>1, <2>1, <2>2, <2>4, <2>5, <2>7 DEF RuleOver, AiOver
  <2> QED BY <2>1, <2>6, <2>7
<1> QED BY <1>2, <1>3
\* The analysis goes on, fails or ends.
LEMMA MainLocal ==
  ASSUME Typed, NEW j \in Jobs, AnalysisInv(j), Main(j)
  PROVE  Typed' /\ AnalysisInv(j)' /\ Others(j)
<1>0. /\ progress[j] \in Tracks
      /\ \A s \in {"failed", "completed", "cancelled"} : s \in TrackStates /\ s \in Terminal
  BY DEF Typed, TrackStates, Terminal
<1> USE DEF AnalysisInv, CallInv, MainInv, ResultInv, Others, Idle, Goto, Result, Tell
<1>1. ASSUME NEW s \in {"failed", "completed"}
      PROVE  /\ Told(progress[j], "local", s) \in Tracks
             /\ Told(progress[j], "local", s).local \in Terminal
             /\ Told(progress[j], "local", s).ai = progress[j].ai
  <2>1. s \in TrackStates /\ s \in Terminal
    BY <1>0
  <2> QED BY <1>0, <2>1, ToldIs
<1>2. ASSUME NEW p \in Tracks, NEW s \in {"failed", "cancelled"}
      PROVE  /\ Finished(p, s) \in Tracks
             /\ Finished(p, s).local \in Terminal /\ Finished(p, s).ai \in Terminal
             /\ Finished(p, s).ai = "completed" => p.ai = "completed"
  BY FinishedIs
<1>3. /\ AuditTold(j) \in Tracks
      /\ AuditTold(j).local = progress[j].local
      /\ AuditTold(j).ai \in Terminal
      /\ AuditTold(j).ai = "completed" => ai[j] = "succeeded"
  <2> DEFINE s == IF ai[j] = "succeeded" THEN "completed" ELSE "failed"
  <2>1. s \in TrackStates /\ s \in Terminal /\ (s = "completed" => ai[j] = "succeeded")
    BY <1>0
  <2>2. AuditTold(j) = Told(progress[j], "ai", s)
    BY DEF AuditTold
  <2> HIDE DEF s
  <2>3. /\ Told(progress[j], "ai", s) \in Tracks
        /\ Told(progress[j], "ai", s).local = progress[j].local
        /\ Told(progress[j], "ai", s).ai = IF progress[j].ai \in Terminal THEN progress[j].ai ELSE s
    BY <1>0, <2>1, ToldIs
  <2> QED BY <2>1, <2>2, <2>3
<1>4. CASE RulesEnd(j)
  BY <1>1, <1>4 DEF RulesEnd, Typed
<1>5. CASE RulesLate(j)
  BY <1>5, CancelledIs DEF RulesLate, CancelRule, Typed
<1>6. CASE RulesFail(j)
  BY <1>1, <1>6, CancelledIs DEF RulesFail, CancelAi, Typed
<1>7. CASE Failed(j)
  BY <1>0, <1>2, <1>7 DEF Failed, Typed
<1>8. CASE AuditOver(j)
  BY <1>8 DEF AuditOver, Typed
<1>9. CASE Merge(j)
  BY <1>3, <1>9 DEF Merge, Typed
<1>10. CASE MergeFails(j)
  <2>1. PICK p \in {progress[j], AuditTold(j)} :
             progress' = [progress EXCEPT ![j] = Finished(p, "failed")]
    BY <1>10 DEF MergeFails
  <2>2. p \in Tracks /\ (p.ai = "completed" => ai[j] = "succeeded")
    BY <1>0, <1>3
  <2>3. /\ Finished(p, "failed") \in Tracks
        /\ Finished(p, "failed").local \in Terminal /\ Finished(p, "failed").ai \in Terminal
        /\ Finished(p, "failed").ai = "completed" => p.ai = "completed"
    BY <1>2, <2>2
  <2>4. main[j] = "locate" /\ UNCHANGED <<wants, ai, queue, auditor>>
    BY <1>10 DEF MergeFails
  <2>5. CASE rule[j] = "done" /\ Goto(j, "unwind") /\ Result(j, "partial") /\ UNCHANGED <<rule, call>>
    BY <2>1, <2>2, <2>3, <2>4, <2>5 DEF Typed
  <2>6. CASE /\ Goto(j, "fallback") /\ UNCHANGED result
             /\ rule' = [rule EXCEPT ![j] = IF "local" \in wants[j] THEN "new" ELSE "none"]
             /\ call' = [call EXCEPT ![j] = [at |-> "none", ok |-> FALSE]]
    BY <2>1, <2>2, <2>3, <2>4, <2>6 DEF Typed, RuleOver
  <2> QED BY <1>10, <2>5, <2>6 DEF MergeFails
<1>11. CASE FallbackEnds(j)
  BY <1>11 DEF FallbackEnds, Typed
<1>12. CASE FallbackUnloaded(j)
  BY <1>12 DEF FallbackUnloaded, Typed, RuleOver
<1>13. CASE Cancelled(j)
  BY <1>0, <1>2, <1>13, CancelledIs DEF Cancelled, CancelAi, Typed
<1>14. CASE End(j)
  BY <1>14 DEF End, Typed
<1> QED BY <1>4, <1>5, <1>6, <1>7, <1>8, <1>9, <1>10, <1>11, <1>12, <1>13, <1>14 DEF Main

\* The analysis is cancelled.
LEMMA CancelLocal ==
  ASSUME Typed, NEW j \in Jobs, AnalysisInv(j), Cancel(j)
  PROVE  Typed' /\ AnalysisInv(j)' /\ Others(j)
<1> USE DEF AnalysisInv, CallInv, MainInv, ResultInv, Others, Idle, Goto, Typed
<1>1. UNCHANGED <<wants, result, call, queue, auditor, progress>>
  BY DEF Cancel
<1>2. CASE main[j] \in {"rules", "late", "fallback"} /\ CancelRule(j) /\ Goto(j, "rules_off")
           /\ UNCHANGED ai
  BY <1>1, <1>2, CancelledIs DEF CancelRule
<1>3. CASE main[j] \in {"audit", "failing"} /\ CancelAi(j) /\ Goto(j, "audit_off")
           /\ UNCHANGED rule
  BY <1>1, <1>3, CancelledIs DEF CancelAi
<1>4. CASE main[j] = "locate" /\ Goto(j, "audit_off") /\ UNCHANGED <<rule, ai>>
  BY <1>1, <1>4
<1> QED BY <1>2, <1>3, <1>4 DEF Cancel
-----------------------------------------------------------------------------
(* The line of the tickets.                                                *)

\* A step that draws no ticket and gives none back; a task in line may be
\* cancelled by it.
LEMMA LineKept ==
  ASSUME LineInv, UNCHANGED <<queue, auditor>>,
         \A k \in Jobs : \/ ai'[k] = ai[k]
                         \/ ai[k] \notin InLine /\ ai'[k] \notin InLine
                         \/ ai[k] \in {"waiting", "audit"} /\ ai'[k] = "stopping"
  PROVE  LineInv'
BY DEF LineInv, InLine

\* A ticket is given back, and with it the lock.
LEMMA LineLeft ==
  ASSUME Typed, LineInv, NEW j \in Jobs, ai[j] \in InLine, Leave(j),
         ai'[j] \notin InLine, \A k \in Jobs \ {j} : ai'[k] = ai[k]
  PROVE  LineInv'
<1>1. /\ \A a, b \in DOMAIN queue' : queue'[a] = queue'[b] => a = b
      /\ \A k \in Jobs : (\E a \in DOMAIN queue' : queue'[a] = k) <=>
                            k # j /\ \E a \in DOMAIN queue : queue[a] = k
      /\ queue # <<>> /\ Head(queue) # j => queue' # <<>> /\ Head(queue') = Head(queue)
  BY LeaveIs
<1>2. auditor' = IF auditor = j THEN Nobody ELSE auditor
  BY DEF Leave
<1>3. Nobody \notin Jobs
  BY AnalysisAssumption
<1>4. \A k \in Jobs : ai'[k] \in InLine <=> \E a \in DOMAIN queue' : queue'[a] = k
  BY <1>1 DEF LineInv
<1>5. auditor' \in Jobs => queue' # <<>> /\ Head(queue') = auditor'
                              /\ ai'[auditor'] \in {"audit", "stopping"}
  BY <1>1, <1>2, <1>3 DEF LineInv
<1>6. \A k \in Jobs : ai'[k] = "audit" => auditor' = k
  BY <1>2 DEF LineInv, InLine
<1> QED BY <1>1, <1>4, <1>5, <1>6 DEF LineInv

\* A ticket is drawn, at the end of the line.
LEMMA LineDrawn ==
  ASSUME Typed, LineInv, NEW j \in Jobs, EnqueueTicket(j)
  PROVE  LineInv'
<1>1. /\ ai[j] = "new" /\ ai' = [ai EXCEPT ![j] = "waiting"]
      /\ queue' = Append(queue, j) /\ auditor' = auditor
  BY DEF EnqueueTicket
<1>2. queue \in Seq(Jobs) /\ ai'[j] = "waiting" /\ \A k \in Jobs \ {j} : ai'[k] = ai[k]
  BY <1>1 DEF Typed
<1>3. /\ DOMAIN queue = 1..Len(queue) /\ Len(queue) \in Nat
      /\ DOMAIN queue' = 1..Len(queue) + 1
      /\ queue'[Len(queue) + 1] = j /\ \A a \in 1..Len(queue) : queue'[a] = queue[a]
  BY <1>1, <1>2
<1>4. \A a \in DOMAIN queue : queue[a] # j
  BY <1>1 DEF LineInv, InLine
<1>5. ASSUME NEW a \in DOMAIN queue', NEW b \in DOMAIN queue', queue'[a] = queue'[b]
      PROVE  a = b
  BY <1>3, <1>4, <1>5 DEF LineInv
<1>6. ASSUME NEW k \in Jobs
      PROVE  (\E a \in DOMAIN queue' : queue'[a] = k) <=>
                (k = j \/ \E a \in DOMAIN queue : queue[a] = k)
  <2>1. ASSUME NEW a \in DOMAIN queue', queue'[a] = k, k # j
        PROVE  \E b \in DOMAIN queue : queue[b] = k
    BY <1>3, <2>1
  <2>2. Len(queue) + 1 \in DOMAIN queue' /\ \A a \in DOMAIN queue : a \in DOMAIN queue'
    BY <1>3
  <2> QED BY <1>3, <2>1, <2>2
<1>7. \A k \in Jobs : ai'[k] \in InLine <=> \E a \in DOMAIN queue' : queue'[a] = k
  BY <1>2, <1>6 DEF LineInv, InLine
<1>8. queue # <<>> => queue' # <<>> /\ Head(queue') = Head(queue)
  BY <1>1, <1>2
<1>9. auditor' \in Jobs => queue' # <<>> /\ Head(queue') = auditor'
                              /\ ai'[auditor'] \in {"audit", "stopping"}
  BY <1>1, <1>2, <1>8 DEF LineInv
<1>10. \A k \in Jobs : ai'[k] = "audit" => auditor' = k
  BY <1>1, <1>2 DEF LineInv
<1> QED BY <1>5, <1>7, <1>9, <1>10 DEF LineInv

\* The first in line takes the lock.
LEMMA LineTurn ==
  ASSUME Typed, LineInv, NEW j \in Jobs, TakeTurn(j)
  PROVE  LineInv'
<1>1. /\ ai[j] = "waiting" /\ Head(queue) = j /\ auditor = Nobody
      /\ ai' = [ai EXCEPT ![j] = "audit"] /\ auditor' = j /\ queue' = queue
  BY DEF TakeTurn
<1>2. ai'[j] = "audit" /\ \A k \in Jobs \ {j} : ai'[k] = ai[k]
  BY <1>1 DEF Typed
<1>3. \E a \in DOMAIN queue : queue[a] = j
  BY <1>1 DEF LineInv, InLine
<1>4. queue # <<>>
  BY <1>3
<1>5. \A k \in Jobs : ai[k] # "audit"
  BY <1>1, AnalysisAssumption DEF LineInv
<1>6. \A k \in Jobs : ai'[k] \in InLine <=> ai[k] \in InLine
  BY <1>1, <1>2 DEF InLine
<1> QED BY <1>1, <1>2, <1>4, <1>5, <1>6 DEF LineInv

\* Every step keeps the line.
LEMMA LineNext ==
  ASSUME Typed, LineInv, \A j \in Jobs : AnalysisInv(j), Next
  PROVE  LineInv'
<1>1. PICK j \in Jobs :
          \/ Begin(j) \/ BeginFails(j) \/ Cancel(j)
          \/ StartChild(j) \/ ChildReports(j) \/ Rules(j) \/ Audit(j) \/ Main(j)
  BY DEF Next
<1>2. ASSUME UNCHANGED <<ai, queue, auditor>>
      PROVE  LineInv'
  BY <1>2, LineKept
<1>3. ASSUME NEW s, ai' = [ai EXCEPT ![j] = s], ai[j] \notin InLine, s \notin InLine,
             UNCHANGED <<queue, auditor>>
      PROVE  LineInv'
  BY <1>3, LineKept DEF Typed
<1>4. ASSUME CancelAi(j), UNCHANGED <<queue, auditor>>
      PROVE  LineInv'
  <2>1. \A k \in Jobs \ {j} : ai'[k] = ai[k]
    BY <1>4 DEF CancelAi, Typed
  <2>2. ai'[j] = AiCancelled(j)
    BY <1>4 DEF CancelAi, Typed
  <2> QED BY <1>4, <2>1, <2>2, CancelledIs, LineKept DEF InLine
<1>5. ASSUME main[j] \in Idle
      PROVE  ai[j] \notin InLine
  BY <1>5 DEF AnalysisInv, MainInv, AiOver, InLine
<1>6. CASE Begin(j) \/ BeginFails(j)
  <2>1. /\ \E s \in {"new", "none", "cancelled"} : ai' = [ai EXCEPT ![j] = s]
        /\ main[j] \in Idle /\ UNCHANGED <<queue, auditor>>
    <3>1. CASE Begin(j)
      BY <3>1 DEF Begin
    <3>2. CASE BeginFails(j)
      BY <3>2 DEF BeginFails
    <3> QED BY <1>6, <3>1, <3>2
  <2> QED BY <1>3, <1>5, <2>1 DEF InLine
<1>7. CASE Cancel(j)
  BY <1>2, <1>4, <1>7 DEF Cancel
<1>8. CASE StartChild(j) \/ ChildReports(j) \/ Rules(j)
  BY <1>2, <1>8 DEF StartChild, ChildReports, Rules, RunRules, SeeCancel, Receive, Deadline,
                    Reap, CallAt
<1>9. CASE Audit(j)
  <2>1. CASE NoAiRules(j)
    BY <1>3, <2>1 DEF NoAiRules, InLine
  <2>2. ASSUME Leave(j), ai[j] \in InLine, NEW s \in AiOver, ai' = [ai EXCEPT ![j] = s]
        PROVE  LineInv'
    BY <2>2, LineLeft DEF Typed, InLine, AiOver
  <2>3. CASE AuditEnds(j) \/ AuditFails(j) \/ AiStops(j)
    BY <2>2, <2>3 DEF AuditEnds, AuditFails, AiStops, InLine, AiOver
  <2> QED BY <1>9, <2>1, <2>3, LineDrawn, LineTurn DEF Audit
<1>10. CASE Main(j)
  BY <1>2, <1>4, <1>10 DEF Main, RulesEnd, RulesLate, RulesFail, Failed, AuditOver, Merge,
          MergeFails, FallbackEnds, FallbackUnloaded, Cancelled, End
<1> QED BY <1>1, <1>6, <1>7, <1>8, <1>9, <1>10

-----------------------------------------------------------------------------
(* The threads.                                                            *)

\* Every step keeps the number of threads at work within the pool.
LEMMA ThreadsNext ==
  ASSUME TypeOK, \A j \in Jobs : AnalysisInv(j), Next
  PROVE  Cardinality(AtWork') <= Threads
<1>1. PICK j \in Jobs :
          \/ Begin(j) \/ BeginFails(j) \/ Cancel(j)
          \/ StartChild(j) \/ ChildReports(j) \/ Rules(j) \/ Audit(j) \/ Main(j)
  BY DEF Next
<1>2. IsFiniteSet(Jobs) /\ Threads \in Nat
  BY AnalysisAssumption
<1>3. IsFiniteSet(AtWork) /\ Cardinality(AtWork) \in Nat
  BY <1>2, FS_Subset, FS_CardinalityType DEF AtWork
<1>4. ASSUME AtWork' \subseteq AtWork
      PROVE  Cardinality(AtWork') <= Threads
  <2>1. IsFiniteSet(AtWork') /\ Cardinality(AtWork') <= Cardinality(AtWork)
    BY <1>3, <1>4, FS_Subset
  <2>2. Cardinality(AtWork') \in Nat
    BY <2>1, FS_CardinalityType
  <2> QED BY <1>2, <1>3, <2>1, <2>2 DEF TypeOK
<1>5. ASSUME UNCHANGED call
      PROVE  AtWork' \subseteq AtWork
  BY <1>5 DEF AtWork
<1>6. ASSUME NEW c, call' = [call EXCEPT ![j] = c], c.at \in Busy => call[j].at \in Busy
      PROVE  AtWork' \subseteq AtWork
  BY <1>6 DEF AtWork, TypeOK, Typed
<1>7. CASE StartChild(j)
  <2>1. Cardinality(AtWork) + 1 <= Threads
    BY <1>2, <1>3, <1>7 DEF StartChild
  <2>2. AtWork' \subseteq AtWork \cup {j}
    BY <1>7 DEF StartChild, CallAt, AtWork, TypeOK, Typed
  <2>3. /\ IsFiniteSet(AtWork \cup {j})
        /\ Cardinality(AtWork \cup {j}) \in Nat
        /\ Cardinality(AtWork \cup {j}) <= Cardinality(AtWork) + 1
    <3>1. /\ IsFiniteSet(AtWork \cup {j})
          /\ Cardinality(AtWork \cup {j}) =
                IF j \in AtWork THEN Cardinality(AtWork) ELSE Cardinality(AtWork) + 1
      BY <1>3, FS_AddElement, Zenon
    <3> QED BY <1>3, <3>1
  <2>4. IsFiniteSet(AtWork') /\ Cardinality(AtWork') <= Cardinality(AtWork \cup {j})
    BY <2>2, <2>3, FS_Subset
  <2>5. Cardinality(AtWork') \in Nat
    BY <2>4, FS_CardinalityType
  <2> QED BY <1>2, <1>3, <2>1, <2>3, <2>4, <2>5
<1>8. CASE Begin(j) \/ BeginFails(j)
  BY <1>4, <1>6, <1>8 DEF Begin, BeginFails, Busy
<1>9. CASE Cancel(j) \/ ChildReports(j)
  BY <1>4, <1>5, <1>9 DEF Cancel, ChildReports
<1>10. CASE Rules(j)
  <2>1. CASE Receive(j) \/ SeeCancel(j) \/ Deadline(j)
    <3>1. /\ call[j].at = "running"
          /\ \E ok \in BOOLEAN : call' = [call EXCEPT ![j] = [at |-> "reaping", ok |-> ok]]
      BY <2>1 DEF Receive, SeeCancel, Deadline, CallAt
    <3> QED BY <1>4, <1>6, <3>1 DEF Busy
  <2>2. CASE RunRules(j) \/ Reap(j)
    BY <1>4, <1>6, <2>2 DEF RunRules, Reap, Busy
  <2> QED BY <1>10, <2>1, <2>2 DEF Rules
<1>11. CASE Audit(j)
  BY <1>4, <1>5, <1>11 DEF Audit, NoAiRules, EnqueueTicket, TakeTurn, AuditEnds, AuditFails, AiStops
<1>12. CASE Main(j)
  <2>1. CASE MergeFails(j)
    <3>1. UNCHANGED call \/ call' = [call EXCEPT ![j] = [at |-> "none", ok |-> FALSE]]
      BY <2>1 DEF MergeFails
    <3> QED BY <1>4, <1>5, <1>6, <3>1 DEF Busy
  <2>2. CASE ~MergeFails(j)
    BY <1>4, <1>5, <1>12, <2>2 DEF Main, RulesEnd, RulesLate, RulesFail, Failed, AuditOver,
            Merge, FallbackEnds, FallbackUnloaded, Cancelled, End
  <2> QED BY <2>1, <2>2
<1> QED BY <1>1, <1>7, <1>8, <1>9, <1>10, <1>11, <1>12

-----------------------------------------------------------------------------
(* The invariant.                                                          *)

LEMMA InitInv == Init => Inv
<1> SUFFICES ASSUME Init PROVE Inv
  OBVIOUS
<1>1. Typed
  BY DEF Init, Typed, Idle, RuleOver, AiOver, Tracks, TrackStates, Terminal
<1>2. Cardinality(AtWork) <= Threads
  <2>1. AtWork = {}
    BY DEF Init, AtWork, Busy
  <2> QED BY <2>1, FS_EmptySet, AnalysisAssumption
<1>3. LineInv
  BY AnalysisAssumption DEF Init, LineInv, InLine
<1>4. \A j \in Jobs : AnalysisInv(j)
  BY DEF Init, AnalysisInv, CallInv, MainInv, ResultInv, Idle, RuleOver, AiOver, Terminal
<1> QED BY <1>1, <1>2, <1>3, <1>4 DEF Inv, TypeOK

\* A step touches one analysis, and keeps the invariant of the others.
LEMMA NextInv == Inv /\ [Next]_vars => Inv'
<1> SUFFICES ASSUME Inv, [Next]_vars PROVE Inv'
  OBVIOUS
<1>1. Typed /\ TypeOK /\ LineInv /\ \A j \in Jobs : AnalysisInv(j)
  BY DEF Inv, TypeOK
<1>2. CASE Next
  <2>1. PICK j \in Jobs :
            \/ Begin(j) \/ BeginFails(j) \/ Cancel(j)
            \/ StartChild(j) \/ ChildReports(j) \/ Rules(j) \/ Audit(j) \/ Main(j)
    BY <1>2 DEF Next
  <2>2. Typed' /\ AnalysisInv(j)' /\ Others(j)
    BY <1>1, <2>1, BeginLocal, CancelLocal, RulesLocal, AuditLocal, MainLocal
  <2>3. ASSUME NEW k \in Jobs \ {j}
        PROVE  AnalysisInv(k)'
    BY <1>1, <2>2 DEF Others, AnalysisInv, CallInv, MainInv, ResultInv
  <2>4. LineInv' /\ Cardinality(AtWork') <= Threads
    BY <1>1, <1>2, LineNext, ThreadsNext
  <2> QED BY <2>2, <2>3, <2>4 DEF Inv, TypeOK
<1>3. CASE UNCHANGED vars
  <2>1. Typed' /\ AtWork' = AtWork
    BY <1>1, <1>3 DEF vars, Typed, AtWork
  <2>2. LineInv'
    BY <1>1, <1>3 DEF vars, LineInv
  <2>3. \A j \in Jobs : AnalysisInv(j)'
    BY <1>1, <1>3 DEF vars, AnalysisInv, CallInv, MainInv, ResultInv
  <2> QED BY <1>1, <2>1, <2>2, <2>3 DEF Inv, TypeOK
<1> QED BY <1>2, <1>3

LEMMA Invariance == Spec => []Inv
BY InitInv, NextInv, PTL DEF Spec

\* The executor never has more threads at work than it has, however many
\* analyses run, are cancelled and are late (_evaluate_in_process).
THEOREM TypeCorrect == Spec => []TypeOK
<1>1. Inv => TypeOK
  BY DEF Inv
<1> QED BY <1>1, Invariance, PTL

\* AI_SEQUENTIAL_MODE: an audit runs only for the first in line, and it holds
\* the lock (_wait_for_ai_turn, _dequeue_ai_ticket).
THEOREM AuditsInTurn == Spec => []AuditInTurn
<1>1. Inv => AuditInTurn
  BY DEF Inv, LineInv, AuditInTurn
<1> QED BY <1>1, Invariance, PTL

\* The line never comes to a halt: while anybody is in it, the first may take
\* the lock, has it, or is about to leave.
LineMoves ==
    queue # <<>> =>
        \/ auditor = Nobody /\ ai[Head(queue)] \in {"waiting", "stopping"}
        \/ auditor = Head(queue) /\ ai[Head(queue)] \in {"audit", "stopping"}

\* No ticket is left behind by a task that is gone, and no lock by one that is
\* not the first; it is what EveryoneEnds rests on (_dequeue_ai_ticket).
THEOREM LineAlwaysMoves == Spec => []LineMoves
<1>1. Inv => LineMoves
  <2> SUFFICES ASSUME Inv, queue # <<>>
               PROVE  \/ auditor = Nobody /\ ai[Head(queue)] \in {"waiting", "stopping"}
                      \/ auditor = Head(queue) /\ ai[Head(queue)] \in {"audit", "stopping"}
    BY DEF LineMoves
  <2>1. queue \in Seq(Jobs) /\ auditor \in Jobs \cup {Nobody}
    BY DEF Inv, TypeOK, Typed
  <2>2. Head(queue) \in Jobs /\ \E a \in DOMAIN queue : queue[a] = Head(queue)
    BY <2>1
  <2>3. ai[Head(queue)] \in InLine
    BY <2>2 DEF Inv, LineInv
  <2>4. CASE auditor \in Jobs
    BY <2>4 DEF Inv, LineInv
  <2>5. CASE auditor = Nobody
    BY <2>2, <2>3, <2>5, AnalysisAssumption DEF Inv, LineInv, InLine
  <2> QED BY <2>1, <2>4, <2>5
<1> QED BY <1>1, Invariance, PTL

\* Nobody passes one who is already in line.
NoOvertaking ==
    [][\A j, k \in Jobs :
          (\E a \in DOMAIN queue : queue[a] = j) /\ Before(queue', k, j)
            => Before(queue, k, j)]_vars

\* Tickets that are drawn, and tickets given back anywhere in the line, do not
\* change the order of the others; with AuditInTurn, audits run in the order in
\* which they were asked for (_enqueue_ai_ticket, _dequeue_ai_ticket).
THEOREM NobodyOvertakes == Spec => NoOvertaking
<1>1. ASSUME Inv, Next, NEW j \in Jobs, NEW k \in Jobs,
             NEW i \in DOMAIN queue, queue[i] = j, Before(queue', k, j)
      PROVE  Before(queue, k, j)
  <2>1. Typed /\ LineInv
    BY <1>1 DEF Inv, TypeOK
  <2>2. CASE queue' = queue
    BY <1>1, <2>2 DEF Before
  <2>3. ASSUME NEW l \in Jobs, EnqueueTicket(l)
        PROVE  Before(queue, k, j)
    <3>1. queue \in Seq(Jobs) /\ queue' = Append(queue, l) /\ ai[l] = "new"
      BY <2>1, <2>3 DEF EnqueueTicket, Typed
    <3>2. /\ DOMAIN queue = 1..Len(queue) /\ Len(queue) \in Nat
          /\ DOMAIN queue' = 1..Len(queue) + 1 /\ queue'[Len(queue) + 1] = l
          /\ \A a \in 1..Len(queue) : queue'[a] = queue[a]
      BY <3>1
    <3>3. l # j
      BY <1>1, <2>1, <3>1 DEF LineInv, InLine
    <3>4. PICK a, b \in DOMAIN queue' : a < b /\ queue'[a] = k /\ queue'[b] = j
      BY <1>1 DEF Before
    <3>5. b # Len(queue) + 1
      BY <3>2, <3>3, <3>4
    <3>6. a \in DOMAIN queue /\ b \in DOMAIN queue
      BY <3>2, <3>4, <3>5
    <3> QED BY <3>2, <3>4, <3>6 DEF Before
  <2>4. ASSUME NEW l \in Jobs, ai[l] \in InLine, Leave(l)
        PROVE  Before(queue, k, j)
    BY <1>1, <2>1, <2>4, LeaveIs
  <2>5. PICK l \in Jobs :
            \/ Begin(l) \/ BeginFails(l) \/ Cancel(l)
            \/ StartChild(l) \/ ChildReports(l) \/ Rules(l) \/ Audit(l) \/ Main(l)
    BY <1>1 DEF Next
  <2>6. CASE Audit(l)
    BY <2>2, <2>3, <2>4, <2>6 DEF Audit, NoAiRules, TakeTurn, AuditEnds, AuditFails, AiStops, InLine
  <2>7. CASE Main(l)
    BY <2>2, <2>7 DEF Main, RulesEnd, RulesLate, RulesFail, Failed, AuditOver, Merge,
            MergeFails, FallbackEnds, FallbackUnloaded, Cancelled, End
  <2>8. CASE StartChild(l) \/ ChildReports(l) \/ Rules(l)
    BY <2>2, <2>8 DEF StartChild, ChildReports, Rules, RunRules, SeeCancel, Receive, Deadline,
                      Reap, CallAt
  <2>9. CASE Begin(l) \/ BeginFails(l) \/ Cancel(l)
    BY <2>2, <2>9 DEF Begin, BeginFails, Cancel
  <2> QED BY <2>5, <2>6, <2>7, <2>8, <2>9
<1>2. Inv /\ [Next]_vars =>
         [\A j, k \in Jobs :
            (\E a \in DOMAIN queue : queue[a] = j) /\ Before(queue', k, j)
              => Before(queue, k, j)]_vars
  BY <1>1
<1> QED BY <1>2, Invariance, PTL DEF Spec, NoOvertaking

\* An analysis that has returned, failed or been cancelled leaves no child
\* process, no task, no lock and no ticket behind (analyze).
THEOREM NothingIsLeft == Spec => []NothingOutlives
<1>1. Inv => NothingOutlives
  <2> SUFFICES ASSUME Inv, NEW j \in Jobs, main[j] \in Idle
               PROVE  /\ call[j].at \notin Busy
                      /\ rule[j] \in RuleOver /\ ai[j] \in AiOver
                      /\ auditor # j
                      /\ \A i \in DOMAIN queue : queue[i] # j
    BY DEF NothingOutlives
  <2>1. rule[j] \in RuleOver /\ ai[j] \in AiOver
    BY DEF Inv, AnalysisInv, MainInv
  <2>2. call[j].at \notin Busy
    BY <2>1 DEF Inv, AnalysisInv, CallInv, RuleOver, Busy
  <2>3. ai[j] \notin InLine
    BY <2>1 DEF AiOver, InLine
  <2>4. auditor # j /\ \A i \in DOMAIN queue : queue[i] # j
    BY <2>3 DEF Inv, LineInv, InLine
  <2> QED BY <2>1, <2>2, <2>4
<1> QED BY <1>1, Invariance, PTL

\* The tracks of an analysis that has ended have ended, and an audit shown as
\* completed has succeeded (update_progress, finish_incomplete).
THEOREM TracksAreTrue == Spec => []TracksTellTruth
<1>1. Inv => TracksTellTruth
  BY DEF Inv, AnalysisInv, MainInv, TracksTellTruth
<1> QED BY <1>1, Invariance, PTL

\* An analysis that was asked for the local rules has a result only with an
\* answer of theirs (_analyze).
THEOREM NoFailureMasked == Spec => []NoMaskedFailure
<1>1. Inv => NoMaskedFailure
  BY DEF Inv, AnalysisInv, CallInv, ResultInv, NoMaskedFailure
<1> QED BY <1>1, Invariance, PTL

=============================================================================
