------------------------- MODULE ScopeOutboxProofs -------------------------
(***************************************************************************)
(* Theorems about ScopeOutbox, for any jobs and dispatchers, any size of   *)
(* the pool and any bounds.                                                *)
(***************************************************************************)
EXTENDS ScopeOutbox, FiniteSetTheorems, TLAPS

-----------------------------------------------------------------------------
(* The inductive invariant.                                                *)

States == {"pending", "queued", "applied"}

Results == [done : BOOLEAN, has : Revisions]

Files == [status : Active \cup {"done", "error"}, request : Revisions, uses : Revisions]

Records ==
    [at : AtRow \cup {"idle", "rows"}, rows : SUBSET Decisions, row : Decisions \cup {None}]

\* An analysis that will load decision k, or has, or a failure that shows.
Cover(j, k) ==
    \/ file[j].status \in {"queued", "processing", "error"}
    \/ file[j].status = "checking" /\ file[j].uses = k

\* What is known of a job: the row is open as long as an analysis may still load
\* a decision or has loaded it, and then nobody makes another; so that only
\* the latest decision is ever waited for.
JobInv(j) ==
    /\ file[j].request > 0 => file[j].status = "queued"
    /\ file[j].status \in {"processing", "checking"} => ~result[j].done
    /\ file[j].status = "checking" => file[j].uses = Latest(j)
    /\ result[j].done => result[j].has = Latest(j)
    /\ \A k \in 1..Latest(j) :
        decisions[j][k] # "applied" => k = Latest(j) /\ ~result[j].done
    /\ \A k \in 1..Latest(j) : decisions[j][k] = "queued" => Cover(j, k)

\* What is known of a dispatcher: it marks what it has started while that goes
\* on, unless the decision has been applied by then.
RecordInv(r) ==
    /\ \A row \in r.rows : row[2] <= Latest(row[1])
    /\ r.at \in AtRow => r.row[2] <= Latest(r.row[1])
    /\ r.at \in {"announce", "mark"} /\ Status(r.row) = "pending" =>
        Cover(r.row[1], r.row[2])

OutboxInv ==
    /\ TypeOK
    /\ \A j \in Jobs : JobInv(j)
    /\ \A d \in Dispatchers : RecordInv(dispatcher[d])

-----------------------------------------------------------------------------
(* What the steps have in common.                                          *)

\* A step that changes the job j only, and no decision back to pending.
LEMMA JobChange ==
    ASSUME OutboxInv, NEW j \in Jobs,
           decisions' \in [Jobs -> Seq(States)],
           \A i \in Jobs \ {j} :
               decisions'[i] = decisions[i] /\ result'[i] = result[i] /\ file'[i] = file[i],
           Latest(j) <= Latest(j)',
           \A k \in 1..Latest(j) : decisions'[j][k] = "pending" =>
               decisions[j][k] = "pending" /\ (Cover(j, k) => Cover(j, k)'),
           JobInv(j)'
    PROVE  /\ \A i \in Jobs : JobInv(i)'
           /\ \A i \in Jobs : Latest(i) <= Latest(i)'
           /\ \A r \in Records :
                (r.at \in AtRow => r.row # None) /\ RecordInv(r) => RecordInv(r)'
<1>1. ASSUME NEW i \in Jobs \ {j}
      PROVE  JobInv(i)' /\ Latest(i)' = Latest(i)
  <2>1. decisions'[i] = decisions[i] /\ result'[i] = result[i] /\ file'[i] = file[i]
    BY <1>1
  <2>2. JobInv(i)
    BY <1>1 DEF OutboxInv
  <2> QED
    BY <2>1, <2>2 DEF JobInv, Cover, Latest
<1>2. decisions \in [Jobs -> Seq(States)]
  BY DEF OutboxInv, TypeOK, States
<1>3. \A i \in Jobs : Latest(i) \in Nat /\ Latest(i)' \in Nat
  BY <1>2 DEF Latest
<1>4. \A i \in Jobs : Latest(i) <= Latest(i)'
  BY <1>1, <1>3
<1>5. ASSUME NEW r \in Records, r.at \in AtRow => r.row # None, RecordInv(r)
      PROVE  RecordInv(r)'
  <2>1. \A row \in Decisions : row[1] \in Jobs /\ row[2] \in 1..MaxRevision
    BY DEF Decisions
  <2>2. r.rows \subseteq Decisions
    BY DEF Records
  <2>3. \A row \in r.rows : (row[2] <= Latest(row[1]))'
    BY <1>3, <1>4, <1>5, <2>1, <2>2, OutboxAssumption DEF RecordInv
  <2>4. ASSUME r.at \in AtRow
        PROVE  /\ (r.row[2] <= Latest(r.row[1]))'
               /\ Status(r.row)' = "pending" =>
                    Status(r.row) = "pending"
                    /\ (Cover(r.row[1], r.row[2]) => Cover(r.row[1], r.row[2])')
    <3>1. r.row \in Decisions
      BY <1>5, <2>4 DEF Records
    <3>2. r.row[1] \in Jobs /\ r.row[2] \in 1..Latest(r.row[1])
      BY <1>3, <1>5, <2>1, <2>4, <3>1, OutboxAssumption DEF RecordInv
    <3>3. (r.row[2] <= Latest(r.row[1]))'
      BY <1>3, <1>4, <3>2
    <3>4. CASE r.row[1] = j
      BY <3>2, <3>3, <3>4 DEF Status
    <3>5. CASE r.row[1] # j
      BY <3>2, <3>3, <3>5 DEF Status, Cover
    <3> QED
      BY <3>4, <3>5
  <2> QED
    BY <1>5, <2>3, <2>4 DEF RecordInv, AtRow
<1>6. JobInv(j)'
  OBVIOUS
<1> QED
  BY <1>1, <1>4, <1>5, <1>6

\* A step of the dispatcher d to the record r.
LEMMA RecordChange ==
    ASSUME TypeOK, NEW d \in Dispatchers, NEW r \in Records,
           r.at \in AtRow <=> r.row # None,
           dispatcher' = [dispatcher EXCEPT ![d] = r],
           dispatcher[d].at = "idle" /\ r.at # "idle" => Free > 0,
           r.at \in AtRow => \A e \in Dispatchers \ {d} : ~HoldsLock(e, r.row[1])
    PROVE  /\ dispatcher' \in [Dispatchers -> Records]
           /\ \A e \in Dispatchers : dispatcher'[e].at \in AtRow <=> dispatcher'[e].row # None
           /\ \A e, f \in Dispatchers, j \in Jobs :
                  HoldsLock(e, j)' /\ HoldsLock(f, j)' => e = f
           /\ Free' >= 0
           /\ dispatcher'[d] = r
           /\ \A e \in Dispatchers \ {d} : dispatcher'[e] = dispatcher[e]
<1>1. dispatcher \in [Dispatchers -> Records]
  BY DEF TypeOK, Records
<1>2. /\ dispatcher' \in [Dispatchers -> Records]
      /\ dispatcher'[d] = r
      /\ \A e \in Dispatchers \ {d} : dispatcher'[e] = dispatcher[e]
  BY <1>1
<1>3. \A e \in Dispatchers : dispatcher'[e].at \in AtRow <=> dispatcher'[e].row # None
  BY <1>2 DEF TypeOK
<1>4. \A e, f \in Dispatchers, j \in Jobs :
          HoldsLock(e, j)' /\ HoldsLock(f, j)' => e = f
  <2>1. \A e \in Dispatchers \ {d}, j \in Jobs : HoldsLock(e, j)' <=> HoldsLock(e, j)
    BY <1>2 DEF HoldsLock
  <2>2. \A j \in Jobs : HoldsLock(d, j)' => r.at \in AtRow /\ r.row[1] = j
    BY <1>2 DEF HoldsLock
  <2>3. SUFFICES ASSUME NEW e \in Dispatchers, NEW f \in Dispatchers, NEW j \in Jobs,
                        HoldsLock(e, j)', HoldsLock(f, j)'
                 PROVE  e = f
    OBVIOUS
  <2>4. CASE e = d /\ f = d
    BY <2>4
  <2>5. CASE e = d /\ f # d
    <3>1. r.at \in AtRow /\ r.row[1] = j
      BY <2>2, <2>3, <2>5
    <3>2. HoldsLock(f, j)
      BY <2>1, <2>3, <2>5
    <3> QED
      BY <2>5, <3>1, <3>2
  <2>6. CASE e # d /\ f = d
    <3>1. r.at \in AtRow /\ r.row[1] = j
      BY <2>2, <2>3, <2>6
    <3>2. HoldsLock(e, j)
      BY <2>1, <2>3, <2>6
    <3> QED
      BY <2>6, <3>1, <3>2
  <2>7. CASE e # d /\ f # d
    <3>1. HoldsLock(e, j) /\ HoldsLock(f, j)
      BY <2>1, <2>3, <2>7
    <3> QED
      BY <3>1 DEF TypeOK
  <2> QED
    BY <2>4, <2>5, <2>6, <2>7
<1>5. Free' >= 0
  <2> DEFINE A == {e \in Dispatchers : dispatcher[e].at # "idle"}
             B == {e \in Dispatchers : dispatcher'[e].at # "idle"}
  <2>1. Free = Pool - Cardinality(A) /\ Free' = Pool - Cardinality(B)
    BY DEF Free
  <2>2. IsFiniteSet(A) /\ IsFiniteSet(B)
    BY OutboxAssumption, FS_Subset
  <2>3. Cardinality(A) \in Nat /\ Cardinality(B) \in Nat
    BY <2>2, FS_CardinalityType
  <2>4. CASE d \notin A /\ d \in B
    <3>1. B = A \cup {d}
      BY <1>2, <2>4
    <3>2. Cardinality(B) = Cardinality(A) + 1
      BY <2>2, <2>4, <3>1, FS_AddElement
    <3>3. Free > 0
      BY <1>2, <2>4
    <3> QED
      BY <2>1, <2>3, <3>2, <3>3, OutboxAssumption
  <2>5. CASE d \in A \/ d \notin B
    <3>1. B \subseteq A
      BY <1>2, <2>5
    <3>2. Cardinality(B) <= Cardinality(A)
      BY <2>2, <3>1, FS_Subset
    <3>3. Free >= 0
      BY DEF TypeOK
    <3> QED
      BY <2>1, <2>3, <3>2, <3>3, OutboxAssumption
  <2> QED
    BY <2>4, <2>5
<1> QED
  BY <1>2, <1>3, <1>4, <1>5

\* A step that changes the job j only keeps the invariant.
LEMMA JobStep ==
    ASSUME OutboxInv, NEW j \in Jobs,
           UNCHANGED <<resting, dispatcher>>,
           decisions' \in [Jobs -> Seq(States)],
           result' \in [Jobs -> Results],
           file' \in [Jobs -> Files],
           starting' \subseteq Jobs,
           faults' \in 0..MaxFaults,
           \A i \in Jobs \ {j} :
               decisions'[i] = decisions[i] /\ result'[i] = result[i] /\ file'[i] = file[i],
           Latest(j) <= Latest(j)' /\ Latest(j)' <= MaxRevision,
           \A k \in 1..Latest(j) : decisions'[j][k] = "pending" =>
               decisions[j][k] = "pending" /\ (Cover(j, k) => Cover(j, k)'),
           JobInv(j)'
    PROVE  OutboxInv'
<1>1. /\ \A i \in Jobs : JobInv(i)'
      /\ \A i \in Jobs : Latest(i) <= Latest(i)'
      /\ \A r \in Records :
           (r.at \in AtRow => r.row # None) /\ RecordInv(r) => RecordInv(r)'
  BY JobChange
<1>2. \A d \in Dispatchers : RecordInv(dispatcher[d])'
  <2>1. TAKE d \in Dispatchers
  <2>2. /\ dispatcher[d] \in Records
        /\ dispatcher[d].at \in AtRow => dispatcher[d].row # None
        /\ RecordInv(dispatcher[d])
    BY DEF OutboxInv, TypeOK, Records
  <2>3. dispatcher'[d] = dispatcher[d]
    OBVIOUS
  <2> QED
    BY <1>1, <2>2, <2>3 DEF RecordInv
<1>3. TypeOK'
  <2>1. \A i \in Jobs : Latest(i)' <= MaxRevision
    BY DEF OutboxInv, TypeOK, Latest
  <2>2. resting' \subseteq {row \in Decisions : row[2] <= Latest(row[1])'}
    <3>1. SUFFICES ASSUME NEW row \in resting
                   PROVE  row \in Decisions /\ row[2] <= Latest(row[1])'
      OBVIOUS
    <3>2. row \in Decisions /\ row[2] <= Latest(row[1])
      BY DEF OutboxInv, TypeOK
    <3>3. row[1] \in Jobs /\ row[2] \in Nat
      BY <3>2, OutboxAssumption DEF Decisions
    <3>4. Latest(row[1]) \in Nat /\ Latest(row[1])' \in Nat
      BY <3>3 DEF OutboxInv, TypeOK, Latest
    <3> QED
      BY <1>1, <3>2, <3>3, <3>4
  <2>3. \A d, e \in Dispatchers, i \in Jobs : HoldsLock(d, i)' /\ HoldsLock(e, i)' => d = e
    BY DEF OutboxInv, TypeOK, HoldsLock
  <2>4. Free' >= 0
    BY DEF OutboxInv, TypeOK, Free
  <2>5. \A d \in Dispatchers : dispatcher'[d].at \in AtRow <=> dispatcher'[d].row # None
    BY DEF OutboxInv, TypeOK
  <2>6. dispatcher' \in [Dispatchers -> Records]
    BY DEF OutboxInv, TypeOK, Records
  <2> QED
    BY <2>1, <2>2, <2>3, <2>4, <2>5, <2>6 DEF TypeOK, States, Results, Files, Records
<1> QED
  BY <1>1, <1>2, <1>3 DEF OutboxInv

\* A step that changes the dispatcher d only keeps the invariant.
LEMMA DispatcherStep ==
    ASSUME OutboxInv, NEW d \in Dispatchers, NEW r \in Records,
           UNCHANGED <<decisions, result, file, starting>>,
           resting' \subseteq {row \in Decisions : row[2] <= Latest(row[1])},
           faults' \in 0..MaxFaults,
           r.at \in AtRow <=> r.row # None,
           dispatcher' = [dispatcher EXCEPT ![d] = r],
           dispatcher[d].at = "idle" /\ r.at # "idle" => Free > 0,
           r.at \in AtRow => \A e \in Dispatchers \ {d} : ~HoldsLock(e, r.row[1]),
           RecordInv(r)
    PROVE  OutboxInv'
<1>1. /\ dispatcher' \in [Dispatchers -> Records]
      /\ \A e \in Dispatchers : dispatcher'[e].at \in AtRow <=> dispatcher'[e].row # None
      /\ \A e, f \in Dispatchers, j \in Jobs :
             HoldsLock(e, j)' /\ HoldsLock(f, j)' => e = f
      /\ Free' >= 0
      /\ dispatcher'[d] = r
      /\ \A e \in Dispatchers \ {d} : dispatcher'[e] = dispatcher[e]
  BY RecordChange DEF OutboxInv
<1>2. \A j \in Jobs : JobInv(j)'
  BY DEF OutboxInv, JobInv, Cover, Latest
<1>3. \A e \in Dispatchers : RecordInv(dispatcher[e])'
  <2>1. TAKE e \in Dispatchers
  <2>2. RecordInv(dispatcher'[e])
    BY <1>1 DEF OutboxInv
  <2> QED
    BY <2>2 DEF RecordInv, Cover, Latest, Status
<1>4. TypeOK'
  <2>1. \A j \in Jobs : Latest(j)' = Latest(j)
    BY DEF Latest
  <2>2. resting' \subseteq {row \in Decisions : row[2] <= Latest(row[1])'}
    BY DEF Latest
  <2> QED
    BY <1>1, <2>1, <2>2 DEF OutboxInv, TypeOK, Records
<1> QED
  BY <1>2, <1>3, <1>4 DEF OutboxInv

\* A step of the dispatcher d that changes the job j.
LEMMA RowStep ==
    ASSUME OutboxInv, NEW d \in Dispatchers, NEW r \in Records, NEW j \in Jobs,
           UNCHANGED <<resting, starting, faults>>,
           decisions' \in [Jobs -> Seq(States)],
           result' \in [Jobs -> Results],
           file' \in [Jobs -> Files],
           \A i \in Jobs \ {j} :
               decisions'[i] = decisions[i] /\ result'[i] = result[i] /\ file'[i] = file[i],
           Latest(j)' = Latest(j),
           \A k \in 1..Latest(j) : decisions'[j][k] = "pending" =>
               decisions[j][k] = "pending" /\ (Cover(j, k) => Cover(j, k)'),
           JobInv(j)',
           dispatcher[d].at \in AtRow, r.at \in {"rows"} \cup AtRow,
           r.at \in AtRow => r.row = dispatcher[d].row,
           r.at \in AtRow <=> r.row # None,
           dispatcher' = [dispatcher EXCEPT ![d] = r],
           RecordInv(r)'
    PROVE  OutboxInv'
<1>1. \A e \in Dispatchers \ {d} : r.at \in AtRow => ~HoldsLock(e, r.row[1])
  <2>1. SUFFICES ASSUME NEW e \in Dispatchers \ {d}, r.at \in AtRow, HoldsLock(e, r.row[1])
                 PROVE  FALSE
    OBVIOUS
  <2>2. dispatcher[d].row \in Decisions
    BY DEF OutboxInv, TypeOK
  <2>3. r.row[1] \in Jobs /\ HoldsLock(d, r.row[1])
    BY <2>1, <2>2 DEF HoldsLock, Decisions
  <2> QED
    BY <2>1, <2>3 DEF OutboxInv, TypeOK
<1>2. dispatcher[d].at # "idle"
  BY DEF AtRow
<1>3. /\ dispatcher' \in [Dispatchers -> Records]
      /\ \A e \in Dispatchers : dispatcher'[e].at \in AtRow <=> dispatcher'[e].row # None
      /\ \A e, f \in Dispatchers, i \in Jobs :
             HoldsLock(e, i)' /\ HoldsLock(f, i)' => e = f
      /\ Free' >= 0
      /\ dispatcher'[d] = r
      /\ \A e \in Dispatchers \ {d} : dispatcher'[e] = dispatcher[e]
  BY <1>1, <1>2, RecordChange DEF OutboxInv
<1>4. Latest(j) <= Latest(j)'
  BY DEF OutboxInv, TypeOK, Latest
<1>5. /\ \A i \in Jobs : JobInv(i)'
      /\ \A i \in Jobs : Latest(i) <= Latest(i)'
      /\ \A s \in Records :
           (s.at \in AtRow => s.row # None) /\ RecordInv(s) => RecordInv(s)'
  BY <1>4, JobChange
<1>6. \A e \in Dispatchers : RecordInv(dispatcher[e])'
  <2>1. TAKE e \in Dispatchers
  <2>2. CASE e = d
    BY <1>3, <2>2 DEF RecordInv
  <2>3. CASE e # d
    <3>1. /\ dispatcher[e] \in Records
          /\ dispatcher[e].at \in AtRow => dispatcher[e].row # None
          /\ RecordInv(dispatcher[e])
      BY DEF OutboxInv, TypeOK, Records
    <3>2. dispatcher'[e] = dispatcher[e]
      BY <1>3, <2>3
    <3> QED
      BY <1>5, <3>1, <3>2 DEF RecordInv
  <2> QED
    BY <2>2, <2>3
<1>7. TypeOK'
  <2>1. \A i \in Jobs : Latest(i)' = Latest(i)
    BY DEF Latest
  <2>2. resting' \subseteq {row \in Decisions : row[2] <= Latest(row[1])'}
    <3>1. SUFFICES ASSUME NEW row \in resting
                   PROVE  row \in Decisions /\ row[2] <= Latest(row[1])'
      OBVIOUS
    <3>2. row \in Decisions /\ row[2] <= Latest(row[1]) /\ row[1] \in Jobs
      BY DEF OutboxInv, TypeOK, Decisions
    <3> QED
      BY <2>1, <3>2
  <2>3. \A i \in Jobs : Latest(i)' <= MaxRevision
    BY <2>1 DEF OutboxInv, TypeOK
  <2>4. starting' \subseteq Jobs /\ faults' \in 0..MaxFaults
    BY DEF OutboxInv, TypeOK
  <2> QED
    BY <1>3, <2>2, <2>3, <2>4 DEF TypeOK, States, Results, Files, Records
<1> QED
  BY <1>5, <1>6, <1>7 DEF OutboxInv
-----------------------------------------------------------------------------
(* Users and the pipeline.                                                 *)

LEMMA ConfirmKeeps ==
    ASSUME OutboxInv, NEW j \in Jobs, Confirm(j) PROVE OutboxInv'
<1>1. /\ decisions \in [Jobs -> Seq(States)] /\ result \in [Jobs -> Results]
      /\ file \in [Jobs -> Files] /\ starting \subseteq Jobs /\ faults \in 0..MaxFaults
      /\ JobInv(j) /\ Latest(j) \in Nat
  BY DEF OutboxInv, TypeOK, States, Results, Files, Latest
<1>2. /\ decisions' = [decisions EXCEPT ![j] = Append(@, "pending")]
      /\ result' = [result EXCEPT ![j].done = FALSE]
      /\ UNCHANGED <<resting, file, starting, dispatcher, faults>>
      /\ result[j].done /\ Latest(j) < MaxRevision
  BY DEF Confirm
<1>3. decisions' \in [Jobs -> Seq(States)]
  BY <1>1, <1>2 DEF States
<1>4. result' \in [Jobs -> Results]
  BY <1>1, <1>2 DEF Results
<1>5. /\ Latest(j)' = Latest(j) + 1
      /\ \A k \in 1..Latest(j) : decisions'[j][k] = decisions[j][k]
      /\ decisions'[j][Latest(j) + 1] = "pending"
      /\ ~result'[j].done
  BY <1>1, <1>2 DEF Latest, Results
<1>6. JobInv(j)'
  <2>1. file'[j] = file[j] /\ file[j].status \notin {"processing", "checking"}
    BY <1>1, <1>2 DEF JobInv
  <2>2. \A k \in 1..Latest(j) : decisions[j][k] = "applied"
    BY <1>1, <1>2 DEF JobInv
  <2>3. \A k \in 1..Latest(j)' : k = Latest(j)' \/ k \in 1..Latest(j)
    BY <1>1, <1>5
  <2>4. \A k \in 1..Latest(j)' :
            /\ decisions'[j][k] # "applied" => k = Latest(j)'
            /\ decisions'[j][k] # "queued"
    BY <1>1, <1>5, <2>2, <2>3
  <2>5. (file[j].request > 0 => file[j].status = "queued")'
    BY <1>1, <2>1 DEF JobInv
  <2> QED
    BY <1>5, <2>1, <2>4, <2>5 DEF JobInv
<1>7. \A k \in 1..Latest(j) : decisions'[j][k] = "pending" =>
          decisions[j][k] = "pending" /\ (Cover(j, k) => Cover(j, k)')
  BY <1>2, <1>5 DEF Cover
<1>8. \A i \in Jobs \ {j} :
          decisions'[i] = decisions[i] /\ result'[i] = result[i] /\ file'[i] = file[i]
  BY <1>1, <1>2
<1>9. Latest(j) <= Latest(j)' /\ Latest(j)' <= MaxRevision
  BY <1>1, <1>2, <1>5, OutboxAssumption
<1> QED
  BY <1>1, <1>2, <1>3, <1>4, <1>6, <1>7, <1>8, <1>9, JobStep

\* A step of the analysis of j that leaves the decisions alone.
LEMMA FileStep ==
    ASSUME OutboxInv, NEW j \in Jobs, NEW f \in Files,
           UNCHANGED <<decisions, resting, dispatcher>>,
           file' = [file EXCEPT ![j] = f],
           result' = result \/ result' = [result EXCEPT ![j].done = FALSE],
           starting' \subseteq Jobs,
           faults' \in 0..MaxFaults,
           f.request > 0 => f.status = "queued",
           f.status \in {"processing", "checking"} => ~result'[j].done,
           f.status = "checking" => f.uses = Latest(j),
           file[j].status \in {"queued", "processing", "error", "checking"} =>
               \/ f.status \in {"queued", "processing", "error"}
               \/ f.status = "checking"
    PROVE  OutboxInv'
<1>1. /\ decisions \in [Jobs -> Seq(States)] /\ result \in [Jobs -> Results]
      /\ file \in [Jobs -> Files] /\ JobInv(j)
      /\ Latest(j) \in Nat /\ Latest(j) <= MaxRevision
  BY DEF OutboxInv, TypeOK, States, Results, Files, Latest
<1>2. decisions' = decisions /\ Latest(j)' = Latest(j)
  BY DEF Latest
<1>3. result' \in [Jobs -> Results] /\ file' \in [Jobs -> Files]
  BY <1>1 DEF Results
<1>4. /\ file'[j] = f
      /\ result'[j].done => result'[j] = result[j]
      /\ result[j].done \/ ~result'[j].done
  BY <1>1 DEF Results
<1>5. \A k \in 1..Latest(j) : decisions[j][k] # "applied" /\ Cover(j, k) => Cover(j, k)'
  <2>1. TAKE k \in 1..Latest(j)
  <2>2. HAVE decisions[j][k] # "applied" /\ Cover(j, k)
  <2>3. k = Latest(j)
    BY <1>1, <2>2 DEF JobInv
  <2>4. file[j].status \in {"queued", "processing", "error", "checking"}
    BY <2>2 DEF Cover
  <2> QED
    BY <1>4, <2>3, <2>4 DEF Cover
<1>6. JobInv(j)'
  BY <1>1, <1>2, <1>4, <1>5 DEF JobInv
<1>7. \A k \in 1..Latest(j) : decisions'[j][k] = "pending" =>
          decisions[j][k] = "pending" /\ (Cover(j, k) => Cover(j, k)')
  BY <1>2, <1>5
<1>8. \A i \in Jobs \ {j} :
          decisions'[i] = decisions[i] /\ result'[i] = result[i] /\ file'[i] = file[i]
  BY <1>1, <1>2
<1> QED
  BY <1>1, <1>2, <1>3, <1>6, <1>7, <1>8, JobStep

LEMMA AnalysisKeeps ==
    ASSUME OutboxInv, NEW j \in Jobs,
           Restart(j) \/ Begin(j) \/ Yield(j) \/ Load(j) \/ Finish(j) \/ Fail(j)
    PROVE  OutboxInv'
<1>1. /\ file \in [Jobs -> Files] /\ result \in [Jobs -> Results]
      /\ starting \subseteq Jobs /\ faults \in 0..MaxFaults /\ JobInv(j)
      /\ Latest(j) \in Revisions
  BY OutboxAssumption DEF OutboxInv, TypeOK, Results, Files, Latest, Revisions
<1>2. 0 \in Revisions
  BY OutboxAssumption DEF Revisions
<1>3. result' = [result EXCEPT ![j].done = FALSE] => ~result'[j].done
  BY <1>1 DEF Results
<1>4. CASE Restart(j)
  <2> DEFINE f == [status |-> "queued", request |-> 0, uses |-> 0]
  <2>1. f \in Files
    BY <1>2 DEF Files, Active
  <2> QED
    BY <1>1, <1>4, <2>1, FileStep DEF Restart, WriteQueued
<1>5. CASE Begin(j)
  <2> DEFINE f == [file[j] EXCEPT !.status = "processing", !.request = 0]
  <2>1. f \in Files /\ f.request = 0 /\ f.status = "processing"
    BY <1>1, <1>2 DEF Files, Active
  <2>2. file' = [file EXCEPT ![j] = f]
    BY <1>1, <1>5 DEF Begin, Files
  <2>3. /\ result' = [result EXCEPT ![j].done = FALSE]
        /\ UNCHANGED <<decisions, resting, starting, dispatcher, faults>>
        /\ ~result'[j].done
    BY <1>3, <1>5 DEF Begin, StoreQueued
  <2>4. starting' \subseteq Jobs /\ faults' \in 0..MaxFaults
    BY <1>1, <2>3
  <2>5. ~(f.request > 0) /\ f.status # "checking"
    BY <2>1
  <2> HIDE DEF f
  <2> QED
    BY <2>1, <2>2, <2>3, <2>4, <2>5, FileStep
<1>6. CASE Yield(j)
  <2> DEFINE f == [status |-> "queued", request |-> 0, uses |-> 0]
  <2>1. f \in Files
    BY <1>2 DEF Files, Active
  <2>2. faults' \in 0..MaxFaults
    BY <1>1, <1>6, OutboxAssumption DEF Yield
  <2> QED
    BY <1>1, <1>6, <2>1, <2>2, FileStep DEF Yield, WriteQueued
<1>7. CASE Load(j)
  <2> DEFINE f == [file[j] EXCEPT !.status = "checking", !.uses = Latest(j)]
  <2>1. f \in Files /\ f.request = file[j].request /\ f.status = "checking" /\ f.uses = Latest(j)
    BY <1>1 DEF Files, Active
  <2>2. file' = [file EXCEPT ![j] = f]
    BY <1>1, <1>7 DEF Load, Files
  <2>3. file[j].status = "processing" /\ ~result[j].done /\ ~(file[j].request > 0)
    BY <1>1, <1>7 DEF Load, JobInv
  <2> QED
    BY <1>1, <1>7, <2>1, <2>2, <2>3, FileStep DEF Load
<1>8. CASE Finish(j)
  <2> DEFINE f == [file[j] EXCEPT !.status = "done", !.uses = 0]
  <2>1. f \in Files /\ f.request = file[j].request /\ f.status = "done"
    BY <1>1, <1>2 DEF Files, Active
  <2>2. file' = [file EXCEPT ![j] = f]
    BY <1>1, <1>8 DEF Finish, Files
  <2>3. file[j].status = "committed" /\ ~(file[j].request > 0)
    BY <1>1, <1>8 DEF Finish, JobInv
  <2> QED
    BY <1>1, <1>8, <2>1, <2>2, <2>3, FileStep DEF Finish
<1>9. CASE Fail(j)
  <2> DEFINE f == [status |-> "error", request |-> 0, uses |-> 0]
  <2>1. f \in Files
    BY <1>2 DEF Files, Active
  <2>2. faults' \in 0..MaxFaults
    BY <1>1, <1>9, OutboxAssumption DEF Fail
  <2>3. /\ file' = [file EXCEPT ![j] = f] /\ f.request = 0 /\ f.status = "error"
        /\ result' = [result EXCEPT ![j].done = FALSE]
        /\ UNCHANGED <<decisions, resting, starting, dispatcher>>
        /\ ~result'[j].done
    BY <1>3, <1>9 DEF Fail, StoreQueued
  <2>4. starting' \subseteq Jobs
    BY <1>1, <2>3
  <2>5. ~(f.request > 0) /\ f.status # "checking"
    BY <2>3
  <2> HIDE DEF f
  <2> QED
    BY <2>1, <2>2, <2>3, <2>4, <2>5, FileStep
<1> QED
  BY <1>4, <1>5, <1>6, <1>7, <1>8, <1>9

LEMMA RestartStoredKeeps ==
    ASSUME OutboxInv, NEW j \in Jobs, RestartStored(j) PROVE OutboxInv'
<1>1. /\ file \in [Jobs -> Files] /\ result \in [Jobs -> Results]
      /\ starting \subseteq Jobs /\ faults \in 0..MaxFaults /\ JobInv(j)
      /\ file[j] \in Files
  BY DEF OutboxInv, TypeOK, Results, Files
<1>2. /\ file' = [file EXCEPT ![j] = file[j]]
      /\ result' = [result EXCEPT ![j].done = FALSE]
      /\ starting' \subseteq Jobs /\ UNCHANGED <<decisions, resting, dispatcher, faults>>
  BY <1>1 DEF RestartStored, StoreQueued
<1>3. ~result'[j].done
  BY <1>1, <1>2 DEF Results
<1>4. file[j].request > 0 => file[j].status = "queued"
  BY <1>1 DEF JobInv
<1>5. file[j].status = "checking" => file[j].uses = Latest(j)
  BY <1>1 DEF JobInv
<1> QED
  BY <1>1, <1>2, <1>3, <1>4, <1>5, FileStep

\* What Commit does to the decisions and the row: it uses the latest decision.
LEMMA Committed ==
    ASSUME OutboxInv, NEW j \in Jobs, Commit(j)
    PROVE  /\ decisions' \in [Jobs -> Seq(States)] /\ Latest(j)' = Latest(j)
           /\ \A i \in Jobs \ {j} : decisions'[i] = decisions[i]
           /\ \A k \in 1..Latest(j) :
                decisions'[j][k] = "applied" /\ (k # Latest(j) => decisions[j][k] = "applied")
           /\ result' = [result EXCEPT ![j] = [done |-> TRUE, has |-> Latest(j)]]
<1>1. /\ decisions \in [Jobs -> Seq(States)] /\ result \in [Jobs -> Results]
      /\ file \in [Jobs -> Files] /\ starting \subseteq Jobs /\ faults \in 0..MaxFaults
      /\ JobInv(j) /\ Latest(j) \in Nat /\ Latest(j) <= MaxRevision
  BY DEF OutboxInv, TypeOK, States, Results, Files, Latest
<1>2. file[j].status = "checking" /\ file[j].uses = Latest(j) /\ ~(file[j].request > 0)
  BY <1>1 DEF Commit, JobInv
<1>3. /\ result' = [result EXCEPT ![j] = [done |-> TRUE, has |-> Latest(j)]]
      /\ decisions' = IF Latest(j) = 0 THEN decisions
                       ELSE [decisions EXCEPT ![j][Latest(j)] = "applied"]
      /\ file' = [file EXCEPT ![j].status = "committed"]
      /\ UNCHANGED <<resting, starting, dispatcher, faults>>
  BY <1>2 DEF Commit
<1>4. decisions' \in [Jobs -> Seq(States)] /\ Latest(j)' = Latest(j)
  <2>1. CASE Latest(j) = 0
    BY <1>1, <1>3, <2>1 DEF Latest
  <2>2. CASE Latest(j) > 0
    <3> DEFINE s == [decisions[j] EXCEPT ![Latest(j)] = "applied"]
    <3>1. decisions' = [decisions EXCEPT ![j] = s]
      BY <1>1, <1>3, <2>2
    <3>2. decisions[j] \in Seq(States) /\ Latest(j) \in 1..Len(decisions[j])
      BY <1>1, <2>2 DEF Latest
    <3>3. s \in Seq(States) /\ Len(s) = Len(decisions[j])
      BY <3>2 DEF States
    <3> QED
      BY <1>1, <3>1, <3>3 DEF Latest
  <2> QED
    BY <1>1, <2>1, <2>2
<1>5. \A k \in 1..Latest(j) :
          decisions'[j][k] = "applied" /\ (k # Latest(j) => decisions[j][k] = "applied")
  <2>1. TAKE k \in 1..Latest(j)
  <2>2. k # Latest(j) => decisions[j][k] = "applied"
    BY <1>1 DEF JobInv
  <2>3. decisions' = [decisions EXCEPT ![j] = [@ EXCEPT ![Latest(j)] = "applied"]]
    BY <1>1, <1>3
  <2>4. decisions[j] \in Seq(States) /\ k \in DOMAIN decisions[j]
    BY <1>1 DEF Latest
  <2> QED
    BY <1>1, <2>2, <2>3, <2>4
<1>6. \A i \in Jobs \ {j} : decisions'[i] = decisions[i]
  BY <1>1, <1>3
<1> QED
  BY <1>3, <1>4, <1>5, <1>6

LEMMA CommitKeeps ==
    ASSUME OutboxInv, NEW j \in Jobs, Commit(j) PROVE OutboxInv'
<1>1. /\ result \in [Jobs -> Results] /\ file \in [Jobs -> Files]
      /\ starting \subseteq Jobs /\ faults \in 0..MaxFaults
      /\ JobInv(j) /\ Latest(j) \in Nat /\ Latest(j) <= MaxRevision
  BY DEF OutboxInv, TypeOK, Results, Files, Latest
<1>2. file[j].status = "checking" /\ ~(file[j].request > 0)
  BY <1>1 DEF Commit, JobInv
<1>3. /\ result' = [result EXCEPT ![j] = [done |-> TRUE, has |-> Latest(j)]]
      /\ file' = [file EXCEPT ![j].status = "committed"]
      /\ UNCHANGED <<resting, starting, dispatcher, faults>>
  BY Committed DEF Commit
<1>4. /\ decisions' \in [Jobs -> Seq(States)] /\ Latest(j)' = Latest(j)
      /\ \A i \in Jobs \ {j} : decisions'[i] = decisions[i]
  BY Committed
<1>5. \A k \in 1..Latest(j) : decisions'[j][k] = "applied"
  BY Committed
<1>6. result' \in [Jobs -> Results] /\ result'[j] = [done |-> TRUE, has |-> Latest(j)]
  BY <1>1, <1>3, OutboxAssumption DEF Results, Revisions
<1>7. /\ file' \in [Jobs -> Files] /\ file'[j].status = "committed"
      /\ file'[j].request = file[j].request
  BY <1>1, <1>3 DEF Files, Active
<1>8. JobInv(j)'
  BY <1>2, <1>4, <1>5, <1>6, <1>7 DEF JobInv
<1>9. \A i \in Jobs \ {j} :
          decisions'[i] = decisions[i] /\ result'[i] = result[i] /\ file'[i] = file[i]
  BY <1>1, <1>3, <1>4
<1>10. \A k \in 1..Latest(j) : decisions'[j][k] # "pending"
  BY <1>5
<1>11. Latest(j) <= Latest(j)' /\ Latest(j)' <= MaxRevision
  BY <1>1, <1>4
<1>12. UNCHANGED <<resting, dispatcher>> /\ starting' \subseteq Jobs /\ faults' \in 0..MaxFaults
  BY <1>1, <1>3
<1> QED
  BY <1>4, <1>6, <1>7, <1>8, <1>9, <1>10, <1>11, <1>12, JobStep

-----------------------------------------------------------------------------
(* The dispatchers.                                                        *)

\* What every step of a dispatcher starts from.
LEMMA DispatcherFacts ==
    ASSUME OutboxInv, NEW d \in Dispatchers
    PROVE  /\ dispatcher \in [Dispatchers -> Records]
           /\ dispatcher[d] \in Records
           /\ dispatcher[d].at \in AtRow <=> dispatcher[d].row # None
           /\ RecordInv(dispatcher[d])
           /\ resting \subseteq {row \in Decisions : row[2] <= Latest(row[1])}
           /\ faults \in 0..MaxFaults
BY DEF OutboxInv, TypeOK, Records

\* What is known of the row and of the job the dispatcher d is at.
LEMMA RowFacts ==
    ASSUME OutboxInv, NEW d \in Dispatchers, dispatcher[d].at \in AtRow
    PROVE  LET row == dispatcher[d].row IN
           /\ row \in Decisions /\ row # None
           /\ row[1] \in Jobs /\ row[2] \in 1..Latest(row[1])
           /\ row[2] \in Revisions /\ row[2] > 0
           /\ JobInv(row[1])
           /\ \A e \in Dispatchers \ {d} : ~HoldsLock(e, row[1])
<1> DEFINE row == dispatcher[d].row
<1>1. row \in Decisions /\ row # None /\ RecordInv(dispatcher[d])
  BY DispatcherFacts DEF Records
<1>2. row[1] \in Jobs /\ row[2] \in 1..MaxRevision
  BY <1>1 DEF Decisions
<1>3. row[2] \in 1..Latest(row[1])
  <2>1. Latest(row[1]) \in Nat
    BY <1>2 DEF OutboxInv, TypeOK, Latest
  <2> QED
    BY <1>1, <1>2, <2>1, OutboxAssumption DEF RecordInv
<1>4. row[2] \in Revisions /\ row[2] > 0
  BY <1>2, OutboxAssumption DEF Revisions
<1>5. JobInv(row[1])
  BY <1>2 DEF OutboxInv
<1>6. \A e \in Dispatchers \ {d} : ~HoldsLock(e, row[1])
  <2>1. HoldsLock(d, row[1])
    BY DEF HoldsLock
  <2> QED
    BY <1>2, <2>1 DEF OutboxInv, TypeOK
<1> QED
  BY <1>1, <1>2, <1>3, <1>4, <1>5, <1>6

\* The dispatcher d lets its row go.
LEMMA LetGo ==
    ASSUME OutboxInv, NEW d \in Dispatchers,
           UNCHANGED <<decisions, result, file, starting>>,
           resting' \subseteq {row \in Decisions : row[2] <= Latest(row[1])},
           faults' \in 0..MaxFaults,
           dispatcher[d].at # "idle",
           dispatcher' = NextRow(d)
    PROVE  OutboxInv'
<1> DEFINE r == [dispatcher[d] EXCEPT !.at = "rows", !.row = None]
<1>1. /\ r \in Records /\ r.at = "rows" /\ r.row = None
      /\ r.rows = dispatcher[d].rows /\ dispatcher' = [dispatcher EXCEPT ![d] = r]
  BY DispatcherFacts DEF Records, NextRow
<1>2. RecordInv(r)
  BY <1>1, DispatcherFacts DEF RecordInv, AtRow
<1>3. r.at \notin AtRow
  BY <1>1 DEF AtRow
<1> HIDE DEF r
<1> QED
  BY <1>1, <1>2, <1>3, DispatcherStep

LEMMA FetchKeeps ==
    ASSUME OutboxInv, NEW d \in Dispatchers, Fetch(d) PROVE OutboxInv'
<1> DEFINE r == [dispatcher[d] EXCEPT !.at = "rows", !.rows = Waiting \ resting]
<1>1. r \in Records /\ r.at = "rows" /\ r.row = dispatcher[d].row
  BY DispatcherFacts DEF Records, Waiting
<1>2. dispatcher' = [dispatcher EXCEPT ![d] = r] /\ Free > 0 /\ dispatcher[d].at = "idle"
  BY DispatcherFacts DEF Records, Fetch
<1>3. r.at \notin AtRow /\ dispatcher[d].at \notin AtRow
  BY <1>1, <1>2 DEF AtRow
<1>4. r.row = None
  BY <1>1, <1>3, DispatcherFacts
<1>5. RecordInv(r)
  <2>1. r.rows = Waiting \ resting
    BY DispatcherFacts DEF Records
  <2> QED
    BY <1>1, <1>3, <2>1 DEF RecordInv, Waiting, AtRow
<1>6. UNCHANGED <<decisions, result, file, starting, resting, faults>>
  BY DEF Fetch
<1> HIDE DEF r
<1> QED
  BY <1>1, <1>2, <1>3, <1>4, <1>5, <1>6, DispatcherFacts, DispatcherStep

LEMMA TakeKeeps ==
    ASSUME OutboxInv, NEW d \in Dispatchers, NEW row \in Decisions, Take(d, row)
    PROVE  OutboxInv'
<1> DEFINE s == [dispatcher[d] EXCEPT !.at = "look", !.row = row, !.rows = @ \ {row}]
           n == [dispatcher[d] EXCEPT !.rows = @ \ {row}]
<1>1. /\ dispatcher[d].at = "rows" /\ row \in dispatcher[d].rows
      /\ UNCHANGED <<decisions, result, file, starting, resting, faults>>
  BY DEF Take
<1>2. row[2] <= Latest(row[1]) /\ row # None /\ row[1] \in Jobs
  BY <1>1, DispatcherFacts DEF RecordInv, Decisions, None
<1>3. CASE row[2] = Latest(row[1]) /\ \A e \in Dispatchers : ~HoldsLock(e, row[1])
  <2>1. /\ s \in Records /\ s.at = "look" /\ s.row = row
        /\ s.rows = dispatcher[d].rows \ {row}
    BY DispatcherFacts DEF Records, AtRow
  <2>2. dispatcher' = [dispatcher EXCEPT ![d] = s]
    BY <1>3, DispatcherFacts DEF Take, Records
  <2>3. RecordInv(s)
    BY <1>2, <2>1, DispatcherFacts DEF RecordInv
  <2>4. s.at \in AtRow
    BY <2>1 DEF AtRow
  <2> HIDE DEF s
  <2> QED
    BY <1>1, <1>2, <1>3, <2>1, <2>2, <2>3, <2>4, DispatcherFacts, DispatcherStep
<1>4. CASE ~(row[2] = Latest(row[1]) /\ \A e \in Dispatchers : ~HoldsLock(e, row[1]))
  <2>1. /\ n \in Records /\ n.at = "rows" /\ n.row = dispatcher[d].row
        /\ n.rows = dispatcher[d].rows \ {row}
    BY <1>1, DispatcherFacts DEF Records
  <2>2. dispatcher' = [dispatcher EXCEPT ![d] = n]
    BY <1>4, DispatcherFacts DEF Take, Records
  <2>3. RecordInv(n)
    BY <1>1, <2>1, DispatcherFacts DEF RecordInv, AtRow
  <2>4. n.at \notin AtRow /\ n.row = None
    BY <1>1, <2>1, DispatcherFacts DEF AtRow
  <2> HIDE DEF n
  <2> QED
    BY <1>1, <2>1, <2>2, <2>3, <2>4, DispatcherFacts, DispatcherStep
<1> QED
  BY <1>3, <1>4

LEMMA LookKeeps ==
    ASSUME OutboxInv, NEW d \in Dispatchers, Look(d) PROVE OutboxInv'
<1> DEFINE row == dispatcher[d].row
           f == file[row[1]]
<1>1. /\ dispatcher[d].at = "look" /\ dispatcher[d].at \in AtRow
      /\ UNCHANGED <<decisions, result, file, starting, resting, faults>>
  BY DEF Look, AtRow
<1>2. ASSUME NEW a \in {"start", "mark"}, a = "mark" => f.request = row[2],
             dispatcher' = [dispatcher EXCEPT ![d].at = a]
      PROVE  OutboxInv'
  <2> DEFINE r == [dispatcher[d] EXCEPT !.at = a]
  <2>1. /\ r \in Records /\ r.at = a /\ r.row = row /\ r.rows = dispatcher[d].rows
        /\ dispatcher' = [dispatcher EXCEPT ![d] = r] /\ r.at \in AtRow
    BY <1>2, DispatcherFacts DEF Records, AtRow
  <2>2. a = "mark" => Cover(row[1], row[2])
    BY <1>1, <1>2, RowFacts DEF JobInv, Cover
  <2>3. RecordInv(r)
    BY <1>1, <1>2, <2>1, <2>2, DispatcherFacts DEF RecordInv
  <2>4. r.row # None /\ \A e \in Dispatchers \ {d} : ~HoldsLock(e, r.row[1])
    BY <1>1, <2>1, RowFacts
  <2>5. dispatcher[d].at # "idle"
    BY <1>1
  <2> HIDE DEF r
  <2> QED
    BY <1>1, <2>1, <2>3, <2>4, <2>5, DispatcherFacts, DispatcherStep
<1>3. CASE f.status \notin Active
  BY <1>2, <1>3 DEF Look
<1>4. CASE f.status \in Active /\ f.request = row[2]
  BY <1>2, <1>4 DEF Look
<1>5. CASE f.status \in Active /\ f.request # row[2]
  <2>1. dispatcher' = NextRow(d)
    BY <1>5 DEF Look
  <2> QED
    BY <1>1, <2>1, DispatcherFacts, LetGo
<1> QED
  BY <1>3, <1>4, <1>5

LEMMA GiveUpKeeps ==
    ASSUME OutboxInv, NEW d \in Dispatchers, dispatcher[d].at \in AtRow, GiveUp(d),
           UNCHANGED <<decisions, result, file, starting>>, faults' \in 0..MaxFaults
    PROVE  OutboxInv'
<1>1. /\ dispatcher[d].row \in Decisions
      /\ dispatcher[d].row[2] <= Latest(dispatcher[d].row[1])
  BY RowFacts, DispatcherFacts DEF RecordInv
<1>2. dispatcher' = NextRow(d) /\ resting' = resting \cup {dispatcher[d].row}
  BY DEF GiveUp
<1>3. dispatcher[d].at # "idle"
  BY DEF AtRow
<1> QED
  BY <1>1, <1>2, <1>3, DispatcherFacts, LetGo

LEMMA StartKeeps ==
    ASSUME OutboxInv, NEW d \in Dispatchers, Start(d) PROVE OutboxInv'
<1>0. PICK row \in Decisions : row = dispatcher[d].row
  BY RowFacts DEF Start, AtRow
<1> DEFINE j == row[1]
           f == [status |-> "queued", request |-> row[2], uses |-> 0]
<1>1. /\ dispatcher[d].at = "start" /\ dispatcher[d].at \in AtRow
      /\ UNCHANGED <<decisions, result, starting, faults>>
  BY DEF Start, AtRow
<1>2. CASE file[j].status \in Active
  BY <1>0, <1>1, <1>2, DispatcherFacts, GiveUpKeeps DEF Start
<1>3. CASE file[j].status \notin Active
  <2>1. /\ file' = [file EXCEPT ![j] = f] /\ resting' = resting
        /\ dispatcher' = [dispatcher EXCEPT ![d].at = "announce"]
    BY <1>0, <1>3 DEF Start, WriteQueued
  <2>2. /\ decisions \in [Jobs -> Seq(States)] /\ result \in [Jobs -> Results]
        /\ file \in [Jobs -> Files]
    BY DEF OutboxInv, TypeOK, States, Results, Files
  <2>3. /\ row \in Decisions /\ j \in Jobs /\ row[2] \in 1..Latest(j) /\ JobInv(j)
        /\ row[2] \in Revisions /\ row[2] > 0 /\ row # None
    BY <1>0, <1>1, RowFacts
  <2>4. f \in Files
    BY <2>3, OutboxAssumption DEF Files, Active, Revisions
  <2>5. file' \in [Jobs -> Files] /\ file'[j] = f
    BY <2>1, <2>2, <2>3, <2>4
  <2>6. JobInv(j)'
    BY <1>1, <2>3, <2>5 DEF JobInv, Cover, Latest
  <2>7. PICK r \in Records :
          /\ r.at = "announce" /\ r.at \in AtRow /\ r.row = row
          /\ r.rows = dispatcher[d].rows /\ dispatcher' = [dispatcher EXCEPT ![d] = r]
    <3> DEFINE r == [dispatcher[d] EXCEPT !.at = "announce"]
    <3>1. /\ r \in Records /\ r.at = "announce" /\ r.at \in AtRow /\ r.row = row
          /\ r.rows = dispatcher[d].rows /\ dispatcher' = [dispatcher EXCEPT ![d] = r]
      BY <1>0, <2>1, DispatcherFacts DEF Records, AtRow
    <3> QED
      BY <3>1
  <2>8. RecordInv(r)'
    BY <1>1, <2>3, <2>5, <2>7, DispatcherFacts DEF RecordInv, Cover, Latest
  <2>9. \A i \in Jobs \ {j} :
            decisions'[i] = decisions[i] /\ result'[i] = result[i] /\ file'[i] = file[i]
    BY <1>1, <2>1, <2>2
  <2>11. Latest(j)' = Latest(j)
    BY <1>1 DEF Latest
  <2>12. \A k \in 1..Latest(j) : decisions'[j][k] = "pending" =>
             decisions[j][k] = "pending" /\ (Cover(j, k) => Cover(j, k)')
    BY <1>1, <2>5 DEF Cover
  <2>13. UNCHANGED <<resting, starting, faults>>
    BY <1>1, <2>1
  <2>14. r.row # None /\ decisions' \in [Jobs -> Seq(States)] /\ result' \in [Jobs -> Results]
    BY <1>1, <2>2, <2>3, <2>7
  <2> HIDE DEF f, j
  <2> QED
    BY <1>0, <1>1, <2>3, <2>5, <2>6, <2>7, <2>8, <2>9, <2>11, <2>12, <2>13, <2>14, RowStep
<1> QED
  BY <1>2, <1>3

LEMMA AnnounceKeeps ==
    ASSUME OutboxInv, NEW d \in Dispatchers, Announce(d) PROVE OutboxInv'
<1>0. PICK row \in Decisions : row = dispatcher[d].row
  BY RowFacts DEF Announce, AtRow
<1> DEFINE j == row[1]
<1>1. /\ dispatcher[d].at = "announce" /\ dispatcher[d].at \in AtRow
      /\ result' = [result EXCEPT ![j].done = FALSE]
      /\ dispatcher' = [dispatcher EXCEPT ![d].at = "mark"]
      /\ UNCHANGED <<decisions, resting, file, starting, faults>>
  BY <1>0 DEF Announce, AtRow, StoreQueued
<1>2. /\ decisions \in [Jobs -> Seq(States)] /\ result \in [Jobs -> Results]
      /\ file \in [Jobs -> Files]
  BY DEF OutboxInv, TypeOK, States, Results, Files
<1>3. /\ row \in Decisions /\ j \in Jobs /\ row[2] \in 1..Latest(j) /\ JobInv(j)
      /\ row # None
  BY <1>0, <1>1, RowFacts
<1>4. result' \in [Jobs -> Results] /\ ~result'[j].done
  BY <1>1, <1>2, <1>3 DEF Results
<1>5. JobInv(j)'
  BY <1>1, <1>3, <1>4 DEF JobInv, Cover, Latest
<1>6. PICK r \in Records :
        /\ r.at = "mark" /\ r.at \in AtRow /\ r.row = row /\ r.row # None
        /\ r.rows = dispatcher[d].rows /\ dispatcher' = [dispatcher EXCEPT ![d] = r]
  <2> DEFINE r == [dispatcher[d] EXCEPT !.at = "mark"]
  <2>1. /\ r \in Records /\ r.at = "mark" /\ r.at \in AtRow /\ r.row = row /\ r.row # None
        /\ r.rows = dispatcher[d].rows /\ dispatcher' = [dispatcher EXCEPT ![d] = r]
    BY <1>0, <1>1, <1>3, DispatcherFacts DEF Records, AtRow
  <2> QED
    BY <2>1
<1>7. RecordInv(r)'
  <2>1. RecordInv(r)
    BY <1>0, <1>1, <1>6, DispatcherFacts DEF RecordInv
  <2> QED
    BY <1>1, <2>1 DEF RecordInv, Cover, Latest, Status
<1>8. \A i \in Jobs \ {j} :
          decisions'[i] = decisions[i] /\ result'[i] = result[i] /\ file'[i] = file[i]
  BY <1>1, <1>2
<1>9. Latest(j)' = Latest(j)
  BY <1>1 DEF Latest
<1>10. \A k \in 1..Latest(j) : decisions'[j][k] = "pending" =>
           decisions[j][k] = "pending" /\ (Cover(j, k) => Cover(j, k)')
  BY <1>1 DEF Cover
<1>11. /\ UNCHANGED <<resting, starting, faults>>
       /\ decisions' \in [Jobs -> Seq(States)] /\ file' \in [Jobs -> Files]
  BY <1>1, <1>2
<1> HIDE DEF j
<1> QED
  BY <1>0, <1>1, <1>3, <1>4, <1>5, <1>6, <1>7, <1>8, <1>9, <1>10, <1>11, RowStep

\* What Mark does to the decisions.
LEMMA Marked ==
    ASSUME OutboxInv, NEW d \in Dispatchers, Mark(d),
           NEW row \in Decisions, row = dispatcher[d].row
    PROVE  LET j == row[1] IN
           /\ decisions' \in [Jobs -> Seq(States)]
           /\ Latest(j)' = Latest(j)
           /\ \A i \in Jobs \ {j} : decisions'[i] = decisions[i]
           /\ \A k \in 1..Latest(j) :
                decisions'[j][k] = IF k = row[2] /\ decisions[j][k] = "pending"
                                   THEN "queued" ELSE decisions[j][k]
<1> DEFINE j == row[1]
           v == IF decisions[j][row[2]] = "pending" THEN "queued" ELSE decisions[j][row[2]]
           s == [decisions[j] EXCEPT ![row[2]] = v]
<1>1. dispatcher[d].at \in AtRow
  BY DEF Mark, AtRow
<1>2. decisions \in [Jobs -> Seq(States)] /\ j \in Jobs /\ row[2] \in 1..Latest(j)
  BY <1>1, RowFacts DEF OutboxInv, TypeOK, States
<1>3. decisions' = [decisions EXCEPT ![j] = s]
  BY <1>2 DEF Mark
<1>4. /\ decisions[j] \in Seq(States) /\ row[2] \in 1..Len(decisions[j])
      /\ \A k \in 1..Latest(j) : decisions[j][k] \in States
  BY <1>2 DEF Latest
<1>5. v \in States
  BY <1>2, <1>4 DEF States
<1> HIDE DEF v
<1>6. s \in Seq(States) /\ Len(s) = Len(decisions[j])
  BY <1>4, <1>5
<1>7. \A k \in 1..Latest(j) : s[k] = IF k = row[2] THEN v ELSE decisions[j][k]
  BY <1>4 DEF Latest
<1>8. decisions'[j] = s
  BY <1>2, <1>3
<1>9. decisions' \in [Jobs -> Seq(States)] /\ \A i \in Jobs \ {j} : decisions'[i] = decisions[i]
  BY <1>2, <1>3, <1>6
<1> QED
  BY <1>6, <1>7, <1>8, <1>9 DEF v, Latest

LEMMA MarkKeeps ==
    ASSUME OutboxInv, NEW d \in Dispatchers, Mark(d) PROVE OutboxInv'
<1>0. PICK row \in Decisions : row = dispatcher[d].row
  BY RowFacts DEF Mark, AtRow
<1> DEFINE j == row[1]
<1>1. /\ dispatcher[d].at = "mark" /\ dispatcher[d].at \in AtRow
      /\ UNCHANGED <<resting, result, file, starting, faults>>
  BY DEF Mark, AtRow
<1>2. /\ result \in [Jobs -> Results] /\ file \in [Jobs -> Files]
  BY DEF OutboxInv, TypeOK, Results, Files
<1>3. /\ row \in Decisions /\ j \in Jobs /\ row[2] \in 1..Latest(j) /\ JobInv(j)
  BY <1>0, <1>1, RowFacts
<1>4. /\ decisions' \in [Jobs -> Seq(States)]
      /\ Latest(j)' = Latest(j)
      /\ \A i \in Jobs \ {j} : decisions'[i] = decisions[i]
      /\ \A k \in 1..Latest(j) :
           decisions'[j][k] = IF k = row[2] /\ decisions[j][k] = "pending"
                              THEN "queued" ELSE decisions[j][k]
  BY <1>0, Marked
<1>5. decisions[j][row[2]] = "pending" => Cover(j, row[2])
  BY <1>0, <1>1, DispatcherFacts DEF RecordInv, Status
<1>6. JobInv(j)'
  BY <1>1, <1>3, <1>4, <1>5 DEF JobInv, Cover
<1>7. PICK r \in Records :
        /\ r.at = "rows" /\ r.at \notin AtRow /\ r.row = None
        /\ r.rows = dispatcher[d].rows /\ dispatcher' = [dispatcher EXCEPT ![d] = r]
  <2> DEFINE r == [dispatcher[d] EXCEPT !.at = "rows", !.row = None]
  <2>1. /\ r \in Records /\ r.at = "rows" /\ r.at \notin AtRow /\ r.row = None
        /\ r.rows = dispatcher[d].rows /\ dispatcher' = [dispatcher EXCEPT ![d] = r]
    BY DispatcherFacts DEF Mark, NextRow, Records, AtRow
  <2> QED
    BY <2>1
<1>8. \A i \in Jobs : Latest(i)' = Latest(i)
  BY <1>4 DEF Latest
<1>9. RecordInv(r)'
  <2>1. \A x \in r.rows : x[1] \in Jobs /\ x[2] <= Latest(x[1])
    BY <1>7, DispatcherFacts DEF RecordInv, Records, Decisions
  <2> QED
    BY <1>7, <1>8, <2>1 DEF RecordInv, AtRow
<1>10. \A i \in Jobs \ {j} :
           decisions'[i] = decisions[i] /\ result'[i] = result[i] /\ file'[i] = file[i]
  BY <1>1, <1>4
<1>11. \A k \in 1..Latest(j) : decisions'[j][k] = "pending" =>
           decisions[j][k] = "pending" /\ (Cover(j, k) => Cover(j, k)')
  BY <1>1, <1>4 DEF Cover
<1>12. UNCHANGED <<resting, starting, faults>> /\ result' \in [Jobs -> Results]
       /\ file' \in [Jobs -> Files]
  BY <1>1, <1>2
<1> HIDE DEF j
<1> QED
  BY <1>0, <1>1, <1>3, <1>4, <1>6, <1>7, <1>9, <1>10, <1>11, <1>12, RowStep

LEMMA OthersKeep ==
    ASSUME OutboxInv, NEW d \in Dispatchers, StartFails(d) \/ EndOfRows(d) \/ Crash(d)
    PROVE  OutboxInv'
<1>1. CASE StartFails(d)
  <2>1. dispatcher[d].at \in AtRow
    BY <1>1 DEF StartFails, AtRow
  <2>2. faults' \in 0..MaxFaults
    BY <1>1, DispatcherFacts, OutboxAssumption DEF StartFails
  <2>3. GiveUp(d) /\ UNCHANGED <<decisions, result, file, starting>>
    BY <1>1 DEF StartFails
  <2> QED
    BY <2>1, <2>2, <2>3, GiveUpKeeps
<1>2. CASE EndOfRows(d)
  <2> DEFINE r == [dispatcher[d] EXCEPT !.at = "idle"]
  <2>1. /\ r \in Records /\ r.at = "idle" /\ r.row = dispatcher[d].row
        /\ r.rows = dispatcher[d].rows /\ dispatcher' = [dispatcher EXCEPT ![d] = r]
    BY <1>2, DispatcherFacts DEF Records, EndOfRows
  <2>2. r.at \notin AtRow /\ r.row = None
    BY <1>2, <2>1, DispatcherFacts DEF AtRow, EndOfRows
  <2>3. RecordInv(r)
    BY <2>1, <2>2, DispatcherFacts DEF RecordInv, AtRow
  <2>4. UNCHANGED <<decisions, resting, result, file, starting, faults>>
    BY <1>2 DEF EndOfRows
  <2> HIDE DEF r
  <2> QED
    BY <2>1, <2>2, <2>3, <2>4, DispatcherFacts, DispatcherStep
<1>3. CASE Crash(d)
  <2> DEFINE r == [at |-> "idle", rows |-> {}, row |-> None]
  <2>1. r \in Records /\ r.at = "idle" /\ r.at \notin AtRow /\ r.row = None /\ RecordInv(r)
    BY DEF Records, RecordInv, AtRow
  <2>2. faults' \in 0..MaxFaults
    BY <1>3, DispatcherFacts, OutboxAssumption DEF Crash
  <2>3. /\ dispatcher' = [dispatcher EXCEPT ![d] = r]
        /\ UNCHANGED <<decisions, resting, result, file, starting>>
    BY <1>3 DEF Crash
  <2> HIDE DEF r
  <2> QED
    BY <2>1, <2>2, <2>3, DispatcherFacts, DispatcherStep
<1> QED
  BY <1>1, <1>2, <1>3

LEMMA DueKeeps ==
    ASSUME OutboxInv, NEW row \in Decisions, Due(row) PROVE OutboxInv'
BY DEF Due, OutboxInv, TypeOK, JobInv, RecordInv, Cover, Latest, Status, HoldsLock, Free

-----------------------------------------------------------------------------
(* The invariant and what follows from it.                                 *)

LEMMA InvInit == Init => OutboxInv
<1> SUFFICES ASSUME Init PROVE OutboxInv
  OBVIOUS
<1>1. /\ decisions \in [Jobs -> Seq(States)] /\ \A j \in Jobs : Latest(j) = 0
      /\ resting = {} /\ starting = {} /\ faults \in 0..MaxFaults
  BY OutboxAssumption DEF Init, Latest, States
<1>2. result \in [Jobs -> Results] /\ file \in [Jobs -> Files]
  BY OutboxAssumption DEF Init, Results, Files, Revisions, Active
<1>3. /\ dispatcher \in [Dispatchers -> Records]
      /\ \A d \in Dispatchers : dispatcher[d].at = "idle" /\ dispatcher[d].row = None
                                /\ dispatcher[d].rows = {}
  BY DEF Init, Records
<1>4. Free >= 0
  <2>1. {d \in Dispatchers : dispatcher[d].at # "idle"} = {}
    BY <1>3
  <2> QED
    BY <2>1, FS_EmptySet, OutboxAssumption DEF Free
<1>5. TypeOK
  <2>1. \A d \in Dispatchers : dispatcher[d].at \notin AtRow
    BY <1>3 DEF AtRow
  <2>2. \A j \in Jobs : Latest(j) <= MaxRevision
    BY <1>1, OutboxAssumption
  <2> QED
    BY <1>1, <1>2, <1>3, <1>4, <2>1, <2>2 DEF TypeOK, States, Results, Files, Records, HoldsLock
<1>6. \A j \in Jobs : JobInv(j)
  BY <1>1 DEF Init, JobInv
<1>7. \A d \in Dispatchers : RecordInv(dispatcher[d])
  BY <1>3 DEF RecordInv, AtRow
<1> QED
  BY <1>5, <1>6, <1>7 DEF OutboxInv

LEMMA InvNext == OutboxInv /\ [Next]_vars => OutboxInv'
<1> SUFFICES ASSUME OutboxInv, [Next]_vars PROVE OutboxInv'
  OBVIOUS
<1>1. ASSUME NEW j \in Jobs, Confirm(j) \/ Restart(j) \/ RestartStored(j)
      PROVE  OutboxInv'
  BY <1>1, ConfirmKeeps, AnalysisKeeps, RestartStoredKeeps
<1>2. ASSUME NEW j \in Jobs, Pipeline(j) \/ Yield(j) \/ Fail(j)
      PROVE  OutboxInv'
  BY <1>2, AnalysisKeeps, CommitKeeps DEF Pipeline
<1>3. ASSUME NEW d \in Dispatchers, Fetch(d) \/ Work(d) \/ StartFails(d) \/ Crash(d)
      PROVE  OutboxInv'
  BY <1>3, FetchKeeps, LookKeeps, StartKeeps, AnnounceKeeps, MarkKeeps, TakeKeeps, OthersKeep
     DEF Work
<1>4. ASSUME NEW row \in Decisions, Due(row) PROVE OutboxInv'
  BY <1>4, DueKeeps
<1>5. CASE UNCHANGED vars
  BY <1>5 DEF vars, OutboxInv, TypeOK, JobInv, RecordInv, Cover, Latest, Status, HoldsLock, Free
<1> QED
  BY <1>1, <1>2, <1>3, <1>4, <1>5 DEF Next

LEMMA InvAlways == Spec => []OutboxInv
BY InvInit, InvNext, PTL DEF Spec

\* The types, the lock of a job with one holder at most, and no more
\* connections in use than the pool of the process has.
THEOREM TypeCorrect == Spec => []TypeOK
<1>1. OutboxInv => TypeOK
  BY DEF OutboxInv
<1> QED
  BY <1>1, InvAlways, PTL

\* An analysis that counts as complete was made with the latest decision, however
\* many dispatchers, users, rounds and failures there are.
THEOREM GateIsClosed == Spec => []GateClosed
<1>1. OutboxInv => GateClosed
  BY DEF OutboxInv, JobInv, GateClosed
<1> QED
  BY <1>1, InvAlways, PTL

\* A decision marked as queued has its analysis, or a failure that shows.
THEOREM AwaitedHolds == Spec => []Awaited
<1>1. OutboxInv => Awaited
  BY DEF OutboxInv, JobInv, Cover, Awaited
<1> QED
  BY <1>1, InvAlways, PTL

\* dispatch_status never goes back.
THEOREM NeverBack == Spec => StatusForward
<1> DEFINE Forward ==
      \A j \in Jobs : \A k \in 1..Latest(j) :
        /\ decisions[j][k] = "applied" => decisions'[j][k] = "applied"
        /\ decisions[j][k] = "queued" => decisions'[j][k] # "pending"
<1>1. ASSUME OutboxInv, [Next]_vars PROVE [Forward]_vars
  <2>1. decisions \in [Jobs -> Seq(States)]
    BY <1>1 DEF OutboxInv, TypeOK, States
  <2>2. CASE decisions' = decisions
    BY <2>2
  <2>3. ASSUME NEW j \in Jobs, Confirm(j) PROVE Forward
    <3>1. decisions' = [decisions EXCEPT ![j] = Append(decisions[j], "pending")]
      BY <2>3 DEF Confirm
    <3>2. \A i \in Jobs : \A k \in 1..Latest(i) : decisions'[i][k] = decisions[i][k]
      BY <2>1, <3>1 DEF Latest, States
    <3> QED
      BY <3>2
  <2>4. ASSUME NEW j \in Jobs, Commit(j) PROVE Forward
    <3>1. CASE file[j].uses = 0
      BY <2>2, <2>4, <3>1 DEF Commit
    <3>2. CASE file[j].uses # 0
      <4>1. decisions' = [decisions EXCEPT ![j] =
                             [decisions[j] EXCEPT ![file[j].uses] = "applied"]]
        BY <2>4, <3>2 DEF Commit
      <4>2. \A i \in Jobs : \A k \in 1..Latest(i) :
                decisions'[i][k] = decisions[i][k] \/ decisions'[i][k] = "applied"
        <5>1. TAKE i \in Jobs
        <5>2. TAKE k \in 1..Latest(i)
        <5>3. decisions[i] \in Seq(States) /\ k \in DOMAIN decisions[i]
          BY <2>1 DEF Latest
        <5> QED
          BY <2>1, <4>1, <5>3
      <4> QED
        BY <4>2
    <3> QED
      BY <3>1, <3>2
  <2>5. ASSUME NEW d \in Dispatchers, Mark(d) PROVE Forward
    <3>1. dispatcher[d].at \in AtRow
      BY <2>5 DEF Mark, AtRow
    <3>0. PICK row \in Decisions : row = dispatcher[d].row
      BY <1>1, <3>1, RowFacts
    <3>2. /\ \A i \in Jobs \ {row[1]} : decisions'[i] = decisions[i]
          /\ \A k \in 1..Latest(row[1]) : decisions'[row[1]][k] =
                 IF k = row[2] /\ decisions[row[1]][k] = "pending"
                 THEN "queued" ELSE decisions[row[1]][k]
      BY <1>1, <2>5, <3>0, Marked
    <3>3. SUFFICES ASSUME NEW j \in Jobs, NEW k \in 1..Latest(j)
                   PROVE  \/ decisions'[j][k] = decisions[j][k]
                          \/ decisions[j][k] = "pending" /\ decisions'[j][k] = "queued"
      OBVIOUS
    <3>4. CASE j = row[1]
      BY <3>2, <3>4
    <3>5. CASE j # row[1]
      BY <3>2, <3>5
    <3> QED
      BY <3>4, <3>5
  <2> QED
    BY <1>1, <2>2, <2>3, <2>4, <2>5
       DEF Next, vars, Pipeline, Work, Restart, RestartStored, Begin, Load, Finish, Yield, Fail,
           Fetch, Look, Start, Announce, EndOfRows, Take, StartFails, Crash, Due
<1> QED
  BY <1>1, InvAlways, PTL DEF Spec, StatusForward
-----------------------------------------------------------------------------
(* The refinement of ScopeGate.                                            *)

\* The mapping of the decisions that have taken effect.
Applied(j) == {k \in 1..Latest(j) : decisions[j][k] = "applied"}

GateStep == [Gate!Next]_(Gate!vars)

LEMMA GateInit == Init => Gate!Init
<1> SUFFICES ASSUME Init PROVE Gate!Init
  OBVIOUS
<1>1. \A j \in Jobs : Latest(j) = 0 /\ result[j] = [done |-> TRUE, has |-> 0]
  BY DEF Init, Latest
<1>2. \A j \in Jobs : Applied(j) = {}
  BY <1>1 DEF Applied
<1>3. [j \in Jobs |-> Applied(j)] = [j \in Jobs |-> {}]
  BY <1>2
<1>4. /\ [j \in Jobs |-> Latest(j)] = [j \in Jobs |-> 0]
      /\ [j \in Jobs |-> result[j].done] = [j \in Jobs |-> TRUE]
      /\ [j \in Jobs |-> result[j].has] = [j \in Jobs |-> 0]
  <2>1. \A j \in Jobs : result[j].done = TRUE /\ result[j].has = 0
    BY <1>1
  <2>2. [j \in Jobs |-> result[j].done] = [j \in Jobs |-> TRUE]
    BY <2>1, Zenon
  <2> QED
    BY <1>1, <2>1, <2>2
<1> QED
  BY <1>3, <1>4 DEF Gate!Init, Applied

\* A step that changes neither the decisions nor the row is not seen.
LEMMA Unseen == ASSUME UNCHANGED <<decisions, result>> PROVE GateStep
BY DEF GateStep, Gate!vars, Latest

LEMMA Reopens ==
    ASSUME OutboxInv, NEW j \in Jobs, StoreQueued(j), UNCHANGED decisions PROVE GateStep
<1>1. result \in [Jobs -> Results]
  BY DEF OutboxInv, TypeOK, Results
<1>2. /\ \A i \in Jobs : result'[i].done = IF i = j THEN FALSE ELSE result[i].done
      /\ \A i \in Jobs : result'[i].has = result[i].has
  BY <1>1 DEF StoreQueued, Results
<1>3. Gate!Reopen(j)
  BY <1>2 DEF Gate!Reopen, Latest
<1> QED
  BY <1>3 DEF GateStep, Gate!Next

LEMMA Decides ==
    ASSUME OutboxInv, NEW j \in Jobs, Confirm(j) PROVE GateStep
<1>1. decisions \in [Jobs -> Seq(States)] /\ result \in [Jobs -> Results]
  BY DEF OutboxInv, TypeOK, States, Results
<1>2. /\ decisions' = [decisions EXCEPT ![j] = Append(decisions[j], "pending")]
      /\ result' = [result EXCEPT ![j].done = FALSE] /\ result[j].done
  BY <1>1 DEF Confirm
<1>3. /\ \A i \in Jobs : result'[i].done = IF i = j THEN FALSE ELSE result[i].done
      /\ \A i \in Jobs : result'[i].has = result[i].has
  BY <1>1, <1>2 DEF Results
<1>4. \A i \in Jobs \ {j} : decisions'[i] = decisions[i]
  BY <1>1, <1>2
<1>5. /\ Latest(j) \in Nat /\ Latest(j)' = Latest(j) + 1
      /\ \A k \in 1..Latest(j) : decisions'[j][k] = decisions[j][k]
      /\ decisions'[j][Latest(j) + 1] = "pending"
  BY <1>1, <1>2 DEF Latest
<1>6. Applied(j)' = Applied(j)
  <2>1. 1..Latest(j)' = (1..Latest(j)) \cup {Latest(j)'}
    BY <1>5
  <2> QED
    BY <1>5, <2>1 DEF Applied
<1>7. \A i \in Jobs : /\ Latest(i)' = IF i = j THEN Latest(i) + 1 ELSE Latest(i)
                      /\ Applied(i)' = Applied(i)
  BY <1>4, <1>5, <1>6 DEF Latest, Applied
<1>8. Gate!Decide(j)
  BY <1>2, <1>3, <1>7 DEF Gate!Decide, Applied
<1> QED
  BY <1>8 DEF GateStep, Gate!Next

LEMMA Completes ==
    ASSUME OutboxInv, NEW j \in Jobs, Commit(j) PROVE GateStep
<1>1. result \in [Jobs -> Results] /\ JobInv(j) /\ Latest(j) \in Nat
  BY DEF OutboxInv, TypeOK, Results, Latest
<1>2. ~result[j].done
  BY <1>1 DEF Commit, JobInv
<1>3. \A i \in Jobs : result'[i] = IF i = j THEN [done |-> TRUE, has |-> Latest(j)] ELSE result[i]
  BY <1>1, Committed
<1>4. Applied(j)' = Applied(j) \cup ({Latest(j)} \ {0})
  <2>1. Applied(j)' = 1..Latest(j)
    BY Committed DEF Applied
  <2>2. \A k \in 1..Latest(j) : k # Latest(j) => k \in Applied(j)
    BY Committed DEF Applied
  <2>3. Latest(j) # 0 => Latest(j) \in 1..Latest(j)
    BY <1>1
  <2> QED
    BY <1>1, <2>1, <2>2, <2>3 DEF Applied
<1>5. \A i \in Jobs : /\ Latest(i)' = Latest(i)
                      /\ i # j => Applied(i)' = Applied(i)
  BY Committed DEF Latest, Applied
<1>6. [i \in Jobs |-> Applied(i)]' =
          [[i \in Jobs |-> Applied(i)] EXCEPT ![j] = Applied(j) \cup ({Latest(j)} \ {0})]
  BY <1>4, <1>5
<1>7. /\ ~[i \in Jobs |-> result[i].done][j]
      /\ [i \in Jobs |-> result[i].done]' = [[i \in Jobs |-> result[i].done] EXCEPT ![j] = TRUE]
      /\ [i \in Jobs |-> result[i].has]' =
             [[i \in Jobs |-> result[i].has] EXCEPT ![j] = [i \in Jobs |-> Latest(i)][j]]
      /\ UNCHANGED [i \in Jobs |-> Latest(i)]
  <2>1. ~[i \in Jobs |-> result[i].done][j]
    BY <1>2
  <2>2. /\ \A i \in Jobs \ {j} : result'[i].done = result[i].done
        /\ result'[j].done = TRUE
    BY <1>3
  <2>3. [i \in Jobs |-> result[i].done]' = [[i \in Jobs |-> result[i].done] EXCEPT ![j] = TRUE]
    BY <2>2
  <2>4. \A i \in Jobs : result'[i].has = IF i = j THEN Latest(j) ELSE result[i].has
    BY <1>3
  <2>5. [i \in Jobs |-> result[i].has]' =
             [[i \in Jobs |-> result[i].has] EXCEPT ![j] = [i \in Jobs |-> Latest(i)][j]]
    BY <2>4
  <2>6. UNCHANGED [i \in Jobs |-> Latest(i)]
    BY <1>5
  <2> QED
    BY <2>1, <2>3, <2>5, <2>6
<1>8. /\ [i \in Jobs |-> Applied(i)][j] = Applied(j)
      /\ [i \in Jobs |-> Latest(i)][j] = Latest(j)
  OBVIOUS
<1>9. Gate!Complete(j)
  BY <1>6, <1>7, <1>8 DEF Gate!Complete, Applied
<1> QED
  BY <1>9 DEF GateStep, Gate!Next

\* A mark, however late, leaves what is applied as it is.
LEMMA MarkUnseen ==
    ASSUME OutboxInv, NEW d \in Dispatchers, Mark(d) PROVE GateStep
<1>1. PICK row \in Decisions : row = dispatcher[d].row
  BY RowFacts DEF Mark, AtRow
<1>2. row[1] \in Jobs
  BY DEF Decisions
<1>3. \A i \in Jobs : Latest(i)' = Latest(i)
  BY <1>1, Marked DEF Latest
<1>4. \A i \in Jobs : Applied(i)' = Applied(i)
  <2>1. TAKE i \in Jobs
  <2>2. CASE i # row[1]
    BY <1>1, <1>3, <2>2, Marked DEF Applied
  <2>3. CASE i = row[1]
    <3>1. \A k \in 1..Latest(i) :
            decisions'[i][k] = "applied" <=> decisions[i][k] = "applied"
      BY <1>1, <2>3, Marked
    <3> QED
      BY <1>3, <3>1 DEF Applied
  <2> QED
    BY <2>2, <2>3
<1>5. result' = result
  BY DEF Mark
<1> QED
  BY <1>3, <1>4, <1>5 DEF GateStep, Gate!vars, Applied

LEMMA GateNext == OutboxInv /\ [Next]_vars => GateStep
<1> SUFFICES ASSUME OutboxInv, [Next]_vars PROVE GateStep
  OBVIOUS
<1>1. ASSUME NEW j \in Jobs, Confirm(j) \/ Restart(j) \/ RestartStored(j)
      PROVE  GateStep
  <2>1. CASE Confirm(j)
    BY <2>1, Decides
  <2>2. CASE Restart(j)
    BY <2>2, Unseen DEF Restart
  <2>3. CASE RestartStored(j)
    BY <2>3, Reopens DEF RestartStored
  <2> QED
    BY <1>1, <2>1, <2>2, <2>3
<1>2. ASSUME NEW j \in Jobs, Pipeline(j) \/ Yield(j) \/ Fail(j)
      PROVE  GateStep
  <2>1. CASE Begin(j) \/ Fail(j)
    BY <2>1, Reopens DEF Begin, Fail
  <2>2. CASE Load(j) \/ Finish(j) \/ Yield(j)
    BY <2>2, Unseen DEF Load, Finish, Yield
  <2>3. CASE Commit(j)
    BY <2>3, Completes
  <2> QED
    BY <1>2, <2>1, <2>2, <2>3 DEF Pipeline
<1>3. ASSUME NEW d \in Dispatchers, Fetch(d) \/ Work(d) \/ StartFails(d) \/ Crash(d)
      PROVE  GateStep
  <2>1. CASE Announce(d)
    <3>1. PICK row \in Decisions : row = dispatcher[d].row
      BY <2>1, RowFacts DEF Announce, AtRow
    <3>2. row[1] \in Jobs /\ StoreQueued(row[1]) /\ UNCHANGED decisions
      BY <2>1, <3>1 DEF Announce, Decisions
    <3> QED
      BY <3>2, Reopens
  <2>2. CASE Mark(d)
    BY <2>2, MarkUnseen
  <2>3. CASE Fetch(d) \/ Look(d) \/ Start(d) \/ EndOfRows(d) \/ StartFails(d) \/ Crash(d)
    BY <2>3, Unseen DEF Fetch, Look, Start, EndOfRows, StartFails, Crash
  <2>4. ASSUME NEW row \in Decisions, Take(d, row) PROVE GateStep
    BY <2>4, Unseen DEF Take
  <2> QED
    BY <1>3, <2>1, <2>2, <2>3, <2>4 DEF Work
<1>4. ASSUME NEW row \in Decisions, Due(row) PROVE GateStep
  BY <1>4, Unseen DEF Due
<1>5. CASE UNCHANGED vars
  BY <1>5, Unseen DEF vars
<1> QED
  BY <1>1, <1>2, <1>3, <1>4, <1>5 DEF Next

\* The outbox implements ScopeGate: whatever is delivered late, twice or by
\* several dispatchers, decisions take effect one after the other.
THEOREM OutboxKeepsGate == Spec => KeepsGate
<1>1. OutboxInv /\ [Next]_vars => [Gate!Next]_(Gate!vars)
  BY GateNext DEF GateStep
<1> QED
  BY <1>1, GateInit, InvAlways, PTL DEF Spec, KeepsGate, Gate!Spec

\* No decision is passed over: each but the latest has been applied.
THEOREM NonePassedOver ==
    Spec => [](\A j \in Jobs : \A k \in 1..Latest(j) : k < Latest(j) => k \in Applied(j))
<1>1. OutboxInv => \A j \in Jobs : \A k \in 1..Latest(j) : k < Latest(j) => k \in Applied(j)
  <2> SUFFICES ASSUME OutboxInv, NEW j \in Jobs, NEW k \in 1..Latest(j), k < Latest(j)
               PROVE  decisions[j][k] = "applied"
    BY DEF Applied
  <2>1. Latest(j) \in Nat /\ JobInv(j)
    BY DEF OutboxInv, TypeOK, Latest
  <2> QED
    BY <2>1 DEF JobInv
<1> QED
  BY <1>1, InvAlways, PTL
=============================================================================
