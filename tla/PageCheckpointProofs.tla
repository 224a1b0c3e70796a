------------------------ MODULE PageCheckpointProofs ------------------------
(***************************************************************************)
(* Theorems about PageCheckpoint, for any workers, any numbers of tiles,   *)
(* regions and pieces, and any bounds.                                     *)
(***************************************************************************)
EXTENDS PageCheckpoint, FiniteSetTheorems, WellFoundedInduction, TLAPS

-----------------------------------------------------------------------------
(* The inductive invariant.                                                *)

\* What is said of a page follows from its answers.
Proper(s) ==
    /\ s.plan.made => Missing(s) = {}
    /\ \A r \in 1..Regions :
        /\ s.region[r] = "exhausted" => Exhausted(s, r)
        /\ s.region[r] = "recovered" => Covered(s, r)
    /\ s.status # "pending" =>
        /\ s.plan.made
        /\ \A r \in s.plan.regions : Covered(s, r) \/ s.region[r] = "exhausted"
    /\ s.status = "completed" =>
        ~s.plan.unread /\ \A r \in s.plan.regions : Covered(s, r)

\* The memory s of a worker at work is ahead of the checkpoint f by recovered
\* regions only; of another view it is empty.
Ahead(s, f) ==
    IF s.view = f.view
    THEN /\ s.completed = f.completed
         /\ s.plan = f.plan
         /\ \A r \in 1..Regions : Settled(f, r) => s.region[r] = f.region[r]
    ELSE s = New(s.view)

PageInv ==
    /\ TypeOK
    /\ inside = {} \/ \E w \in Workers : inside = {w}
    /\ Proper(file)
    /\ \A w \in inside : Proper(mem[w]) /\ Ahead(mem[w], file)
    /\ \A w \in Workers :
        /\ judged[w] \subseteq mem[w].plan.regions
        /\ judged[w] # {} => w \in inside
    /\ \A w \in Workers : asking[w] # None =>
        w \in inside /\ mem[w].completed[asking[w]] = "none"

-----------------------------------------------------------------------------
(* Smallest elements, and what the helpers return.                         *)

LEMMA NatHasMinimum ==
    ASSUME NEW T, T \subseteq Nat, T # {}
    PROVE  \E x \in T : \A y \in T : x <= y
<1> DEFINE R == {p \in Nat \X Nat : p[1] < p[2]}
<1>1. IsWellFoundedOn(R, Nat)
  BY NatLessThanWellFounded DEF OpToRel
<1> HIDE DEF R
<1>2. \E x \in T : \A y \in T : ~(<<y, x>> \in R)
  BY <1>1, WFMin
<1>3. \A x, y \in Nat : ~(<<y, x>> \in R) => x <= y
  BY DEF R
<1> QED
  BY <1>2, <1>3

LEMMA ForemostIn ==
    ASSUME NEW i, NEW n \in Nat, NEW Q, Q \subseteq {i} \X (1..n), Q # {}
    PROVE  Foremost(Q) \in Q
<1> DEFINE T == {q[2] : q \in Q}
<1>1. T \subseteq Nat /\ T # {}
  OBVIOUS
<1> HIDE DEF T
<1>2. PICK x \in T : \A y \in T : x <= y
  BY <1>1, NatHasMinimum
<1>3. PICK q \in Q : q[2] = x
  BY DEF T
<1>4. \A k \in Q : k[2] \in T
  BY DEF T
<1>5. \A k \in Q : q[2] <= k[2]
  BY <1>2, <1>3, <1>4
<1> QED
  BY <1>5 DEF Foremost

LEMMA PlanType ==
    ASSUME NEW p \in Plans
    PROVE  /\ p.regions \subseteq 1..Regions
           /\ p.made \in BOOLEAN /\ p.unread \in BOOLEAN
           /\ ~p.made => p.regions = {}
<1>1. CASE p \in [regions : SUBSET (1..Regions), unread : BOOLEAN, made : {TRUE}]
  BY <1>1
<1>2. CASE p = Unplanned
  BY <1>2 DEF Unplanned
<1> QED
  BY <1>1, <1>2 DEF Plans

\* The region a worker is at is one of its plan that it has not judged.
LEMMA RegionIn ==
    ASSUME TypeOK, NEW w \in Workers, InRegions(w),
           judged[w] \subseteq mem[w].plan.regions
    PROVE  /\ Region(w) \in mem[w].plan.regions \ judged[w]
           /\ Region(w) \in 1..Regions
<1> DEFINE S == mem[w].plan.regions \ judged[w]
<1>1. mem[w].plan.regions \subseteq 1..Regions
  <2>1. mem[w].plan \in Plans
    BY DEF TypeOK, States
  <2> QED
    BY <2>1, PlanType
<1>2. S # {} /\ S \subseteq Nat
  <2>1. 1..Regions \subseteq Nat
    BY CheckpointAssumption
  <2> QED
    BY <1>1, <2>1 DEF InRegions
<1>3. PICK x \in S : \A y \in S : x <= y
  BY <1>2, NatHasMinimum
<1>4. Region(w) \in S
  BY <1>3 DEF Region, Min
<1> QED
  BY <1>1, <1>4

LEMMA NewIsProper ==
    ASSUME NEW v \in Views
    PROVE  New(v) \in States /\ Proper(New(v))
  BY DEF New, States, Plans, Unplanned, Answers, Proper, Missing

LEMMA RecordedIs ==
    ASSUME NEW s \in States, NEW q \in Requests, NEW a \in {"good", "poor"}
    PROVE  /\ Recorded(s, q, a) \in States
           /\ Recorded(s, q, a).view = s.view
           /\ Recorded(s, q, a).plan = s.plan
           /\ Recorded(s, q, a).region = s.region
           /\ Recorded(s, q, a).status = s.status
           /\ \A k \in Requests \ {q} : Recorded(s, q, a).completed[k] = s.completed[k]
  BY DEF Recorded, States, Answers

\* An answer to a request that is open changes no verdict.
LEMMA RecordedProper ==
    ASSUME NEW s \in States, Proper(s), NEW q \in Requests, s.completed[q] = "none",
           NEW a \in {"good", "poor"}
    PROVE  Proper(Recorded(s, q, a))
<1> DEFINE n == Recorded(s, q, a)
<1>1. /\ n.plan = s.plan /\ n.region = s.region /\ n.status = s.status
      /\ \A k \in Requests \ {q} : n.completed[k] = s.completed[k]
  BY RecordedIs
<1> HIDE DEF n
<1>2. Missing(n) \subseteq Missing(s)
  BY <1>1 DEF Missing, Requests
<1>3. \A r \in 1..Regions : Round(r) \subseteq Requests
  BY DEF Round, Requests, Retries
<1>4. \A r \in 1..Regions : Covered(s, r) => Covered(n, r)
  BY <1>1, <1>3 DEF Covered
<1>5. ASSUME NEW r \in 1..Regions, Exhausted(s, r)
      PROVE  Exhausted(n, r)
  <2>1. q \notin Round(r)
    BY <1>5 DEF Exhausted, Open
  <2>2. \A k \in Round(r) : n.completed[k] = s.completed[k]
    BY <1>1, <1>3, <2>1
  <2> QED
    BY <1>5, <2>2 DEF Exhausted, Open, Covered
<1>6. s.plan.regions \subseteq 1..Regions
  BY PlanType DEF States
<1>7. Proper(n)
  BY <1>1, <1>2, <1>4, <1>5, <1>6 DEF Proper
<1> QED
  BY <1>7 DEF n

LEMMA AheadOfItself ==
    ASSUME NEW s
    PROVE  Ahead(s, s)
  BY DEF Ahead

LEMMA AtWork ==
    ASSUME PageInv, NEW w \in inside
    PROVE  /\ w \in Workers /\ inside = {w}
           /\ file \in States /\ mem[w] \in States
           /\ Proper(mem[w]) /\ Ahead(mem[w], file)
  BY DEF PageInv, TypeOK

-----------------------------------------------------------------------------
(* The steps.                                                              *)

LEMMA EnterKeeps ==
    ASSUME PageInv, NEW w \in Workers, Enter(w)
    PROVE  PageInv'
<1>1. PICK v \in Views : Load(w, v)
  BY DEF Enter
<1> DEFINE s == IF v = file.view THEN file ELSE New(v)
<1>2. /\ inside = {} /\ inside' = {w} /\ file' = file
      /\ mem' = [mem EXCEPT ![w] = s]
      /\ UNCHANGED pass /\ UNCHANGED interrupts
      /\ turns' = (IF v = file.view THEN turns ELSE turns + 1) /\ turns' <= MaxTurns
  BY <1>1 DEF Enter, Load, Remember
<1>3. s \in States /\ Proper(s) /\ Ahead(s, file)
  <2>1. New(v) \in States /\ Proper(New(v)) /\ New(v).view = v
    BY NewIsProper DEF New
  <2>2. CASE v = file.view
    BY <2>2 DEF PageInv, TypeOK, Ahead
  <2>3. CASE v # file.view
    BY <2>1, <2>3 DEF Ahead
  <2> QED
    BY <2>2, <2>3
<1> HIDE DEF s
<1>4. /\ asking[w] = None
      /\ judged[w] = {}
  BY <1>2 DEF PageInv
<1>5. TypeOK'
  <2>1. Cardinality(inside') <= 1 /\ inside' \subseteq Workers
    BY <1>2, FS_Singleton
  <2>2. turns' \in 0..MaxTurns
    BY <1>2, CheckpointAssumption DEF PageInv, TypeOK
  <2> QED
    BY <1>2, <1>3, <2>1, <2>2 DEF PageInv, TypeOK, pass
<1>6. mem \in [Workers -> States]
  BY DEF PageInv, TypeOK
<1>7. \A u \in Workers : judged'[u] \subseteq mem'[u].plan.regions
                         /\ (judged'[u] # {} => u \in inside')
  BY <1>2, <1>4, <1>6 DEF PageInv, pass
<1>8. \A u \in Workers : asking'[u] = None
  BY <1>2 DEF PageInv, pass
<1>9. mem'[w] = s /\ file' = file
  BY <1>2, <1>6
<1> QED
  BY <1>2, <1>3, <1>5, <1>7, <1>8, <1>9 DEF PageInv

LEMMA AskKeeps ==
    ASSUME PageInv, NEW w \in Workers, AskTile(w) \/ AskPiece(w)
    PROVE  PageInv'
<1>1. PICK q \in Requests : Ask(w, q) /\ mem[w].completed[q] = "none"
  <2>1. CASE AskTile(w)
    <3> DEFINE Q == Missing(mem[w]) \ tried[w]
    <3>1. Q \subseteq {0} \X (1..Tiles) /\ Q # {}
      BY <2>1 DEF AskTile, FirstOver, Missing, First
    <3>2. Foremost(Q) \in Q
      BY <3>1, ForemostIn, CheckpointAssumption
    <3> QED
      BY <2>1, <3>2 DEF AskTile, Missing, Requests
  <2>2. CASE AskPiece(w)
    <3>1. Region(w) \in 1..Regions
      BY <2>2, RegionIn DEF AskPiece, PageInv
    <3> DEFINE Q == Open(mem[w], Region(w))
    <3>2. Q \subseteq {Region(w)} \X (1..Pieces) /\ Q # {}
      BY <2>2 DEF AskPiece, Open, Round
    <3>3. Foremost(Q) \in Q
      BY <3>2, ForemostIn, CheckpointAssumption
    <3>4. Q \subseteq Requests
      BY <3>1, <3>2 DEF Requests, Retries
    <3> QED
      BY <2>2, <3>3, <3>4 DEF AskPiece, Open
  <2> QED
    BY <2>1, <2>2
<1>2. /\ w \in inside
      /\ asking' = [asking EXCEPT ![w] = q]
      /\ UNCHANGED <<file, inside, mem, tried, judged, late, turns, interrupts>>
  BY <1>1 DEF Ask, Working
<1>3. TypeOK'
  BY <1>2 DEF PageInv, TypeOK
<1>4. \A u \in Workers : asking'[u] # None =>
          u \in inside' /\ mem'[u].completed[asking'[u]] = "none"
  BY <1>1, <1>2 DEF PageInv, TypeOK
<1> QED
  BY <1>2, <1>3, <1>4 DEF PageInv
\* A step that saves s keeps the invariant of the page and its memory.
LEMMA SavedState ==
    ASSUME PageInv, NEW w \in inside, NEW s \in States, Proper(s), Save(w, s),
           UNCHANGED inside
    PROVE  /\ file' \in States /\ mem' \in [Workers -> States]
           /\ mem'[w] = s
           /\ \A u \in Workers \ {w} : mem'[u] = mem[u]
           /\ inside' = {} \/ \E u \in Workers : inside' = {u}
           /\ Proper(file)'
           /\ \A u \in inside' : Proper(mem[u])' /\ Ahead(mem[u], file)'
<1>1. /\ w \in Workers /\ inside = {w}
      /\ mem \in [Workers -> States]
  BY AtWork DEF PageInv, TypeOK
<1>2. mem' = [mem EXCEPT ![w] = s] /\ file' = s
  BY DEF Save, Remember
<1>3. mem'[w] = s
  BY <1>1, <1>2
<1>4. Ahead(mem'[w], file')
  BY <1>2, <1>3, AheadOfItself
<1> QED
  BY <1>1, <1>2, <1>3, <1>4

LEMMA AnswerKeeps ==
    ASSUME PageInv, NEW w \in Workers, NEW a \in {"good", "poor"}, Answer(w, a)
    PROVE  PageInv'
<1> DEFINE s == Recorded(mem[w], asking[w], a)
<1>1. /\ w \in inside /\ asking[w] # None /\ asking[w] \in Requests
      /\ mem[w].completed[asking[w]] = "none"
  <2>1. w \in inside /\ asking[w] # None
    BY DEF Answer
  <2>2. asking[w] \in Requests \cup {None}
    BY DEF PageInv, TypeOK
  <2> QED
    BY <2>1, <2>2 DEF PageInv
<1>2. mem[w] \in States /\ Proper(mem[w])
  BY <1>1, AtWork
<1>3. s \in States /\ Proper(s) /\ s.plan = mem[w].plan
  BY <1>1, <1>2, RecordedIs, RecordedProper
<1> HIDE DEF s
<1>4. /\ Save(w, s)
      /\ tried' = [tried EXCEPT ![w] = @ \cup ({asking[w]} \cap First)]
      /\ \E b \in BOOLEAN : late' = [late EXCEPT ![w] = b]
      /\ asking' = [asking EXCEPT ![w] = None]
      /\ UNCHANGED <<inside, judged, turns, interrupts>>
  BY DEF Answer, s
<1>5. /\ file' \in States /\ mem' \in [Workers -> States]
      /\ mem'[w] = s
      /\ \A u \in Workers \ {w} : mem'[u] = mem[u]
      /\ inside' = {} \/ \E u \in Workers : inside' = {u}
      /\ Proper(file)'
      /\ \A u \in inside' : Proper(mem[u])' /\ Ahead(mem[u], file)'
  BY <1>1, <1>3, <1>4, SavedState
<1>6. TypeOK'
  <2>1. tried' \in [Workers -> SUBSET First]
    BY <1>4 DEF PageInv, TypeOK
  <2>2. late' \in [Workers -> BOOLEAN]
    BY <1>4 DEF PageInv, TypeOK
  <2>3. asking' \in [Workers -> Requests \cup {None}]
    BY <1>4 DEF PageInv, TypeOK
  <2> QED
    BY <1>4, <1>5, <2>1, <2>2, <2>3 DEF PageInv, TypeOK
<1>7. \A u \in Workers : judged'[u] \subseteq mem'[u].plan.regions
                         /\ (judged'[u] # {} => u \in inside')
  BY <1>3, <1>4, <1>5 DEF PageInv
<1>8. \A u \in Workers : asking'[u] # None =>
          u \in inside' /\ mem'[u].completed[asking'[u]] = "none"
  BY <1>4, <1>5 DEF PageInv, TypeOK
<1> QED
  BY <1>5, <1>6, <1>7, <1>8 DEF PageInv

LEMMA MakePlanKeeps ==
    ASSUME PageInv, NEW w \in Workers, MakePlan(w)
    PROVE  PageInv'
<1>1. PICK p \in Plans : p.made /\ Save(w, [mem[w] EXCEPT !.plan = p])
  BY DEF MakePlan
<1> DEFINE s == [mem[w] EXCEPT !.plan = p]
<1>2. /\ w \in inside /\ asking[w] = None
      /\ ~mem[w].plan.made /\ Missing(mem[w]) = {}
      /\ UNCHANGED <<inside, pass, turns, interrupts>>
  BY DEF MakePlan, Working
<1>3. mem[w] \in States /\ Proper(mem[w])
  BY <1>2, AtWork
<1>4. /\ s \in States /\ s.plan = p
      /\ s.completed = mem[w].completed /\ s.region = mem[w].region
      /\ s.status = mem[w].status
  BY <1>3 DEF States
<1>5. Proper(s)
  BY <1>2, <1>3, <1>4 DEF Proper, Missing, Exhausted, Covered, Open
<1> HIDE DEF s
<1>6. Save(w, s)
  BY <1>1 DEF s
<1>7. /\ file' \in States /\ mem' \in [Workers -> States]
      /\ mem'[w] = s
      /\ \A u \in Workers \ {w} : mem'[u] = mem[u]
      /\ inside' = {} \/ \E u \in Workers : inside' = {u}
      /\ Proper(file)'
      /\ \A u \in inside' : Proper(mem[u])' /\ Ahead(mem[u], file)'
  BY <1>2, <1>4, <1>5, <1>6, SavedState
<1>8. TypeOK'
  BY <1>2, <1>7 DEF PageInv, TypeOK, pass
<1>9. judged[w] = {}
  <2>1. mem[w].plan.regions = {}
    BY <1>2, <1>3, PlanType DEF States
  <2> QED
    BY <2>1 DEF PageInv
<1>10. \A u \in Workers : judged'[u] \subseteq mem'[u].plan.regions
                         /\ (judged'[u] # {} => u \in inside')
  BY <1>2, <1>7, <1>9 DEF PageInv, pass
<1>11. \A u \in Workers : asking'[u] # None =>
          u \in inside' /\ mem'[u].completed[asking'[u]] = "none"
  BY <1>2, <1>4, <1>7 DEF PageInv, TypeOK, pass
<1> QED
  BY <1>7, <1>8, <1>10, <1>11 DEF PageInv

\* A verdict on a region that the answers bear out, of the region r.
LEMMA VerdictProper ==
    ASSUME NEW s \in States, Proper(s), NEW r \in s.plan.regions,
           NEW v \in {"recovered", "exhausted"},
           v = "recovered" => Covered(s, r),
           v = "exhausted" => Exhausted(s, r)
    PROVE  /\ [s EXCEPT !.region[r] = v] \in States
           /\ Proper([s EXCEPT !.region[r] = v])
<1> DEFINE n == [s EXCEPT !.region[r] = v]
<1>1. r \in 1..Regions /\ s.plan.regions \subseteq 1..Regions
  BY PlanType DEF States
<1>2. /\ n \in States
      /\ n.plan = s.plan /\ n.completed = s.completed /\ n.status = s.status
      /\ n.region[r] = v
      /\ \A k \in 1..Regions \ {r} : n.region[k] = s.region[k]
  BY <1>1 DEF States
<1> HIDE DEF n
<1>3. /\ Missing(n) = Missing(s)
      /\ \A k \in 1..Regions :
            /\ Covered(n, k) <=> Covered(s, k)
            /\ Exhausted(n, k) <=> Exhausted(s, k)
  BY <1>2 DEF Missing, Covered, Exhausted, Open
<1>4. Covered(s, r) \/ v = "exhausted"
  OBVIOUS
<1>5. Proper(n)
  BY <1>1, <1>2, <1>3, <1>4 DEF Proper
<1> QED
  BY <1>2, <1>5 DEF n
\* What the three ends of a region have in common.
LEMMA JudgedType ==
    ASSUME PageInv, NEW w \in Workers, InRegions(w), Judged(w)
    PROVE  /\ Region(w) \in mem[w].plan.regions
           /\ judged' \in [Workers -> SUBSET (1..Regions)]
           /\ judged'[w] \subseteq mem[w].plan.regions
           /\ \A u \in Workers \ {w} : judged'[u] = judged[u]
<1>1. Region(w) \in mem[w].plan.regions /\ Region(w) \in 1..Regions
  BY RegionIn DEF PageInv
<1>2. judged' = [judged EXCEPT ![w] = @ \cup {Region(w)}]
  BY DEF Judged
<1>3. /\ judged \in [Workers -> SUBSET (1..Regions)]
      /\ judged[w] \subseteq mem[w].plan.regions
  BY DEF PageInv, TypeOK
<1> QED
  BY <1>1, <1>2, <1>3

LEMMA RecoverKeeps ==
    ASSUME PageInv, NEW w \in Workers, Recover(w)
    PROVE  PageInv'
<1> DEFINE r == Region(w)
           s == [mem[w] EXCEPT !.region[r] = "recovered"]
<1>1. /\ w \in inside /\ asking[w] = None
      /\ InRegions(w) /\ Covered(mem[w], r)
      /\ mem' = [mem EXCEPT ![w] = s] /\ Judged(w)
      /\ UNCHANGED <<file, inside, asking, tried, late, turns, interrupts>>
  BY DEF Recover, Working, Remember
<1>2. /\ inside = {w} /\ file \in States /\ mem[w] \in States
      /\ Proper(mem[w]) /\ Ahead(mem[w], file)
  BY <1>1, AtWork
<1>3. /\ r \in mem[w].plan.regions
      /\ judged' \in [Workers -> SUBSET (1..Regions)]
      /\ judged'[w] \subseteq mem[w].plan.regions
      /\ \A u \in Workers \ {w} : judged'[u] = judged[u]
  BY <1>1, JudgedType
<1>4. r \in 1..Regions
  BY <1>2, <1>3, PlanType DEF States
<1> HIDE DEF r
<1>5. s \in States /\ Proper(s)
  BY <1>1, <1>2, <1>3, VerdictProper
<1>6. /\ s.view = mem[w].view /\ s.completed = mem[w].completed /\ s.plan = mem[w].plan
      /\ s.region[r] = "recovered"
      /\ \A k \in 1..Regions \ {r} : s.region[k] = mem[w].region[k]
  BY <1>2, <1>4 DEF States
<1>7. Ahead(s, file)
  <2>1. mem[w].view = file.view
    <3>1. SUFFICES ASSUME mem[w] = New(mem[w].view) PROVE FALSE
      BY <1>2 DEF Ahead
    <3>2. mem[w].plan.regions = {}
      BY <3>1 DEF New, Unplanned
    <3> QED
      BY <1>3, <3>2
  <2>2. mem[w].completed = file.completed
    BY <1>2, <2>1 DEF Ahead
  <2>3. file.region[r] # "exhausted"
    <3>1. SUFFICES ASSUME Exhausted(file, r) PROVE FALSE
      BY <1>4 DEF PageInv, Proper
    <3>2. Exhausted(mem[w], r)
      BY <2>2, <3>1 DEF Exhausted, Open, Covered
    <3> QED
      BY <1>1, <3>2 DEF Exhausted
  <2>4. ASSUME NEW k \in 1..Regions, Settled(file, k)
        PROVE  s.region[k] = file.region[k]
    <3>1. CASE k = r
      BY <1>6, <2>3, <2>4, <3>1 DEF Settled
    <3>2. CASE k # r
      BY <1>2, <1>6, <2>1, <2>4, <3>2 DEF Ahead
    <3> QED
      BY <3>1, <3>2
  <2> QED
    BY <1>2, <1>6, <2>1, <2>4 DEF Ahead
<1> HIDE DEF s
<1>8. /\ mem' \in [Workers -> States] /\ mem'[w] = s
      /\ \A u \in Workers \ {w} : mem'[u] = mem[u]
  BY <1>1, <1>5 DEF PageInv, TypeOK
<1>9. TypeOK'
  BY <1>1, <1>3, <1>8 DEF PageInv, TypeOK
<1>10. \A u \in Workers : judged'[u] \subseteq mem'[u].plan.regions
                          /\ (judged'[u] # {} => u \in inside')
  BY <1>1, <1>3, <1>6, <1>8 DEF PageInv
<1>11. \A u \in Workers : asking'[u] # None =>
          u \in inside' /\ mem'[u].completed[asking'[u]] = "none"
  BY <1>1, <1>8 DEF PageInv
<1> QED
  BY <1>1, <1>2, <1>5, <1>7, <1>8, <1>9, <1>10, <1>11 DEF PageInv

LEMMA ExhaustKeeps ==
    ASSUME PageInv, NEW w \in Workers, Exhaust(w)
    PROVE  PageInv'
<1> DEFINE r == Region(w)
           s == [mem[w] EXCEPT !.region[r] = "exhausted"]
<1>1. /\ w \in inside /\ asking[w] = None
      /\ InRegions(w) /\ Exhausted(mem[w], r)
      /\ Save(w, s) /\ Judged(w)
      /\ UNCHANGED <<inside, asking, tried, late, turns, interrupts>>
  BY DEF Exhaust, Working
<1>2. mem[w] \in States /\ Proper(mem[w])
  BY <1>1, AtWork
<1>3. /\ r \in mem[w].plan.regions
      /\ judged' \in [Workers -> SUBSET (1..Regions)]
      /\ judged'[w] \subseteq mem[w].plan.regions
      /\ \A u \in Workers \ {w} : judged'[u] = judged[u]
  BY <1>1, JudgedType
<1> HIDE DEF r
<1>4. s \in States /\ Proper(s)
  BY <1>1, <1>2, <1>3, VerdictProper
<1>5. s.plan = mem[w].plan
  BY <1>2 DEF States
<1> HIDE DEF s
<1>6. /\ file' \in States /\ mem' \in [Workers -> States]
      /\ mem'[w] = s
      /\ \A u \in Workers \ {w} : mem'[u] = mem[u]
      /\ inside' = {} \/ \E u \in Workers : inside' = {u}
      /\ Proper(file)'
      /\ \A u \in inside' : Proper(mem[u])' /\ Ahead(mem[u], file)'
  BY <1>1, <1>4, SavedState
<1>7. TypeOK'
  BY <1>1, <1>3, <1>6 DEF PageInv, TypeOK
<1>8. \A u \in Workers : judged'[u] \subseteq mem'[u].plan.regions
                         /\ (judged'[u] # {} => u \in inside')
  BY <1>1, <1>3, <1>5, <1>6 DEF PageInv
<1>9. \A u \in Workers : asking'[u] # None =>
          u \in inside' /\ mem'[u].completed[asking'[u]] = "none"
  BY <1>1, <1>6 DEF PageInv
<1> QED
  BY <1>6, <1>7, <1>8, <1>9 DEF PageInv

LEMMA PostponeKeeps ==
    ASSUME PageInv, NEW w \in Workers, Postpone(w)
    PROVE  PageInv'
<1>1. /\ w \in inside /\ InRegions(w) /\ Judged(w)
      /\ UNCHANGED <<file, inside, mem, asking, tried, late, turns, interrupts>>
  BY DEF Postpone, Working
<1>2. /\ judged' \in [Workers -> SUBSET (1..Regions)]
      /\ judged'[w] \subseteq mem[w].plan.regions
      /\ \A u \in Workers \ {w} : judged'[u] = judged[u]
  BY <1>1, JudgedType
<1>3. TypeOK'
  BY <1>1, <1>2 DEF PageInv, TypeOK
<1>4. \A u \in Workers : judged'[u] \subseteq mem'[u].plan.regions
                         /\ (judged'[u] # {} => u \in inside')
  BY <1>1, <1>2 DEF PageInv
<1> QED
  BY <1>1, <1>3, <1>4 DEF PageInv
LEMMA LeaveKeeps ==
    ASSUME PageInv, NEW w \in inside, Leave(w),
           file' \in States, Proper(file)', UNCHANGED turns,
           interrupts' \in 0..MaxInterrupts
    PROVE  PageInv'
<1>1. w \in Workers /\ inside = {w}
  BY AtWork
<1>2. /\ inside' = {}
      /\ mem' = [mem EXCEPT ![w] = Nothing]
      /\ asking' = [asking EXCEPT ![w] = None]
      /\ tried' = [tried EXCEPT ![w] = {}]
      /\ judged' = [judged EXCEPT ![w] = {}]
      /\ late' = [late EXCEPT ![w] = FALSE]
  BY <1>1 DEF Leave, Remember
<1>3. Nothing \in States
  <2>1. (CHOOSE v \in Views : TRUE) \in Views
    BY CheckpointAssumption
  <2> QED
    BY <2>1, NewIsProper DEF Nothing
<1>4. TypeOK'
  <2>1. Cardinality(inside') <= 1
    BY <1>2, FS_EmptySet
  <2>2. mem' \in [Workers -> States]
    BY <1>2, <1>3 DEF PageInv, TypeOK
  <2>3. /\ asking' \in [Workers -> Requests \cup {None}]
        /\ tried' \in [Workers -> SUBSET First]
        /\ judged' \in [Workers -> SUBSET (1..Regions)]
        /\ late' \in [Workers -> BOOLEAN]
    BY <1>2 DEF PageInv, TypeOK
  <2> QED
    BY <1>2, <2>1, <2>2, <2>3 DEF PageInv, TypeOK
<1>5. \A u \in Workers : judged'[u] = {} /\ asking'[u] = None
  BY <1>1, <1>2 DEF PageInv, TypeOK
<1> QED
  BY <1>2, <1>4, <1>5 DEF PageInv

\* The status that a pass writes is borne out by the answers.
LEMMA OutcomeProper ==
    ASSUME NEW s \in States, Proper(s), Missing(s) = {} => s.plan.made
    PROVE  /\ [s EXCEPT !.status = Outcome(s)] \in States
           /\ Proper([s EXCEPT !.status = Outcome(s)])
<1> DEFINE n == [s EXCEPT !.status = Outcome(s)]
<1>1. Outcome(s) \in {"pending", "review_required", "completed"}
  BY DEF Outcome
<1>2. /\ n \in States /\ n.status = Outcome(s)
      /\ n.plan = s.plan /\ n.completed = s.completed /\ n.region = s.region
  BY <1>1 DEF States
<1> HIDE DEF n
<1>3. /\ Missing(n) = Missing(s)
      /\ \A k \in 1..Regions :
            /\ Covered(n, k) <=> Covered(s, k)
            /\ Exhausted(n, k) <=> Exhausted(s, k)
  BY <1>2 DEF Missing, Covered, Exhausted, Open
<1>4. s.plan.regions \subseteq 1..Regions /\ s.plan.unread \in BOOLEAN
  BY PlanType DEF States
<1>5. Outcome(s) # "pending" =>
        /\ s.plan.made
        /\ \A r \in s.plan.regions : Covered(s, r) \/ s.region[r] = "exhausted"
  BY <1>4 DEF Outcome, Settled, Proper
<1>6. Outcome(s) = "completed" =>
        ~s.plan.unread /\ \A r \in s.plan.regions : Covered(s, r)
  BY <1>4 DEF Outcome, Settled, Proper
<1>7. Proper(n)
  BY <1>2, <1>3, <1>4, <1>5, <1>6 DEF Proper
<1> QED
  BY <1>2, <1>7 DEF n

LEMMA FinishKeeps ==
    ASSUME PageInv, NEW w \in Workers, Finish(w)
    PROVE  PageInv'
<1>1. /\ w \in inside /\ Leave(w) /\ UNCHANGED <<turns, interrupts>>
      /\ Missing(mem[w]) = {} => mem[w].plan.made
      /\ file' = [mem[w] EXCEPT !.status = Outcome(mem[w])]
  BY DEF Finish, Working
<1>2. mem[w] \in States /\ Proper(mem[w])
  BY <1>1, AtWork
<1>3. file' \in States /\ Proper(file)'
  BY <1>1, <1>2, OutcomeProper
<1>4. interrupts' \in 0..MaxInterrupts
  BY <1>1 DEF PageInv, TypeOK
<1> QED
  BY <1>1, <1>3, <1>4, LeaveKeeps

LEMMA InterruptKeeps ==
    ASSUME PageInv, NEW w \in Workers, Interrupt(w)
    PROVE  PageInv'
<1>1. /\ w \in inside /\ Leave(w) /\ UNCHANGED <<file, turns>>
      /\ interrupts' \in 0..MaxInterrupts
  BY CheckpointAssumption DEF Interrupt, PageInv, TypeOK
<1>2. file' \in States /\ Proper(file)'
  BY <1>1 DEF PageInv, TypeOK
<1> QED
  BY <1>1, <1>2, LeaveKeeps

LEMMA PageInvInitial == Init => PageInv
<1> SUFFICES ASSUME Init PROVE PageInv
  OBVIOUS
<1>1. PICK v \in Views : file = New(v)
  BY DEF Init
<1>2. file \in States /\ Proper(file)
  BY <1>1, NewIsProper
<1>3. Nothing \in States
  <2>1. (CHOOSE u \in Views : TRUE) \in Views
    BY CheckpointAssumption
  <2> QED
    BY <2>1, NewIsProper DEF Nothing
<1>4. TypeOK
  <2>1. Cardinality(inside) <= 1
    BY FS_EmptySet DEF Init
  <2> QED
    BY <1>2, <1>3, <2>1, CheckpointAssumption DEF Init, TypeOK
<1> QED
  BY <1>2, <1>4 DEF Init, PageInv

LEMMA PageInvInductive == PageInv /\ [Next]_vars => PageInv'
<1> SUFFICES ASSUME PageInv, [Next]_vars PROVE PageInv'
  OBVIOUS
<1>1. CASE UNCHANGED vars
  BY <1>1 DEF vars, pass, PageInv, TypeOK
<1>2. ASSUME NEW w \in Workers,
             \/ Enter(w) \/ Step(w) \/ Interrupt(w)
             \/ \E a \in {"good", "poor"} : Answer(w, a)
      PROVE  PageInv'
  <2>1. CASE Enter(w)
    BY <2>1, EnterKeeps
  <2>2. CASE AskTile(w) \/ AskPiece(w)
    BY <2>2, AskKeeps
  <2>3. CASE MakePlan(w)
    BY <2>3, MakePlanKeeps
  <2>4. CASE Recover(w)
    BY <2>4, RecoverKeeps
  <2>5. CASE Exhaust(w)
    BY <2>5, ExhaustKeeps
  <2>6. CASE Postpone(w)
    BY <2>6, PostponeKeeps
  <2>7. CASE Finish(w)
    BY <2>7, FinishKeeps
  <2>8. CASE Interrupt(w)
    BY <2>8, InterruptKeeps
  <2>9. CASE \E a \in {"good", "poor"} : Answer(w, a)
    BY <2>9, AnswerKeeps
  <2> QED
    BY <1>2, <2>1, <2>2, <2>3, <2>4, <2>5, <2>6, <2>7, <2>8, <2>9 DEF Step
<1> QED
  BY <1>1, <1>2 DEF Next

LEMMA PageInvHolds == Spec => []PageInv
  BY PageInvInitial, PageInvInductive, PTL DEF Spec

-----------------------------------------------------------------------------
(* The theorems.                                                           *)

\* However passes end and processes overlap: the checkpoint, the lock and what
\* a worker has in memory keep their shape, one worker being at the page.
THEOREM TypeCorrect == Spec => []TypeOK
<1>1. PageInv => TypeOK
  BY DEF PageInv
<1> QED
  BY <1>1, PageInvHolds, PTL

\* An interrupted pass of recognize_tiles costs one answer at most.
THEOREM AllSaved == Spec => []AnswersSaved
<1>1. PageInv => AnswersSaved
  <2> SUFFICES ASSUME PageInv, NEW w \in Workers, asking[w] # None
               PROVE  /\ mem[w].completed[asking[w]] = "none"
                      /\ mem[w].completed =
                           IF mem[w].view = file.view THEN file.completed
                           ELSE New(file.view).completed
    BY DEF AnswersSaved
  <2>1. w \in inside /\ mem[w].completed[asking[w]] = "none"
    BY DEF PageInv
  <2>2. Ahead(mem[w], file)
    BY <2>1, AtWork
  <2>3. New(mem[w].view).completed = New(file.view).completed
    BY DEF New
  <2> QED
    BY <2>1, <2>2, <2>3 DEF Ahead
<1> QED
  BY <1>1, PageInvHolds, PTL

\* The regions are planned from the whole page, and one is given up only when
\* all of its pieces have been asked for.
THEOREM GivenUpRightly == Spec => []RightfullyGivenUp
<1>1. PageInv => RightfullyGivenUp
  BY DEF PageInv, Proper, RightfullyGivenUp
<1> QED
  BY <1>1, PageInvHolds, PTL

\* The status in the checkpoint of a page is borne out by its answers.
THEOREM StatusIsTrue == Spec => []StatusTruth
<1>1. PageInv => StatusTruth
  BY DEF PageInv, Proper, StatusTruth
<1> QED
  BY <1>1, PageInvHolds, PTL

\* A checkpoint written from memory of the same view keeps what the last has.
LEMMA WrittenKeeps ==
    ASSUME PageInv, NEW w \in inside, file'.view = file.view,
           file'.view = mem[w].view,
           \A q \in Requests : mem[w].completed[q] # "none" =>
               file'.completed[q] = mem[w].completed[q],
           mem[w].plan.made => file'.plan = mem[w].plan,
           \A r \in 1..Regions : Settled(mem[w], r) =>
               file'.region[r] = mem[w].region[r]
    PROVE  /\ \A q \in Requests : file.completed[q] # "none" =>
                  file'.completed[q] = file.completed[q]
           /\ file.plan.made => file'.plan = file.plan
           /\ \A r \in 1..Regions : Settled(file, r) => file'.region[r] = file.region[r]
<1>1. Ahead(mem[w], file) /\ mem[w].view = file.view
  BY AtWork
<1> QED
  BY <1>1 DEF Ahead, Settled

\* As long as the view of the page is the same no answer, plan or verdict in
\* its checkpoint is undone, by whichever pass.
THEOREM NeverUndone == Spec => NothingUndone
<1> DEFINE Kept ==
        file'.view = file.view =>
            /\ \A q \in Requests : file.completed[q] # "none" =>
                   file'.completed[q] = file.completed[q]
            /\ file.plan.made => file'.plan = file.plan
            /\ \A r \in 1..Regions : Settled(file, r) => file'.region[r] = file.region[r]
<1>1. PageInv /\ [Next]_vars => [Kept]_file
  <2> SUFFICES ASSUME PageInv, [Next]_vars, file' # file, file'.view = file.view
               PROVE  Kept
    OBVIOUS
  <2>1. PICK w \in Workers :
            MakePlan(w) \/ Exhaust(w) \/ Finish(w)
            \/ \E a \in {"good", "poor"} : Answer(w, a)
    <3>1. \A w \in Workers :
            Enter(w) \/ AskTile(w) \/ AskPiece(w) \/ Recover(w) \/ Postpone(w)
            \/ Interrupt(w) => file' = file
      BY DEF Enter, Load, AskTile, AskPiece, Ask, Recover, Postpone, Interrupt
    <3> QED
      BY <3>1 DEF Next, Step, vars
  <2>2. w \in inside
    BY <2>1 DEF MakePlan, Exhaust, Finish, Answer, Working
  <2>3. mem[w] \in States /\ Proper(mem[w])
    BY <2>2, AtWork
  <2>4. CASE MakePlan(w)
    <3>1. PICK p \in Plans : file' = [mem[w] EXCEPT !.plan = p]
      BY <2>4 DEF MakePlan, Save
    <3>2. ~mem[w].plan.made
      BY <2>4 DEF MakePlan
    <3>3. /\ file'.view = mem[w].view /\ file'.completed = mem[w].completed
          /\ file'.region = mem[w].region
      BY <2>3, <3>1 DEF States
    <3> QED
      BY <2>2, <3>2, <3>3, WrittenKeeps
  <2>5. CASE Exhaust(w)
    <3> DEFINE r == Region(w)
    <3>1. /\ InRegions(w) /\ Exhausted(mem[w], r) /\ Judged(w)
          /\ file' = [mem[w] EXCEPT !.region[r] = "exhausted"]
      BY <2>5 DEF Exhaust, Save
    <3>2. r \in mem[w].plan.regions /\ mem[w].plan.regions \subseteq 1..Regions
      BY <2>3, <3>1, JudgedType, PlanType DEF States
    <3> HIDE DEF r
    <3>3. /\ file'.view = mem[w].view /\ file'.completed = mem[w].completed
          /\ file'.plan = mem[w].plan
          /\ file'.region[r] = "exhausted"
          /\ \A k \in 1..Regions \ {r} : file'.region[k] = mem[w].region[k]
      BY <2>3, <3>1, <3>2 DEF States
    <3>4. mem[w].region[r] # "recovered"
      BY <2>3, <3>1, <3>2 DEF Proper, Exhausted
    <3>5. \A k \in 1..Regions : Settled(mem[w], k) => file'.region[k] = mem[w].region[k]
      BY <3>3, <3>4 DEF Settled
    <3> QED
      BY <2>2, <3>3, <3>5, WrittenKeeps
  <2>6. CASE Finish(w)
    <3>1. file' = [mem[w] EXCEPT !.status = Outcome(mem[w])]
      BY <2>6 DEF Finish
    <3>2. /\ file'.view = mem[w].view /\ file'.completed = mem[w].completed
          /\ file'.region = mem[w].region /\ file'.plan = mem[w].plan
      BY <2>3, <3>1 DEF States
    <3> QED
      BY <2>2, <3>2, WrittenKeeps
  <2>7. CASE \E a \in {"good", "poor"} : Answer(w, a)
    <3>1. PICK a \in {"good", "poor"} : Answer(w, a)
      BY <2>7
    <3> DEFINE q == asking[w]
    <3>2. q \in Requests /\ mem[w].completed[q] = "none"
      BY <3>1 DEF PageInv, TypeOK, Answer
    <3>3. file' = Recorded(mem[w], q, a)
      BY <3>1 DEF Answer, Save
    <3> HIDE DEF q
    <3>4. /\ file'.view = mem[w].view /\ file'.plan = mem[w].plan
          /\ file'.region = mem[w].region
          /\ \A k \in Requests \ {q} : file'.completed[k] = mem[w].completed[k]
      BY <2>3, <3>2, <3>3, RecordedIs
    <3> QED
      BY <2>2, <3>2, <3>4, WrittenKeeps
  <2> QED
    BY <2>1, <2>4, <2>5, <2>6, <2>7
<1> QED
  BY <1>1, PageInvHolds, PTL DEF Spec, NothingUndone
=============================================================================
