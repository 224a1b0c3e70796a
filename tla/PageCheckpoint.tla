--------------------------- MODULE PageCheckpoint ---------------------------
(***************************************************************************)
(* The checkpoint of one scanned page (recognize_tiles).                   *)
(*                                                                         *)
(* The page is read tile by tile; regions that came out badly are then     *)
(* read once more, piece by piece.  Every answer of the OCR service goes   *)
(* to the checkpoint before the next is asked for, so that a pass that     *)
(* runs out of its budget, is cancelled or dies can be taken up by a later *)
(* one.  Two processes may work on the page when the claim on its job has  *)
(* expired; a lock on a file beside the checkpoint keeps them apart.       *)
(*                                                                         *)
(* A checkpoint counts for one view of the page only: how the page is      *)
(* turned is found out again by each pass, by asking the service, and is   *)
(* part of the identity.  A checkpoint of another view is archived and the *)
(* page begins anew (the archive is left out).                             *)
(***************************************************************************)
EXTENDS Integers, FiniteSets, FiniteSetsExt

CONSTANTS
    Workers,
    Views,           \* orientations the probes may find
    Tiles,           \* number of tiles of the first pass
    Regions,         \* number of regions that may have to be read again
    Pieces,          \* tiles of a region
    MaxTurns,        \* bound: changes of the view
    MaxInterrupts    \* bound: passes that are cut off

ASSUME CheckpointAssumption ==
    /\ IsFiniteSet(Workers) /\ Views # {}
    /\ Tiles \in Nat \ {0} /\ Regions \in Nat /\ Pieces \in Nat \ {0}
    /\ MaxTurns \in Nat /\ MaxInterrupts \in Nat

VARIABLES
    file,        \* the checkpoint
    inside,      \* who works on the page: the holder of the lock
    mem,         \* the state in memory of each worker
    asking,      \* the request it waits for
    tried,       \* the tiles that have failed in this pass
    judged,      \* the regions this pass is done with
    late,        \* the budget is used up
    turns, interrupts

pass == <<asking, tried, judged, late>>
vars == <<file, inside, mem, pass, turns, interrupts>>

First == {0} \X (1..Tiles)
Round(r) == {r} \X (1..Pieces)
Retries == (1..Regions) \X (1..Pieces)
Requests == First \cup Retries
None == <<>>

Answers == {"none", "good", "poor"}
Unplanned == [regions |-> {}, unread |-> FALSE, made |-> FALSE]
Plans == [regions : SUBSET (1..Regions), unread : BOOLEAN, made : {TRUE}] \cup {Unplanned}

States ==
    [view : Views, completed : [Requests -> Answers], plan : Plans,
     region : [1..Regions -> {"pending", "recovered", "exhausted"}],
     status : {"pending", "review_required", "completed"}]

New(v) ==
    [view |-> v, completed |-> [q \in Requests |-> "none"], plan |-> Unplanned,
     region |-> [r \in 1..Regions |-> "pending"], status |-> "pending"]

\* The memory of a worker that is not at work on the page.
Nothing == New(CHOOSE v \in Views : TRUE)

TypeOK ==
    /\ file \in States
    /\ inside \subseteq Workers /\ Cardinality(inside) <= 1
    /\ mem \in [Workers -> States]
    /\ asking \in [Workers -> Requests \cup {None}]
    /\ tried \in [Workers -> SUBSET First]
    /\ judged \in [Workers -> SUBSET (1..Regions)]
    /\ late \in [Workers -> BOOLEAN]
    /\ turns \in 0..MaxTurns /\ interrupts \in 0..MaxInterrupts

Init ==
    /\ \E v \in Views : file = New(v)
    /\ inside = {}
    /\ mem = [w \in Workers |-> Nothing]
    /\ asking = [w \in Workers |-> None]
    /\ tried = [w \in Workers |-> {}]
    /\ judged = [w \in Workers |-> {}]
    /\ late = [w \in Workers |-> FALSE]
    /\ turns = 0 /\ interrupts = 0

-----------------------------------------------------------------------------
(* What follows from the answers.                                          *)

Missing(s) == {q \in First : s.completed[q] = "none"}
Open(s, r) == {q \in Round(r) : s.completed[q] = "none"}

\* All of the region has been read with confidence.
Covered(s, r) == \A q \in Round(r) : s.completed[q] = "good"
Exhausted(s, r) == Open(s, r) = {} /\ ~Covered(s, r)

Settled(s, r) == s.region[r] \in {"recovered", "exhausted"}

-----------------------------------------------------------------------------
Working(w) == w \in inside /\ asking[w] = None
FirstOver(w) == late[w] \/ Missing(mem[w]) \subseteq tried[w]
Region(w) == Min(mem[w].plan.regions \ judged[w])

\* In the order of the page.
Foremost(Q) == CHOOSE q \in Q : \A k \in Q : q[2] <= k[2]

Remember(w, s) == mem' = [mem EXCEPT ![w] = s]
Save(w, s) == Remember(w, s) /\ file' = s

\* The checkpoint is loaded under the lock; who does not get the lock reports
\* the page as pending.
Load(w, v) ==
    /\ turns' = IF v = file.view THEN turns ELSE turns + 1
    /\ turns' <= MaxTurns
    /\ Remember(w, IF v = file.view THEN file ELSE New(v))
    /\ UNCHANGED <<file, pass, interrupts>>

\* The pass is over, and what it had in memory is gone.
Leave(w) ==
    /\ inside' = inside \ {w}
    /\ Remember(w, Nothing)
    /\ asking' = [asking EXCEPT ![w] = None]
    /\ tried' = [tried EXCEPT ![w] = {}]
    /\ judged' = [judged EXCEPT ![w] = {}]
    /\ late' = [late EXCEPT ![w] = FALSE]

\* Mutant of Enter: without the lock.
EnterUnlocked(w) ==
    /\ w \notin inside
    /\ inside' = inside \cup {w}
    /\ \E v \in Views : Load(w, v)

Enter(w) ==
    /\ inside = {}
    /\ inside' = {w}
    /\ \E v \in Views : Load(w, v)

\* A request goes out unless the budget is used up.
Ask(w, q) ==
    /\ Working(w) /\ ~late[w]
    /\ asking' = [asking EXCEPT ![w] = q]
    /\ UNCHANGED <<file, inside, mem, tried, judged, late, turns, interrupts>>

AskTile(w) ==
    /\ ~FirstOver(w)
    /\ Ask(w, Foremost(Missing(mem[w]) \ tried[w]))

InRegions(w) == mem[w].plan.made /\ FirstOver(w) /\ judged[w] # mem[w].plan.regions

AskPiece(w) ==
    /\ InRegions(w) /\ Open(mem[w], Region(w)) # {}
    /\ Ask(w, Foremost(Open(mem[w], Region(w))))

\* Mutant of Recorded: a failed piece is asked for again.
RecordedIfGood(s, q, a) == IF a = "good" THEN [s EXCEPT !.completed[q] = a] ELSE s

\* A failed tile stays open, a failed piece has had its chance.
Recorded(s, q, a) ==
    IF q \in Retries \/ a = "good" THEN [s EXCEPT !.completed[q] = a] ELSE s

\* Mutant of Answer: the answers are saved at the end of the pass.
AnswerUnsaved(w, a) ==
    /\ w \in inside /\ asking[w] # None
    /\ Remember(w, Recorded(mem[w], asking[w], a))
    /\ tried' = [tried EXCEPT ![w] = @ \cup ({asking[w]} \cap First)]
    /\ \E b \in BOOLEAN : late' = [late EXCEPT ![w] = b]
    /\ asking' = [asking EXCEPT ![w] = None]
    /\ UNCHANGED <<file, inside, judged, turns, interrupts>>

\* The answer; an error and an answer of another model are poor ones.  Time
\* passes with the requests only.
Answer(w, a) ==
    /\ w \in inside /\ asking[w] # None
    /\ Save(w, Recorded(mem[w], asking[w], a))
    /\ tried' = [tried EXCEPT ![w] = @ \cup ({asking[w]} \cap First)]
    /\ \E b \in BOOLEAN : late' = [late EXCEPT ![w] = b]
    /\ asking' = [asking EXCEPT ![w] = None]
    /\ UNCHANGED <<inside, judged, turns, interrupts>>

\* Mutant of MakePlan: as soon as nothing more can be asked for.
MakePlanEarly(w) ==
    /\ Working(w) /\ ~mem[w].plan.made /\ FirstOver(w)
    /\ \E p \in Plans : p.made /\ Save(w, [mem[w] EXCEPT !.plan = p])
    /\ UNCHANGED <<inside, pass, turns, interrupts>>

\* Mutant of MakePlan: by every pass.
MakePlanAgain(w) ==
    /\ Working(w) /\ Missing(mem[w]) = {}
    /\ \E p \in Plans : p.made /\ Save(w, [mem[w] EXCEPT !.plan = p])
    /\ UNCHANGED <<inside, pass, turns, interrupts>>

\* The regions to read again, once the whole page has been read.
MakePlan(w) ==
    /\ Working(w) /\ ~mem[w].plan.made /\ Missing(mem[w]) = {}
    /\ \E p \in Plans : p.made /\ Save(w, [mem[w] EXCEPT !.plan = p])
    /\ UNCHANGED <<inside, pass, turns, interrupts>>

Judged(w) == judged' = [judged EXCEPT ![w] = @ \cup {Region(w)}]

\* A recovered region is saved with the next save.
Recover(w) ==
    /\ Working(w) /\ InRegions(w) /\ Covered(mem[w], Region(w))
    /\ Remember(w, [mem[w] EXCEPT !.region[Region(w)] = "recovered"])
    /\ Judged(w)
    /\ UNCHANGED <<file, inside, asking, tried, late, turns, interrupts>>

Exhaust(w) ==
    /\ Working(w) /\ InRegions(w) /\ Exhausted(mem[w], Region(w))
    /\ Save(w, [mem[w] EXCEPT !.region[Region(w)] = "exhausted"])
    /\ Judged(w)
    /\ UNCHANGED <<inside, asking, tried, late, turns, interrupts>>

\* The budget is used up: the region waits for another pass.
Postpone(w) ==
    /\ Working(w) /\ InRegions(w) /\ late[w]
    /\ Open(mem[w], Region(w)) # {}
    /\ Judged(w)
    /\ UNCHANGED <<file, inside, mem, asking, tried, late, turns, interrupts>>

\* Mutant of Outcome: the regions that wait are not looked at.
OutcomeOfTiles(s) ==
    IF Missing(s) # {} THEN "pending"
    ELSE IF s.plan.unread \/ \E r \in s.plan.regions : s.region[r] = "exhausted"
         THEN "review_required" ELSE "completed"

Outcome(s) ==
    IF Missing(s) # {} \/ \E r \in s.plan.regions : ~Settled(s, r) THEN "pending"
    ELSE IF s.plan.unread \/ \E r \in s.plan.regions : s.region[r] = "exhausted"
         THEN "review_required" ELSE "completed"

Finish(w) ==
    /\ Working(w) /\ FirstOver(w)
    /\ IF mem[w].plan.made THEN judged[w] = mem[w].plan.regions ELSE Missing(mem[w]) # {}
    /\ file' = [mem[w] EXCEPT !.status = Outcome(mem[w])]
    /\ Leave(w)
    /\ UNCHANGED <<turns, interrupts>>

\* The task is cancelled or its process dies: the lock goes with it.
Interrupt(w) ==
    /\ w \in inside /\ interrupts < MaxInterrupts
    /\ interrupts' = interrupts + 1
    /\ Leave(w)
    /\ UNCHANGED <<file, turns>>

-----------------------------------------------------------------------------
Step(w) ==
    \/ AskTile(w) \/ AskPiece(w) \/ MakePlan(w)
    \/ Recover(w) \/ Exhaust(w) \/ Postpone(w) \/ Finish(w)

Next ==
    \E w \in Workers :
        Enter(w) \/ Step(w) \/ Interrupt(w) \/ \E a \in {"good", "poor"} : Answer(w, a)

Spec == Init /\ [][Next]_vars

\* A job that waits is taken up again; a request is answered or times out; a
\* tile that is asked for again and again is answered well at last, which is
\* not said of the pieces.
Fairness ==
    /\ WF_vars(\E w \in Workers : file.status = "pending" /\ Enter(w))
    /\ \A w \in Workers : WF_vars(Step(w) \/ \E a \in {"good", "poor"} : Answer(w, a))
    /\ \A q \in First : SF_vars(\E w \in Workers : asking[w] = q /\ Answer(w, "good"))

FairSpec == Spec /\ Fairness

-----------------------------------------------------------------------------
(* Properties.                                                             *)

\* Whoever waits for an answer has all earlier ones in the checkpoint, and asks
\* for one that is not there: an interruption costs one answer at most.
AnswersSaved ==
    \A w \in Workers : asking[w] # None =>
        /\ mem[w].completed[asking[w]] = "none"
        /\ mem[w].completed =
               IF mem[w].view = file.view THEN file.completed ELSE New(file.view).completed

\* While the view is the same nothing the checkpoint has is lost: no answer is
\* replaced, the plan stays, a verdict on a region stands.
NothingUndone ==
    [][file'.view = file.view =>
        /\ \A q \in Requests : file.completed[q] # "none" => file'.completed[q] = file.completed[q]
        /\ file.plan.made => file'.plan = file.plan
        /\ \A r \in 1..Regions : Settled(file, r) => file'.region[r] = file.region[r]]_file

\* The regions to read again are found from the whole page, and given up only
\* after all of their pieces have been asked for, whatever passes these were
\* spread over.
RightfullyGivenUp ==
    /\ file.plan.made => Missing(file) = {}
    /\ \A r \in 1..Regions : file.region[r] = "exhausted" => Exhausted(file, r)

\* The status says what there is: a page that is not pending has been read, and
\* "completed" leaves nothing to a reviewer.
StatusTruth ==
    /\ file.status # "pending" =>
        /\ file.plan.made
        /\ \A r \in file.plan.regions : Covered(file, r) \/ file.region[r] = "exhausted"
    /\ file.status = "completed" =>
        ~file.plan.unread /\ \A r \in file.plan.regions : Covered(file, r)

\* The page is read in the end, however badly its regions come out.
ReadInTheEnd == <>[](file.status # "pending")
=============================================================================
