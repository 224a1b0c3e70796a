--------------------------- MODULE LockOrderProofs ---------------------------
(***************************************************************************)
(* Theorems about LockOrder, for any number of connections and materials,  *)
(* as long as neither the repair of identities nor the rebuild runs.       *)
(***************************************************************************)
EXTENDS LockOrder, WellFoundedInduction, TLAPS

\* The rows of a review are only locked under the row of their slot.
Guarded == {"session", "decision"}

\* The order that all transactions keep among the other rows.  It is not the
\* documented one: the job comes before the document and the version.
Place ==
    [kind \in Kinds \ Guarded |->
        CASE kind = "identity" -> 0 [] kind = "slot" -> 1 [] kind = "job" -> 2
          [] kind = "document" -> 3 [] kind = "version" -> 4]

\* Rows of one kind are ordered by their materials, which are at most n.
Rank(n, row) == Place[row.kind] * (n + 1) + row.of

Ordered(n, t) ==
    \A i, j \in 1..Len(t) :
        i < j /\ t[i].kind \notin Guarded /\ t[j].kind \notin Guarded
            => Rank(n, t[i]) < Rank(n, t[j])

UnderSlot(t) ==
    \A j \in 1..Len(t) : t[j].kind \in Guarded =>
        \E i \in 1..Len(t) : i < j /\ t[i] = Row("slot", t[j].of)

Keeps(n, t) ==
    /\ t \in Seq(Rows) /\ t # <<>>
    /\ Ordered(n, t) /\ UnderSlot(t)

-----------------------------------------------------------------------------
(* The transactions, one by one.                                           *)

LEMMA RowType ==
    ASSUME NEW kind \in Kinds, NEW m \in Materials
    PROVE  /\ Row(kind, m) \in Rows
           /\ Row(kind, m).kind = kind /\ Row(kind, m).of = m
BY DEF Row, Rows

LEMMA PlaceValues ==
    /\ Place["identity"] = 0 /\ Place["slot"] = 1 /\ Place["job"] = 2
    /\ Place["document"] = 3 /\ Place["version"] = 4
BY DEF Place, Kinds, Guarded

LEMMA RankValues ==
    ASSUME NEW n \in Nat, NEW m \in 0..n, NEW k \in 0..n, m \in Materials, k \in Materials
    PROVE  /\ Rank(n, Row("identity", m)) = m
           /\ Rank(n, Row("slot", m)) = n + 1 + m
           /\ Rank(n, Row("job", m)) = 2 * (n + 1) + m
           /\ Rank(n, Row("document", m)) = 3 * (n + 1) + m
           /\ Rank(n, Row("version", m)) = 4 * (n + 1) + m
BY PlaceValues DEF Rank, Row

LEMMA AllKeep ==
    ASSUME NEW n \in Nat, Materials \subseteq 0..n, Operations = {},
           NEW t \in Transactions
    PROVE  Keeps(n, t)
<1>0. \A m \in Materials : m \in 0..n
  OBVIOUS
<1>a. \A m \in Materials :
        /\ Rank(n, Row("identity", m)) = m
        /\ Rank(n, Row("slot", m)) = n + 1 + m
        /\ Rank(n, Row("job", m)) = 2 * (n + 1) + m
        /\ Rank(n, Row("document", m)) = 3 * (n + 1) + m
        /\ Rank(n, Row("version", m)) = 4 * (n + 1) + m
  BY <1>0, RankValues
<1>b. \A m \in Materials :
        Row("session", m).kind \in Guarded /\ Row("decision", m).kind \in Guarded
  BY DEF Row, Guarded
<1>c. \A m \in Materials :
        /\ \A kind \in {"identity", "slot", "document", "version", "job"} :
               Row(kind, m).kind \notin Guarded
        /\ Row("session", m).of = m /\ Row("decision", m).of = m
  BY DEF Row, Guarded
<1>1. ASSUME NEW m \in Materials, t = Allocate(m)
      PROVE  Keeps(n, t)
  <2>1. t \in Seq(Rows) /\ t # <<>> /\ Len(t) = 4
    BY <1>1, RowType DEF Allocate, Kinds
  <2>2. /\ t[1] = Row("identity", m) /\ t[2] = Row("slot", m)
        /\ t[3] = Row("version", m) /\ t[4] = Row("session", m)
    BY <1>1 DEF Allocate
  <2>3. /\ Rank(n, t[1]) = m /\ Rank(n, t[2]) = n + 1 + m
        /\ Rank(n, t[3]) = 4 * (n + 1) + m /\ t[4].kind \in Guarded
    BY <2>2, <1>a, <1>b
  <2>4. Ordered(n, t)
    BY <2>1, <2>3, <1>0, <1>1 DEF Ordered
  <2>5. ASSUME NEW j \in 1..Len(t), t[j].kind \in Guarded
        PROVE  \E i \in 1..Len(t) : i < j /\ t[i] = Row("slot", t[j].of)
    <3>1. 2 < j /\ t[j].of = m
      BY <2>1, <2>2, <2>5, <1>c
    <3> QED
      BY <2>1, <2>2, <3>1
  <2> QED
    BY <2>1, <2>4, <2>5 DEF Keeps, UnderSlot
<1>2. ASSUME NEW m \in Materials, t = Register(m)
      PROVE  Keeps(n, t)
  <2>1. t \in Seq(Rows) /\ t # <<>> /\ Len(t) = 5
    BY <1>2, RowType DEF Register, Kinds
  <2>2. /\ t[1] = Row("identity", m) /\ t[2] = Row("slot", m)
        /\ t[3] = Row("document", m) /\ t[4] = Row("version", m)
        /\ t[5] = Row("session", m)
    BY <1>2 DEF Register
  <2>3. /\ Rank(n, t[1]) = m /\ Rank(n, t[2]) = n + 1 + m
        /\ Rank(n, t[3]) = 3 * (n + 1) + m /\ Rank(n, t[4]) = 4 * (n + 1) + m
        /\ t[5].kind \in Guarded
    BY <2>2, <1>a, <1>b
  <2>4. Ordered(n, t)
    BY <2>1, <2>3, <1>0, <1>2 DEF Ordered
  <2>5. ASSUME NEW j \in 1..Len(t), t[j].kind \in Guarded
        PROVE  \E i \in 1..Len(t) : i < j /\ t[i] = Row("slot", t[j].of)
    <3>1. 2 < j /\ t[j].of = m
      BY <2>1, <2>2, <2>5, <1>c
    <3> QED
      BY <2>1, <2>2, <3>1
  <2> QED
    BY <2>1, <2>4, <2>5 DEF Keeps, UnderSlot
<1>3. ASSUME NEW m \in Materials, t = Bind(m)
      PROVE  Keeps(n, t)
  <2>1. t \in Seq(Rows) /\ t # <<>> /\ Len(t) = 3
    BY <1>3, RowType DEF Bind, Kinds
  <2>2. /\ t[1] = Row("slot", m) /\ t[2] = Row("version", m)
        /\ t[3] = Row("session", m)
    BY <1>3 DEF Bind
  <2>3. /\ Rank(n, t[1]) = n + 1 + m /\ Rank(n, t[2]) = 4 * (n + 1) + m
        /\ t[3].kind \in Guarded
    BY <2>2, <1>a, <1>b
  <2>4. Ordered(n, t)
    BY <2>1, <2>3, <1>0, <1>3 DEF Ordered
  <2>5. ASSUME NEW j \in 1..Len(t), t[j].kind \in Guarded
        PROVE  \E i \in 1..Len(t) : i < j /\ t[i] = Row("slot", t[j].of)
    <3>1. 1 < j /\ t[j].of = m
      BY <2>1, <2>2, <2>5, <1>c
    <3> QED
      BY <2>1, <2>2, <3>1
  <2> QED
    BY <2>1, <2>4, <2>5 DEF Keeps, UnderSlot
<1>4. ASSUME NEW m \in Materials, t = Refresh(m)
      PROVE  Keeps(n, t)
  <2>1. t \in Seq(Rows) /\ t # <<>> /\ Len(t) = 1
    BY <1>4, RowType DEF Refresh, Kinds
  <2>2. /\ t[1] = Row("slot", m)
    BY <1>4 DEF Refresh
  <2>3. /\ Rank(n, t[1]) = n + 1 + m
    BY <2>2, <1>a, <1>b
  <2>4. Ordered(n, t)
    BY <2>1, <2>3, <1>0, <1>4 DEF Ordered
  <2>5. UnderSlot(t)
    BY <2>1, <2>2, <1>c DEF UnderSlot
  <2> QED
    BY <2>1, <2>4, <2>5 DEF Keeps
<1>5. ASSUME NEW m \in Materials, t = Review(m)
      PROVE  Keeps(n, t)
  <2>1. t \in Seq(Rows) /\ t # <<>> /\ Len(t) = 2
    BY <1>5, RowType DEF Review, Kinds
  <2>2. /\ t[1] = Row("slot", m) /\ t[2] = Row("session", m)
    BY <1>5 DEF Review
  <2>3. /\ Rank(n, t[1]) = n + 1 + m /\ t[2].kind \in Guarded
    BY <2>2, <1>a, <1>b
  <2>4. Ordered(n, t)
    BY <2>1, <2>3, <1>0, <1>5 DEF Ordered
  <2>5. ASSUME NEW j \in 1..Len(t), t[j].kind \in Guarded
        PROVE  \E i \in 1..Len(t) : i < j /\ t[i] = Row("slot", t[j].of)
    <3>1. 1 < j /\ t[j].of = m
      BY <2>1, <2>2, <2>5, <1>c
    <3> QED
      BY <2>1, <2>2, <3>1
  <2> QED
    BY <2>1, <2>4, <2>5 DEF Keeps, UnderSlot
<1>6. ASSUME NEW m \in Materials, t = Decide(m)
      PROVE  Keeps(n, t)
  <2>1. t \in Seq(Rows) /\ t # <<>> /\ Len(t) = 3
    BY <1>6, RowType DEF Decide, Kinds
  <2>2. /\ t[1] = Row("slot", m) /\ t[2] = Row("session", m)
        /\ t[3] = Row("decision", m)
    BY <1>6 DEF Decide
  <2>3. /\ Rank(n, t[1]) = n + 1 + m /\ t[2].kind \in Guarded
        /\ t[3].kind \in Guarded
    BY <2>2, <1>a, <1>b
  <2>4. Ordered(n, t)
    BY <2>1, <2>3, <1>0, <1>6 DEF Ordered
  <2>5. ASSUME NEW j \in 1..Len(t), t[j].kind \in Guarded
        PROVE  \E i \in 1..Len(t) : i < j /\ t[i] = Row("slot", t[j].of)
    <3>1. 1 < j /\ t[j].of = m
      BY <2>1, <2>2, <2>5, <1>c
    <3> QED
      BY <2>1, <2>2, <3>1
  <2> QED
    BY <2>1, <2>4, <2>5 DEF Keeps, UnderSlot
<1>7. ASSUME NEW m \in Materials, t = Restart(m)
      PROVE  Keeps(n, t)
  <2>1. t \in Seq(Rows) /\ t # <<>> /\ Len(t) = 3
    BY <1>7, RowType DEF Restart, Kinds
  <2>2. /\ t[1] = Row("slot", m) /\ t[2] = Row("session", m)
        /\ t[3] = Row("job", m)
    BY <1>7 DEF Restart
  <2>3. /\ Rank(n, t[1]) = n + 1 + m /\ t[2].kind \in Guarded
        /\ Rank(n, t[3]) = 2 * (n + 1) + m
    BY <2>2, <1>a, <1>b
  <2>4. Ordered(n, t)
    BY <2>1, <2>3, <1>0, <1>7 DEF Ordered
  <2>5. ASSUME NEW j \in 1..Len(t), t[j].kind \in Guarded
        PROVE  \E i \in 1..Len(t) : i < j /\ t[i] = Row("slot", t[j].of)
    <3>1. 1 < j /\ t[j].of = m
      BY <2>1, <2>2, <2>5, <1>c
    <3> QED
      BY <2>1, <2>2, <3>1
  <2> QED
    BY <2>1, <2>4, <2>5 DEF Keeps, UnderSlot
<1>8. ASSUME NEW m \in Materials, t = Verify(m)
      PROVE  Keeps(n, t)
  <2>1. t \in Seq(Rows) /\ t # <<>> /\ Len(t) = 2
    BY <1>8, RowType DEF Verify, Kinds
  <2>2. /\ t[1] = Row("slot", m) /\ t[2] = Row("job", m)
    BY <1>8 DEF Verify
  <2>3. /\ Rank(n, t[1]) = n + 1 + m /\ Rank(n, t[2]) = 2 * (n + 1) + m
    BY <2>2, <1>a, <1>b
  <2>4. Ordered(n, t)
    BY <2>1, <2>3, <1>0, <1>8 DEF Ordered
  <2>5. UnderSlot(t)
    BY <2>1, <2>2, <1>c DEF UnderSlot
  <2> QED
    BY <2>1, <2>4, <2>5 DEF Keeps
<1>9. ASSUME NEW m \in Materials, t = Persist(m)
      PROVE  Keeps(n, t)
  <2>1. t \in Seq(Rows) /\ t # <<>> /\ Len(t) = 3
    BY <1>9, RowType DEF Persist, Kinds
  <2>2. /\ t[1] = Row("job", m) /\ t[2] = Row("document", m)
        /\ t[3] = Row("version", m)
    BY <1>9 DEF Persist
  <2>3. /\ Rank(n, t[1]) = 2 * (n + 1) + m /\ Rank(n, t[2]) = 3 * (n + 1) + m
        /\ Rank(n, t[3]) = 4 * (n + 1) + m
    BY <2>2, <1>a, <1>b
  <2>4. Ordered(n, t)
    BY <2>1, <2>3, <1>0, <1>9 DEF Ordered
  <2>5. UnderSlot(t)
    BY <2>1, <2>2, <1>c DEF UnderSlot
  <2> QED
    BY <2>1, <2>4, <2>5 DEF Keeps
<1>10. ASSUME NEW m \in Materials, NEW k \in Materials, m < k, t = Import(m, k)
      PROVE  Keeps(n, t)
  <2>1. t \in Seq(Rows) /\ t # <<>> /\ Len(t) = 4
    BY <1>10, RowType DEF Import, Kinds
  <2>2. /\ t[1] = Row("identity", m) /\ t[2] = Row("identity", k)
        /\ t[3] = Row("slot", m) /\ t[4] = Row("slot", k)
    BY <1>10 DEF Import
  <2>3. /\ Rank(n, t[1]) = m /\ Rank(n, t[2]) = k
        /\ Rank(n, t[3]) = n + 1 + m /\ Rank(n, t[4]) = n + 1 + k
    BY <2>2, <1>a, <1>b
  <2>4. Ordered(n, t)
    BY <2>1, <2>3, <1>0, <1>10 DEF Ordered
  <2>5. UnderSlot(t)
    BY <2>1, <2>2, <1>c DEF UnderSlot
  <2> QED
    BY <2>1, <2>4, <2>5 DEF Keeps
<1> QED
  <2>1. PICK m \in Materials : t \in OfMaterial(m)
    BY DEF Transactions
  <2>2. \/ t \in {Allocate(m), Register(m), Bind(m), Refresh(m), Review(m),
                  Decide(m), Restart(m), Verify(m), Persist(m)}
        \/ \E k \in Materials : m < k /\ t = Import(m, k)
    BY <2>1 DEF OfMaterial
  <2> QED
    BY <2>2, <1>1, <1>2, <1>3, <1>4, <1>5, <1>6, <1>7, <1>8, <1>9, <1>10

LEMMA TransactionsAreSequences ==
    Transactions \subseteq Seq(Rows)
<1>1. \A m \in Materials :
        {Allocate(m), Register(m), Bind(m), Refresh(m), Review(m)} \subseteq Seq(Rows)
  BY RowType DEF Allocate, Register, Bind, Refresh, Review, Kinds
<1>2. \A m \in Materials :
        {Decide(m), Restart(m), Verify(m), Persist(m), Repair(m), Publish(m)} \subseteq Seq(Rows)
  BY RowType DEF Decide, Restart, Verify, Persist, Repair, Publish, Kinds
<1>3. \A m, k \in Materials : Import(m, k) \in Seq(Rows)
  BY RowType DEF Import, Kinds
<1> QED
  <2>1. ASSUME NEW m \in Materials, NEW t \in OfMaterial(m)
        PROVE  t \in Seq(Rows)
    <3>1. \/ t \in {Allocate(m), Register(m), Bind(m), Refresh(m), Review(m)}
          \/ t \in {Decide(m), Restart(m), Verify(m), Persist(m), Repair(m), Publish(m)}
          \/ \E k \in Materials : t = Import(m, k)
      BY <2>1 DEF OfMaterial
    <3> QED
      BY <3>1, <1>1, <1>2, <1>3
  <2>2. \A t \in Transactions : \E m \in Materials : t \in OfMaterial(m)
    BY DEF Transactions
  <2> QED
    BY <2>1, <2>2

-----------------------------------------------------------------------------
(* Type correctness, and that a row has one holder.                        *)

LEMMA TypeInductive ==
    ASSUME TypeOK, [Next]_vars
    PROVE  TypeOK'
<1>0. \A t \in Transactions \cup {<<>>} : t \in Seq(Rows) /\ Len(t) \in Nat
  <2>1. <<>> \in Seq(Rows) /\ \A t \in Transactions : t \in Seq(Rows)
    BY TransactionsAreSequences
  <2>2. \A t \in Transactions \cup {<<>>} : t \in Seq(Rows)
    BY <2>1, Zenon
  <2> QED
    BY <2>2
<1>1. ASSUME NEW c \in Clients, Begin(c)
      PROVE  TypeOK'
  <2>1. taken[c] = 0
    BY <1>1, <1>0 DEF TypeOK, Begin, Transaction
  <2>2. Held(c)' = {} /\ \A d \in Clients \ {c} : Held(d)' = Held(d)
    BY <1>1, <2>1 DEF TypeOK, Begin, Held
  <2>3. /\ script' \in [Clients -> Transactions \cup {<<>>}]
        /\ taken' = taken
        /\ \A d \in Clients \ {c} : script'[d] = script[d]
    BY <1>1 DEF TypeOK, Begin
  <2>4. \A d \in Clients : taken'[d] <= Len(script'[d])
    <3>1. taken'[c] <= Len(script'[c])
      BY <1>0, <2>1, <2>3
    <3> QED
      BY <2>3, <3>1 DEF TypeOK
  <2>5. \A d, e \in Clients : d # e => Held(d)' \cap Held(e)' = {}
    BY <2>2 DEF TypeOK
  <2> QED
    BY <2>3, <2>4, <2>5 DEF TypeOK
<1>2. ASSUME NEW c \in Clients, Lock(c)
      PROVE  TypeOK'
  <2>1. Held(c)' = Held(c) \cup {Wanted(c)}
    BY <1>2, <1>0 DEF TypeOK, Lock, Held, Wanted, Asks
  <2>2. \A d \in Clients \ {c} : Held(d)' = Held(d) /\ Wanted(c) \notin Held(d)
    BY <1>2 DEF TypeOK, Lock, Held, WaitsFor
  <2>3. \A d, e \in Clients : d # e => Held(d)' \cap Held(e)' = {}
    BY <2>1, <2>2 DEF TypeOK
  <2> QED
    BY <1>2, <1>0, <2>3 DEF TypeOK, Lock, Asks
<1>3. ASSUME NEW c \in Clients, End(c)
      PROVE  TypeOK'
  <2>1. Held(c)' = {} /\ \A d \in Clients \ {c} : Held(d)' = Held(d)
    BY <1>3 DEF TypeOK, End, Held
  <2> QED
    BY <1>3, <1>0, <2>1 DEF TypeOK, End
<1>4. CASE UNCHANGED vars
  <2>1. \A c \in Clients : Held(c)' = Held(c)
    BY <1>4 DEF vars, Held
  <2> QED
    BY <1>4, <2>1 DEF TypeOK, vars
<1> QED
  BY <1>1, <1>2, <1>3, <1>4 DEF Next

\* However many connections there are, and whichever operations they run, a
\* row has one holder: the locks of transactions never overlap.
THEOREM TypeCorrect == Spec => []TypeOK
<1>1. Init => TypeOK
  BY DEF Init, TypeOK, Held
<1> QED
  BY <1>1, TypeInductive, PTL DEF Spec

-----------------------------------------------------------------------------
(* No deadlock.                                                            *)

LEMMA NatHasMinimum ==
    ASSUME NEW T, T \subseteq Nat, T # {}
    PROVE  \E x \in T : \A y \in T : ~(y < x)
<1> DEFINE R == {p \in Nat \X Nat : p[1] < p[2]}
<1>1. IsWellFoundedOn(R, Nat)
  BY NatLessThanWellFounded DEF OpToRel
<1> HIDE DEF R
<1>2. \E x \in T : \A y \in T : ~(<<y, x>> \in R)
  BY <1>1, WFMin
<1> QED
  BY <1>2 DEF R

\* What is known of a client that waits: its transaction keeps the order, and
\* so do the locks it has with the one it wants.
LEMMA Waiting ==
    ASSUME NEW n \in Nat, Materials \subseteq 0..n, Operations = {}, TypeOK,
           NEW c \in Clients, Asks(c)
    PROVE  /\ Keeps(n, script[c])
           /\ taken[c] \in Nat /\ taken[c] + 1 \in 1..Len(script[c])
           /\ Wanted(c) \in Rows
           /\ Wanted(c).kind \in Guarded => Row("slot", Wanted(c).of) \in Held(c)
<1>1. taken[c] \in Nat /\ script[c] \in Transactions
  BY DEF TypeOK, Asks
<1>2. Keeps(n, script[c])
  BY <1>1, AllKeep
<1>3. taken[c] + 1 \in 1..Len(script[c]) /\ Wanted(c) \in Rows
  BY <1>1, <1>2 DEF Asks, Wanted, Keeps
<1>4. ASSUME Wanted(c).kind \in Guarded
      PROVE  Row("slot", Wanted(c).of) \in Held(c)
  <2>1. PICK i \in 1..Len(script[c]) :
           i < taken[c] + 1 /\ script[c][i] = Row("slot", Wanted(c).of)
    BY <1>2, <1>3, <1>4 DEF Wanted, Keeps, UnderSlot
  <2> QED
    BY <2>1, <1>1 DEF Held
<1> QED
  BY <1>1, <1>2, <1>3, <1>4

\* A client that waits does not want a guarded row: it would share the row of
\* the slot with the holder.
LEMMA WantsUnguarded ==
    ASSUME NEW n \in Nat, Materials \subseteq 0..n, Operations = {}, TypeOK,
           NEW c \in Clients, NEW d \in Clients, WaitsFor(c, d), Asks(d)
    PROVE  Wanted(c).kind \notin Guarded
<1>1. PICK j \in 1..taken[d] : script[d][j] = Wanted(c)
  BY DEF WaitsFor, Held
<1>2. SUFFICES ASSUME Wanted(c).kind \in Guarded
               PROVE  FALSE
  OBVIOUS
<1>3. Row("slot", Wanted(c).of) \in Held(c)
  BY <1>2, Waiting DEF WaitsFor
<1>4. Keeps(n, script[d]) /\ taken[d] \in Nat /\ taken[d] + 1 \in 1..Len(script[d])
  BY Waiting
<1>5. PICK i \in 1..Len(script[d]) :
         i < j /\ script[d][i] = Row("slot", Wanted(c).of)
  <2>1. j \in 1..Len(script[d]) /\ script[d][j].kind \in Guarded
    BY <1>1, <1>2, <1>4 DEF Keeps
  <2> QED
    BY <1>1, <1>4, <2>1 DEF Keeps, UnderSlot
<1>6. Row("slot", Wanted(c).of) \in Held(d)
  BY <1>1, <1>4, <1>5 DEF Held
<1> QED
  BY <1>3, <1>6 DEF WaitsFor, TypeOK

\* A client that waits wants a row below the one its holder wants.
LEMMA WaitingClimbs ==
    ASSUME NEW n \in Nat, Materials \subseteq 0..n, Operations = {}, TypeOK,
           NEW c \in Clients, NEW d \in Clients, WaitsFor(c, d), Asks(d),
           Wanted(d).kind \notin Guarded
    PROVE  Rank(n, Wanted(c)) < Rank(n, Wanted(d))
<1>1. PICK j \in 1..taken[d] : script[d][j] = Wanted(c)
  BY DEF WaitsFor, Held
<1>2. Keeps(n, script[d]) /\ taken[d] \in Nat /\ taken[d] + 1 \in 1..Len(script[d])
  BY Waiting
<1>3. Wanted(c).kind \notin Guarded
  BY WantsUnguarded
<1> QED
  BY <1>1, <1>2, <1>3 DEF Wanted, Keeps, Ordered

LEMMA RankType ==
    ASSUME NEW n \in Nat, Materials \subseteq 0..n,
           NEW row \in Rows, row.kind \notin Guarded
    PROVE  Rank(n, row) \in 0..(5 * (n + 1))
<1>1. row.of \in 0..n /\ row.kind \in Kinds \ Guarded
  BY DEF Rows
<1>2. Place[row.kind] \in {0, 1, 2, 3, 4}
  BY <1>1, PlaceValues DEF Kinds, Guarded
<1> QED
  BY <1>1, <1>2 DEF Rank

\* Without the repair and the rebuild no transactions ever wait for each
\* other in a ring: the one that wants the highest row waits for nobody who
\* waits.
THEOREM NoDeadlocks ==
    ASSUME Operations = {}
    PROVE  Spec => []NoDeadlock
<1>1. ASSUME TypeOK
      PROVE  NoDeadlock
  <2>1. PICK n \in Nat : Materials \subseteq 0..n
    BY LockAssumption DEF Materials
  <2>2. SUFFICES ASSUME NEW S \in SUBSET Clients, S # {},
                        \A c \in S : \E d \in S : WaitsFor(c, d)
                 PROVE  FALSE
    BY DEF NoDeadlock
  <2>3. \A c \in S : /\ Wanted(c) \in Rows
                    /\ Wanted(c).kind \notin Guarded
                    /\ Rank(n, Wanted(c)) \in 0..(5 * (n + 1))
    <3>1. SUFFICES ASSUME NEW c \in S
                   PROVE  /\ Wanted(c) \in Rows
                          /\ Wanted(c).kind \notin Guarded
                          /\ Rank(n, Wanted(c)) \in 0..(5 * (n + 1))
      OBVIOUS
    <3>2. PICK d \in S : WaitsFor(c, d) /\ Asks(c) /\ Asks(d)
      BY <2>2 DEF WaitsFor
    <3>3. Wanted(c) \in Rows /\ Wanted(c).kind \notin Guarded
      BY <1>1, <2>1, <3>2, Waiting, WantsUnguarded
    <3> QED
      BY <2>1, <3>3, RankType
  <2> DEFINE Below(c) == 5 * (n + 1) - Rank(n, Wanted(c))
             T == {Below(c) : c \in S}
  <2>4. \A c \in S : Below(c) \in Nat
    BY <2>3
  <2>5. T \subseteq Nat /\ T # {}
    BY <2>2, <2>4
  <2>6. PICK x \in T : \A y \in T : ~(y < x)
    BY <2>5, NatHasMinimum
  <2>7. PICK c \in S : x = Below(c)
    BY <2>6
  <2>8. PICK d \in S : WaitsFor(c, d) /\ Asks(d)
    BY <2>2 DEF WaitsFor
  <2>9. Rank(n, Wanted(c)) < Rank(n, Wanted(d))
    BY <1>1, <2>1, <2>3, <2>8, WaitingClimbs
  <2>10. Below(d) < Below(c) /\ Below(d) \in T
    BY <2>3, <2>9
  <2> QED
    BY <2>6, <2>7, <2>10
<1> QED
  BY <1>1, TypeCorrect, PTL
=============================================================================
