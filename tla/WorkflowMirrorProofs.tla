------------------------ MODULE WorkflowMirrorProofs ------------------------
(***************************************************************************)
(* Theorems about WorkflowMirror, for any issues, calls and bounds.        *)
(***************************************************************************)
EXTENDS WorkflowMirror, TLAPS

\* How a snapshot stands to the file it was taken of: of a file lost since, or
\* no later than the file and, at the same revision, equal to it.
Follows(s) ==
    /\ s.life <= file.life
    /\ s.life = file.life =>
        /\ s.revision <= file.revision
        /\ file.revision > 0 /\ s.revision = file.revision => Content(s) = Content(file)

MirrorInv ==
    /\ TypeOK
    /\ file.packages <= file.revision
    /\ Follows(mirror)
    /\ \A c \in Callers : call[c] # NoCall => Follows(call[c])

-----------------------------------------------------------------------------
(* What the operators return.                                              *)

LEMMA EmptyIsState ==
    ASSUME NEW n \in 0..MaxLosses
    PROVE  /\ Empty(n) \in States
           /\ Empty(n).revision = 0 /\ Empty(n).packages = 0 /\ Empty(n).life = n
  BY WorkflowAssumption DEF Empty, States

\* A snapshot that carries a revision is mirrored as it is.
LEMMA MirroredIsSnapshot ==
    ASSUME NEW s \in States, s.revision > 0
    PROVE  Mirrored(s) = s
  BY DEF Mirrored, States

\* The writes of the file: one revision later, in the same life.
LEMMA WrittenType ==
    ASSUME NEW s \in States, s.revision < MaxRevision, s.packages <= s.revision + 1
    PROVE  /\ Written(s) \in States
           /\ Written(s).revision = s.revision + 1
           /\ Written(s).life = s.life
           /\ Written(s).packages = s.packages
  BY WorkflowAssumption DEF Written, States

-----------------------------------------------------------------------------
(* The inductive step.                                                     *)

\* A write, with or without a snapshot for c.
LEMMA WriteKeeps ==
    ASSUME MirrorInv,
           file' \in States, file'.life = file.life,
           file'.revision = file.revision + 1,
           file'.packages <= file'.revision,
           UNCHANGED mirror,
           \/ UNCHANGED call
           \/ \E c \in Callers : call' = [call EXCEPT ![c] = file'],
           signal' \in {"none", "synced", "pending_retry"},
           UNCHANGED faults
    PROVE  MirrorInv'
  <1>1. file.revision \in Nat /\ file.life \in Nat
    BY WorkflowAssumption DEF MirrorInv, TypeOK, States
  <1>2. ASSUME NEW s \in States, Follows(s) PROVE Follows(s)'
    <2>1. s.revision \in Nat /\ s.life \in Nat
      BY WorkflowAssumption DEF States
    <2> QED BY <1>1, <1>2, <2>1 DEF Follows
  <1>3. \A c \in Callers : call'[c] = call[c] \/ call'[c] = file'
    BY DEF MirrorInv, TypeOK
  <1>4. file'.revision \in Nat /\ file'.life \in Nat
    BY <1>1
  <1>5. Follows(file)'
    BY <1>4 DEF Follows
  <1>6. TypeOK'
    <2>1. call' \in [Callers -> States \cup {NoCall}]
      BY DEF MirrorInv, TypeOK
    <2>2. \A c \in Callers : call'[c] # NoCall => call'[c].revision > 0
      BY <1>1, <1>3 DEF MirrorInv, TypeOK
    <2> QED BY <2>1, <2>2 DEF MirrorInv, TypeOK
  <1>7. Follows(mirror)'
    BY <1>2 DEF MirrorInv, TypeOK, Follows
  <1>8. \A c \in Callers : call'[c] # NoCall => Follows(call[c])'
    <2> SUFFICES ASSUME NEW c \in Callers, call'[c] # NoCall PROVE Follows(call[c])'
      OBVIOUS
    <2>1. CASE call'[c] = file'
      BY <1>5, <2>1 DEF Follows
    <2>2. CASE call'[c] = call[c]
      <3>1. call[c] \in States /\ Follows(call[c])
        BY <2>2 DEF MirrorInv, TypeOK
      <3> QED BY <1>2, <2>2, <3>1 DEF Follows
    <2> QED BY <1>3, <2>1, <2>2
  <1> QED BY <1>6, <1>7, <1>8 DEF MirrorInv

\* The end of a call, with or without its transaction.
LEMMA ReturnKeeps ==
    ASSUME MirrorInv, NEW c \in Callers, call[c] # NoCall, Return(c),
           UNCHANGED file,
           mirror' = mirror \/ mirror' = Mirrored(call[c]),
           signal' \in {"none", "synced", "pending_retry"},
           faults' \in 0..MaxFaults
    PROVE  MirrorInv'
  <1>1. Mirrored(call[c]) = call[c]
    BY MirroredIsSnapshot DEF MirrorInv, TypeOK
  <1>2. mirror' \in States /\ Follows(mirror)'
    BY <1>1 DEF MirrorInv, TypeOK, Follows
  <1>3. \A d \in Callers : call'[d] # NoCall => call'[d] = call[d]
    BY DEF MirrorInv, TypeOK, Return
  <1>4. TypeOK'
    BY <1>2, <1>3 DEF MirrorInv, TypeOK, Return
  <1>5. \A d \in Callers : call'[d] # NoCall => Follows(call[d])'
    BY <1>3 DEF MirrorInv, Follows
  <1> QED BY <1>2, <1>4, <1>5 DEF MirrorInv

\* MirrorInv is inductive.
LEMMA MirrorInductive == Spec => []MirrorInv
  <1>1. Init => MirrorInv
    <2> SUFFICES ASSUME Init PROVE MirrorInv
      OBVIOUS
    <2>1. 0 \in 0..MaxLosses
      BY WorkflowAssumption
    <2>2. PICK f \in [Issues -> {"absent", "confirmed"}] :
            file = [Empty(0) EXCEPT !.issues = f]
      BY DEF Init
    <2>3. file \in States /\ file.life = 0 /\ file.revision = 0 /\ file.packages = 0
      BY <2>1, <2>2, EmptyIsState DEF States, Statuses, Empty
    <2>4. mirror \in States /\ mirror.life = 0 /\ mirror.revision = 0
      BY <2>1, EmptyIsState DEF Init
    <2> QED
      BY <2>3, <2>4, WorkflowAssumption DEF Init, MirrorInv, TypeOK, Follows
  <1>2. MirrorInv /\ [Next]_vars => MirrorInv'
    <2> SUFFICES ASSUME MirrorInv, [Next]_vars PROVE MirrorInv'
      OBVIOUS
    <2>0. /\ TypeOK /\ file \in States
          /\ signal \in {"none", "synced", "pending_retry"}
          /\ file.revision \in Nat /\ file.packages \in Nat
          /\ file.packages <= file.revision
          /\ file.issues \in [Issues -> Statuses \cup {"absent"}]
      BY WorkflowAssumption DEF MirrorInv, TypeOK, States
    <2>1. ASSUME NEW c \in Callers, NEW i \in Issues, CreatePackage(c, i)
          PROVE  MirrorInv'
      <3> DEFINE s == [file EXCEPT !.issues[i] = "in_package", !.packages = @ + 1]
      <3>1. s \in States /\ s.revision = file.revision /\ s.life = file.life
            /\ s.packages = file.packages + 1
        <4>1. file.packages + 1 \in 0..MaxRevision
          BY <2>0, <2>1, WorkflowAssumption DEF CreatePackage, CanWrite
        <4> QED BY <2>0, <4>1 DEF States, Statuses
      <3> HIDE DEF s
      <3>2. /\ file' = Written(s) /\ UNCHANGED <<mirror, signal, faults>>
            /\ call' = [call EXCEPT ![c] = file'] /\ file.revision < MaxRevision
        BY <2>1 DEF s, CreatePackage, Persist, CanWrite
      <3>3. /\ file' \in States /\ file'.life = file.life
            /\ file'.revision = file.revision + 1
            /\ file'.packages = file.packages + 1
        BY <2>0, <3>1, <3>2, WrittenType
      <3>4. \E d \in Callers : call' = [call EXCEPT ![d] = file']
        BY <3>2
      <3>5. /\ file'.packages <= file'.revision
            /\ UNCHANGED mirror /\ UNCHANGED faults
            /\ signal' \in {"none", "synced", "pending_retry"}
        BY <2>0, <3>2, <3>3
      <3> QED BY <3>3, <3>4, <3>5, WriteKeeps
    <2>2. ASSUME NEW c \in Callers, NEW i \in Issues, NEW st \in Statuses,
                 UpdateIssue(c, i, st)
          PROVE  MirrorInv'
      <3> DEFINE s == [file EXCEPT !.issues[i] = st]
      <3>1. s \in States /\ s.revision = file.revision /\ s.life = file.life
            /\ s.packages = file.packages
        BY <2>0 DEF States
      <3> HIDE DEF s
      <3>2. /\ file' = Written(s) /\ UNCHANGED <<mirror, signal, faults>>
            /\ call' = [call EXCEPT ![c] = file'] /\ file.revision < MaxRevision
        BY <2>2 DEF s, UpdateIssue, Persist, CanWrite
      <3>3. /\ file' \in States /\ file'.life = file.life
            /\ file'.revision = file.revision + 1
            /\ file'.packages = file.packages
        BY <2>0, <3>1, <3>2, WrittenType
      <3>4. \E d \in Callers : call' = [call EXCEPT ![d] = file']
        BY <3>2
      <3>5. /\ file'.packages <= file'.revision
            /\ UNCHANGED mirror /\ UNCHANGED faults
            /\ signal' \in {"none", "synced", "pending_retry"}
        BY <2>0, <3>2, <3>3
      <3> QED BY <3>3, <3>4, <3>5, WriteKeeps
    <2>3. ASSUME NEW i \in Issues, NEW st \in {"pending", "no_issue"}, SetIgnored(i, st)
          PROVE  MirrorInv'
      <3> DEFINE s == [file EXCEPT !.issues[i] = st]
      <3>1. s \in States /\ s.revision = file.revision /\ s.life = file.life
            /\ s.packages = file.packages
        BY <2>0 DEF States, Statuses
      <3> HIDE DEF s
      <3>2. /\ file' = Written(s) /\ UNCHANGED <<mirror, call, faults>>
            /\ signal' = "pending_retry" /\ file.revision < MaxRevision
        BY <2>3 DEF s, SetIgnored, CanWrite
      <3>3. /\ file' \in States /\ file'.life = file.life
            /\ file'.revision = file.revision + 1
            /\ file'.packages = file.packages
        BY <2>0, <3>1, <3>2, WrittenType
      <3> QED BY <2>0, <3>2, <3>3, WriteKeeps
    <2>4. CASE WriteLock
      <3>1. /\ file' \in States /\ file'.life = file.life
            /\ file'.revision = file.revision + 1
            /\ file'.packages = file.packages
        BY <2>0, <2>4, WrittenType DEF WriteLock, CanWrite
      <3> QED BY <2>0, <2>4, <3>1, WriteKeeps DEF WriteLock
    <2>5. ASSUME NEW c \in Callers, Sync(c) PROVE MirrorInv'
      <3>1. /\ UNCHANGED <<mirror, signal, faults>>
            /\ call' = [call EXCEPT ![c] = file']
        BY <2>5 DEF Sync, Persist
      <3>2. CASE file.revision = 0
        <4>1. /\ file' \in States /\ file'.life = file.life
              /\ file'.revision = file.revision + 1
              /\ file'.packages = file.packages
          BY <2>0, <2>5, <3>2, WrittenType, WorkflowAssumption DEF Sync
        <4>2. \E d \in Callers : call' = [call EXCEPT ![d] = file']
          BY <3>1
        <4>3. /\ file'.packages <= file'.revision
              /\ UNCHANGED mirror /\ UNCHANGED faults
              /\ signal' \in {"none", "synced", "pending_retry"}
          BY <2>0, <3>1, <4>1
        <4> QED BY <4>1, <4>2, <4>3, WriteKeeps
      <3>3. CASE file.revision # 0
        <4>1. file' = file
          BY <2>5, <3>3 DEF Sync
        <4>2. \A d \in Callers : call'[d] = call[d] \/ call'[d] = file
          BY <2>0, <3>1, <4>1 DEF TypeOK
        <4>3. Follows(file)
          BY <2>0, WorkflowAssumption DEF Follows, States
        <4>4. TypeOK'
          <5>1. call' \in [Callers -> States \cup {NoCall}]
            BY <2>0, <3>1, <4>1 DEF TypeOK
          <5>2. \A d \in Callers : call'[d] # NoCall => call'[d].revision > 0
            BY <2>0, <3>3, <4>2 DEF TypeOK
          <5> QED BY <2>0, <3>1, <4>1, <5>1, <5>2 DEF TypeOK
        <4>5. \A d \in Callers : call'[d] # NoCall => Follows(call[d])'
          BY <4>1, <4>2, <4>3 DEF MirrorInv, Follows
        <4> QED BY <2>0, <3>1, <4>1, <4>4, <4>5 DEF MirrorInv, Follows
      <3> QED BY <3>2, <3>3
    <2>6. ASSUME NEW c \in Callers,
                 Mirror(c) \/ MirrorFails(c) \/ MirrorUnheard(c) \/ Crash(c)
          PROVE  MirrorInv'
      <3>1. /\ call[c] # NoCall /\ Return(c) /\ UNCHANGED file
            /\ mirror' = mirror \/ mirror' = Mirrored(call[c])
        BY <2>6 DEF Mirror, MirrorFails, MirrorUnheard, Crash
      <3>2. /\ signal' \in {"none", "synced", "pending_retry"}
            /\ faults' \in 0..MaxFaults
        BY <2>0, <2>6, WorkflowAssumption
        DEF Mirror, MirrorFails, MirrorUnheard, Crash, TypeOK
      <3> QED BY <3>1, <3>2, ReturnKeeps
    <2>7. CASE Lose
      <3>1. file.life + 1 \in 0..MaxLosses /\ file.life \in Nat
        BY <2>0, <2>7, WorkflowAssumption DEF Lose, TypeOK, States
      <3>2. file' \in States /\ file'.life = file.life + 1
            /\ file'.revision = 0 /\ file'.packages = 0
        BY <2>7, <3>1, EmptyIsState DEF Lose
      <3>3. ASSUME NEW s \in States, Follows(s) PROVE s.life < file'.life
        BY <3>1, <3>2, <3>3, WorkflowAssumption DEF Follows, States
      <3>4. TypeOK'
        BY <2>0, <2>7, <3>2 DEF Lose, TypeOK
      <3>5. Follows(mirror)'
        <4>1. mirror.life < file'.life /\ mirror.life \in Nat
          BY <3>3, WorkflowAssumption DEF MirrorInv, TypeOK, States
        <4> QED BY <2>7, <3>1, <3>2, <4>1 DEF Lose, Follows
      <3>6. \A c \in Callers : call'[c] # NoCall => Follows(call[c])'
        <4> SUFFICES ASSUME NEW c \in Callers, call[c] # NoCall PROVE Follows(call[c])'
          BY <2>7 DEF Lose, Follows
        <4>1. call[c].life < file'.life /\ call[c].life \in Nat
          BY <3>3, WorkflowAssumption DEF MirrorInv, TypeOK, States
        <4> QED BY <2>7, <3>1, <3>2, <4>1 DEF Lose, Follows
      <3> QED BY <3>2, <3>4, <3>5, <3>6 DEF MirrorInv
    <2>8. CASE UNCHANGED vars
      BY <2>8 DEF vars, MirrorInv, TypeOK, Follows
    <2> QED BY <2>1, <2>2, <2>3, <2>4, <2>5, <2>6, <2>7, <2>8 DEF Next
  <1> QED BY <1>1, <1>2, PTL DEF Spec

-----------------------------------------------------------------------------
(* The theorems.                                                           *)

\* File, mirror, snapshots and signal keep their shape, and every snapshot
\* that waits to be mirrored carries a revision.
THEOREM TypeCorrect == Spec => []TypeOK
  <1>1. MirrorInv => TypeOK
    BY DEF MirrorInv
  <1> QED BY <1>1, MirrorInductive, PTL

\* The mirror never claims a revision of the file in use whose content it does
\* not have, whatever the order in which calls arrive, fail or go unheard.
THEOREM MirrorCorrect == Spec => []MirrorIsFile
  <1>1. MirrorInv => MirrorIsFile
    BY DEF MirrorInv, Follows, MirrorIsFile
  <1> QED BY <1>1, MirrorInductive, PTL

\* A mirror never takes the revision back, not even after the file was lost.
THEOREM NeverBack == Spec => MirrorForward
  <1>1. MirrorInv /\ [Next]_vars => [mirror'.revision >= mirror.revision]_vars
    <2> SUFFICES ASSUME MirrorInv, Next PROVE mirror'.revision >= mirror.revision
      BY DEF vars
    <2>1. mirror.revision \in Nat
      BY WorkflowAssumption DEF MirrorInv, TypeOK, States
    <2>2. ASSUME NEW c \in Callers, call[c] # NoCall, ~Covered(call[c])
          PROVE  Mirrored(call[c]).revision >= mirror.revision
      <3>1. /\ call[c] \in States /\ call[c].revision > 0
            /\ call[c].revision \in Nat
        BY <2>2, WorkflowAssumption DEF MirrorInv, TypeOK, States
      <3>2. ~(mirror.revision > call[c].revision)
        BY <2>2, <3>1 DEF Covered
      <3> QED BY <2>1, <3>1, <3>2, MirroredIsSnapshot
    <2>3. \/ mirror' = mirror
          \/ \E c \in Callers : /\ call[c] # NoCall /\ ~Covered(call[c])
                                /\ mirror' = Mirrored(call[c])
      BY DEF Next, CreatePackage, UpdateIssue, SetIgnored, WriteLock, Sync, Mirror,
             MirrorFails, MirrorUnheard, Crash, Lose
    <2> QED BY <2>1, <2>2, <2>3
  <1> QED BY <1>1, MirrorInductive, PTL DEF Spec, MirrorForward
=============================================================================
