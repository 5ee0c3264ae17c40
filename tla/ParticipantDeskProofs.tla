------------------------ MODULE ParticipantDeskProofs ------------------------
(***************************************************************************)
(* Theorems about ParticipantDesk, for every set of participants and of    *)
(* workers, every choice of operations and both databases.                 *)
(***************************************************************************)
EXTENDS ParticipantDesk, FiniteSetTheorems, TLAPS

USE DeskAssumption

(***************************************************************************)
(* Types.  A save writes back a row that was a row when it was loaded.     *)
(***************************************************************************)
LEMMA ReviewedType ==
  ASSUME NEW r \in Row, NEW a \in ReviewActions
  PROVE  Reviewed(r, a) \in Row
<1>1. a \in {"approve", "reject", "waitlist", "need_info", "ban", "block_certificate"}
  BY DEF DeskAssumption, Transition
<1>2. Transition[a] \in Statuses
  BY <1>1 DEF Transition, Statuses
<1> QED
  BY <1>2 DEF Reviewed, Row

LEMMA FullSaveType ==
  ASSUME TypeOK, NEW w \in Workers, local[w] \in Holding, NEW r \in Row, FullSave(w, r)
  PROVE  TypeOK'
  BY DEF TypeOK, FullSave, Holding, Done

\* A worker whose op is a full-row op holds a row; one whose op is a scan's does not.
LEMMA LocalShape ==
  ASSUME TypeOK, NEW w \in Workers
  PROVE  /\ local[w].op \in FullRowOps => local[w] \in Holding
         /\ local[w].op \in ScanOps \union {"refused"} => local[w] \in Scanning
         /\ local[w].op = "idle" => local[w] = Idle
         /\ local[w] # Idle => local[w].who \in Participants
  BY DEF TypeOK, FullRowOps, ScanOps, Idle, Scanning, Holding

\* Every full-row save writes a row that differs from the one loaded only in the
\* columns its handler sets; only a REST update sets the mark.
LEMMA FullSaveOfRow ==
  ASSUME TypeOK, NEW w \in Workers, Review(w) \/ Edit(w) \/ Patch(w)
  PROVE  /\ local[w] \in Holding
         /\ \E r \in Row : /\ FullSave(w, r)
                           /\ Patch(w) \/ r.checked_in = local[w].row.checked_in
<1>1. local[w] \in Holding
  BY LocalShape DEF Review, Edit, Patch, FullRowOps
<1>2. CASE Review(w)
  <2>1. PICK a \in ReviewActions : FullSave(w, Reviewed(local[w].row, a))
    BY <1>2 DEF Review
  <2>2. Reviewed(local[w].row, a) \in Row
        /\ Reviewed(local[w].row, a).checked_in = local[w].row.checked_in
    BY <1>1, ReviewedType DEF Holding, Row, Reviewed
  <2> QED
    BY <1>1, <2>1, <2>2
<1>3. CASE Edit(w)
  <2>1. PICK s \in EditStatuses, b \in BOOLEAN, c \in BOOLEAN :
          FullSave(w, [local[w].row EXCEPT !.status = s, !.is_blacklisted = b,
                                           !.certificate_blocked = c])
    BY <1>3 DEF Edit
  <2> DEFINE r == [local[w].row EXCEPT !.status = s, !.is_blacklisted = b,
                                       !.certificate_blocked = c]
  <2>2. r \in Row /\ r.checked_in = local[w].row.checked_in
    BY <1>1 DEF Holding, Row
  <2>3. FullSave(w, r)
    BY <2>1
  <2> HIDE DEF r
  <2> QED
    BY <1>1, <2>2, <2>3
<1>4. CASE Patch(w)
  <2>1. PICK c \in BOOLEAN : FullSave(w, [local[w].row EXCEPT !.checked_in = c])
    BY <1>4 DEF Patch
  <2>2. [local[w].row EXCEPT !.checked_in = c] \in Row
    BY <1>1 DEF Holding, Row
  <2> QED
    BY <1>1, <1>4, <2>1, <2>2
<1> QED
  BY <1>2, <1>3, <1>4

\* The writers that hold nothing from an earlier step.
OtherWrite(w) ==
  \/ \E p \in Participants : RecordViolation(w, p) \/ SoftDelete(w, p)
  \/ \E S \in SUBSET Participants, a \in ReviewActions : BulkReview(w, S, a)

\* What they keep of every row: the mark of a check-in.
LEMMA MarksKept ==
  ASSUME TypeOK, NEW w \in Workers, OtherWrite(w)
  PROVE  \A q \in Participants : row'[q].checked_in = row[q].checked_in
<1> SUFFICES ASSUME NEW q \in Participants PROVE row'[q].checked_in = row[q].checked_in
  OBVIOUS
<1>1. row[q] \in Row
  BY DEF TypeOK
<1>2. ASSUME NEW p \in Participants, RecordViolation(w, p)
      PROVE  row'[q].checked_in = row[q].checked_in
  BY <1>1, <1>2 DEF TypeOK, Row, RecordViolation
<1>3. ASSUME NEW p \in Participants, SoftDelete(w, p)
      PROVE  row'[q].checked_in = row[q].checked_in
  BY <1>1, <1>3 DEF TypeOK, Row, SoftDelete
<1>4. ASSUME NEW S \in SUBSET Participants, NEW a \in ReviewActions, BulkReview(w, S, a)
      PROVE  row'[q].checked_in = row[q].checked_in
  <2>1. Reviewed(row[q], a).checked_in = row[q].checked_in
    BY <1>1 DEF Row, Reviewed
  <2> QED
    BY <1>4, <2>1 DEF BulkReview
<1> QED
  BY <1>2, <1>3, <1>4 DEF OtherWrite

\* Every variable keeps the type the columns and the request states have in the
\* code: statuses are RegistrationStatus choices, counters never go negative.
THEOREM DeskTypeCorrect == Spec => []TypeOK
<1>1. Init => TypeOK
  <2> SUFFICES ASSUME Init PROVE TypeOK
    OBVIOUS
  <2>1. row \in [Participants -> Row]
    <3>1. \A s \in {"approved", "pending_review", "submitted", "waitlisted"} : Fresh(s) \in Row
      BY DEF Fresh, Row, Statuses
    <3> QED
      BY <3>1 DEF Init
  <2>2. local \in [Workers -> {Idle} \union Scanning \union Holding]
    BY DEF Init
  <2>3. admissions \in [Participants -> Nat] /\ erasures \in [Participants -> Nat]
    BY DEF Init
  <2> QED
    BY <2>1, <2>2, <2>3 DEF Init, TypeOK
<1>2. TypeOK /\ [Next]_vars => TypeOK'
  <2> SUFFICES ASSUME TypeOK, [Next]_vars PROVE TypeOK'
    OBVIOUS
  <2>1. ASSUME NEW w \in Workers, NEW p \in Participants, NEW op \in FullRowOps, LoadRow(w, p, op)
        PROVE  TypeOK'
    <3> DEFINE held == [op |-> op, who |-> p, row |-> row[p]]
    <3>1. held \in Holding
      BY DEF TypeOK, Holding
    <3>2. local' = [local EXCEPT ![w] = held]
      BY <2>1 DEF LoadRow
    <3> HIDE DEF held
    <3> QED
      BY <2>1, <3>1, <3>2 DEF TypeOK, LoadRow
  <2>2. ASSUME NEW w \in Workers, NEW p \in Participants, NEW a \in ScanOps, Scan(w, p, a)
        PROVE  TypeOK'
    BY <2>2 DEF TypeOK, Scan, Scanning
  <2>3. ASSUME NEW w \in Workers, NEW p \in Participants, RecordViolation(w, p)
        PROVE  TypeOK'
    <3>1. row[p] \in Row /\ "certificate_blocked" \in Statuses
      BY DEF TypeOK, Statuses
    <3>2. [row[p] EXCEPT !.certificate_blocked = TRUE, !.status = "certificate_blocked"] \in Row
      BY <3>1 DEF Row
    <3>3. row' = [row EXCEPT ![p] = [row[p] EXCEPT !.certificate_blocked = TRUE,
                                                   !.status = "certificate_blocked"]]
      BY <2>3 DEF TypeOK, RecordViolation
    <3> QED
      BY <2>3, <3>2, <3>3 DEF TypeOK, RecordViolation
  <2>4. ASSUME NEW w \in Workers, NEW p \in Participants, SoftDelete(w, p)
        PROVE  TypeOK'
    BY <2>4 DEF TypeOK, SoftDelete, Row
  <2>5. ASSUME NEW w \in Workers, NEW S \in SUBSET Participants, NEW a \in ReviewActions,
               BulkReview(w, S, a)
        PROVE  TypeOK'
    <3>1. \A p \in Participants : Reviewed(row[p], a) \in Row
      BY ReviewedType DEF TypeOK
    <3> QED
      BY <2>5, <3>1 DEF TypeOK, BulkReview
  <2>6. ASSUME NEW w \in Workers, Review(w) \/ Edit(w) \/ Patch(w)
        PROVE  TypeOK'
    BY <2>6, FullSaveOfRow, FullSaveType
  <2>9. ASSUME NEW w \in Workers, CheckIn(w)
        PROVE  TypeOK'
    <3>1. local[w].who \in Participants
      BY <2>9, LocalShape DEF CheckIn, Idle
    <3> QED
      BY <2>9, <3>1 DEF TypeOK, CheckIn, Done, Row, Statuses
  <2>10. ASSUME NEW w \in Workers, CheckOut(w)
         PROVE  TypeOK'
    <3>1. local[w].who \in Participants
      BY <2>10, LocalShape DEF CheckOut, Idle
    <3> QED
      BY <2>10, <3>1 DEF TypeOK, CheckOut, Done, Row, Statuses
  <2>11. ASSUME NEW w \in Workers, Refuse(w)
         PROVE  TypeOK'
    <3>1. local[w].who \in Participants
      BY <2>11, LocalShape DEF Refuse, Idle
    <3> QED
      BY <2>11, <3>1 DEF TypeOK, Refuse, Done
  <2>12. ASSUME NEW w \in Workers, Abandon(w)
         PROVE  TypeOK'
    BY <2>12 DEF TypeOK, Abandon, Done
  <2>13. CASE UNCHANGED vars
    BY <2>13 DEF TypeOK, vars
  <2> QED
    BY <2>1, <2>2, <2>3, <2>4, <2>5, <2>6, <2>9, <2>10, <2>11, <2>12, <2>13
    DEF Next
<1> QED
  BY <1>1, <1>2, PTL DEF Spec
-----------------------------------------------------------------------------
(***************************************************************************)
(* Marks and logs.                                                         *)
(***************************************************************************)

\* The end of a review or an edit: what it writes back was logged when loaded.
LEMMA FullSaveKeepsHeldMarks ==
  ASSUME TypeOK, HeldMarksAreLogged, NEW w \in Workers, local[w] \in Holding, NEW r \in Row,
         r.checked_in = local[w].row.checked_in, FullSave(w, r)
  PROVE  HeldMarksAreLogged'
<1>1. local[w].who \in Participants /\ local[w].op \in FullRowOps
  BY DEF Holding
<1>2. row' = [row EXCEPT ![local[w].who] = r] /\ admissions' = admissions
  BY DEF FullSave
<1>3. local' = [local EXCEPT ![w] = Idle]
  BY DEF FullSave, Done
<1>4. AdmissionIsLogged'
  BY <1>1, <1>2 DEF TypeOK, HeldMarksAreLogged, AdmissionIsLogged
<1>5. \A v \in Workers : local'[v].op \in FullRowOps => local'[v] = local[v]
  BY <1>3 DEF TypeOK, Idle, FullRowOps
<1> QED
  BY <1>2, <1>4, <1>5 DEF HeldMarksAreLogged

\* As long as no REST update writes checked_in_at by hand, a participant marked
\* as checked in has a committed attendance log, through every interleaving of
\* stale full-row saves with scans (AdmissionIsLogged).
THEOREM MarksAreLogged ==
  ASSUME "patch" \notin Ops
  PROVE  Spec => []AdmissionIsLogged
<1>1. Init => HeldMarksAreLogged
  BY DEF Init, Fresh, Idle, FullRowOps, HeldMarksAreLogged, AdmissionIsLogged
<1>2. TypeOK /\ HeldMarksAreLogged /\ [Next]_vars => HeldMarksAreLogged'
  <2> SUFFICES ASSUME TypeOK, HeldMarksAreLogged, [Next]_vars PROVE HeldMarksAreLogged'
    OBVIOUS
  <2>1. ASSUME NEW w \in Workers, NEW p \in Participants, NEW op \in FullRowOps, LoadRow(w, p, op)
        PROVE  HeldMarksAreLogged'
    <3>1. /\ local' = [local EXCEPT ![w] = [op |-> op, who |-> p, row |-> row[p]]]
          /\ op \in Ops /\ row' = row /\ admissions' = admissions
      BY <2>1 DEF LoadRow
    <3>2. AdmissionIsLogged'
      BY <3>1 DEF HeldMarksAreLogged, AdmissionIsLogged
    <3>3. ASSUME NEW v \in Workers, local'[v].op \in FullRowOps
          PROVE  local'[v].op \in Ops
                 /\ (local'[v].row.checked_in => admissions[local'[v].who] > 0)
      <4>1. CASE v = w
        BY <3>1, <4>1 DEF TypeOK, HeldMarksAreLogged, AdmissionIsLogged
      <4>2. CASE v # w
        BY <3>1, <3>3, <4>2 DEF TypeOK, HeldMarksAreLogged
      <4> QED
        BY <4>1, <4>2
    <3> QED
      BY <3>1, <3>2, <3>3 DEF HeldMarksAreLogged
  <2>2. ASSUME NEW w \in Workers, NEW p \in Participants, NEW a \in ScanOps, Scan(w, p, a)
        PROVE  HeldMarksAreLogged'
    BY <2>2 DEF TypeOK, Scan, ScanOps, FullRowOps, HeldMarksAreLogged, AdmissionIsLogged
  <2>3. ASSUME NEW w \in Workers, OtherWrite(w)
        PROVE  HeldMarksAreLogged'
    <3>1. \A q \in Participants : row'[q].checked_in = row[q].checked_in
      BY <2>3, MarksKept
    <3> QED
      BY <2>3, <3>1
      DEF OtherWrite, RecordViolation, SoftDelete, BulkReview, HeldMarksAreLogged, AdmissionIsLogged
  <2>5. ASSUME NEW w \in Workers, Review(w) \/ Edit(w) \/ Patch(w)
        PROVE  HeldMarksAreLogged'
    <3>1. local[w].op # "patch"
      BY LocalShape DEF HeldMarksAreLogged, FullRowOps
    <3> QED
      BY <2>5, <3>1, FullSaveOfRow, FullSaveKeepsHeldMarks DEF Patch
  <2>8. ASSUME NEW w \in Workers, CheckIn(w)
        PROVE  HeldMarksAreLogged'
    <3>1. local[w].who \in Participants
      BY <2>8, LocalShape DEF CheckIn, Idle
    <3>2. \A q \in Participants : admissions'[q] >= admissions[q]
      BY <2>8, <3>1 DEF TypeOK, CheckIn
    <3>3. admissions'[local[w].who] > 0
      BY <2>8, <3>1 DEF TypeOK, CheckIn
    <3>4. \A q \in Participants : q # local[w].who => row'[q] = row[q]
      BY <2>8, <3>1 DEF TypeOK, CheckIn
    <3>5. \A v \in Workers : local'[v].op \in FullRowOps => local'[v] = local[v]
      BY <2>8 DEF TypeOK, CheckIn, Done, Idle, FullRowOps
    <3>6. AdmissionIsLogged'
      <4>1. ASSUME NEW q \in Participants, row'[q].checked_in
            PROVE  admissions'[q] > 0
        <5>1. CASE q = local[w].who
          BY <3>3, <5>1
        <5>2. CASE q # local[w].who
          <6>1. admissions[q] > 0 /\ admissions[q] \in Nat
            BY <3>4, <4>1, <5>2 DEF TypeOK, HeldMarksAreLogged, AdmissionIsLogged
          <6>2. admissions'[q] = admissions[q]
            BY <2>8, <5>2 DEF TypeOK, CheckIn
          <6> QED
            BY <6>1, <6>2
        <5> QED
          BY <5>1, <5>2
      <4> QED
        BY <4>1 DEF AdmissionIsLogged
    <3>7. \A v \in Workers : local[v].op \in FullRowOps => local[v].who \in Participants
      BY LocalShape DEF Holding
    <3>8. ASSUME NEW v \in Workers, local'[v].op \in FullRowOps
          PROVE  /\ local'[v].op \in Ops
                 /\ local'[v].row.checked_in => admissions'[local'[v].who] > 0
      <4>1. local'[v] = local[v] /\ local[v].who \in Participants
        BY <3>5, <3>7, <3>8
      <4>2. admissions[local[v].who] > 0 => admissions'[local[v].who] > 0
        BY <2>8, <3>1, <4>1 DEF TypeOK, CheckIn
      <4> QED
        BY <3>8, <4>1, <4>2 DEF HeldMarksAreLogged
    <3> QED
      BY <3>6, <3>8 DEF HeldMarksAreLogged
  <2>9. ASSUME NEW w \in Workers, CheckOut(w)
        PROVE  HeldMarksAreLogged'
    <3>1. \A q \in Participants : row'[q].checked_in = row[q].checked_in
      BY <2>9 DEF TypeOK, Row, CheckOut
    <3>2. \A v \in Workers : local'[v].op \in FullRowOps => local'[v] = local[v]
      BY <2>9 DEF TypeOK, CheckOut, Done, Idle, FullRowOps
    <3> QED
      BY <2>9, <3>1, <3>2 DEF CheckOut, HeldMarksAreLogged, AdmissionIsLogged
  <2>10. ASSUME NEW w \in Workers, Refuse(w) \/ Abandon(w)
         PROVE  HeldMarksAreLogged'
    <3>1. \A v \in Workers : local'[v].op \in FullRowOps => local'[v] = local[v]
      BY <2>10 DEF TypeOK, Refuse, Abandon, Done, Idle, FullRowOps
    <3> QED
      BY <2>10, <3>1 DEF Refuse, Abandon, HeldMarksAreLogged, AdmissionIsLogged
  <2>11. CASE UNCHANGED vars
    BY <2>11 DEF vars, HeldMarksAreLogged, AdmissionIsLogged
  <2> QED
    BY <2>1, <2>2, <2>3, <2>5, <2>8, <2>9, <2>10, <2>11 DEF Next, OtherWrite
<1> QED
  BY <1>1, <1>2, DeskTypeCorrect, PTL DEF Spec, HeldMarksAreLogged
-----------------------------------------------------------------------------
(***************************************************************************)
(* How often one code can be admitted.                                     *)
(***************************************************************************)

LEMMA PassedCounts ==
  ASSUME NEW p \in Participants
  PROVE  /\ IsFiniteSet(Passed(p))
         /\ Cardinality(Passed(p)) \in Nat
         /\ Cardinality(Workers) \in Nat
         /\ Cardinality(Passed(p)) <= Cardinality(Workers)
<1>1. Passed(p) \subseteq Workers
  BY DEF Passed
<1>2. IsFiniteSet(Workers)
  BY DEF DeskAssumption
<1> QED
  BY <1>1, <1>2, FS_Subset, FS_CardinalityType

\* A step of a worker that neither was nor becomes an admission in progress.
LEMMA PassedKept ==
  ASSUME TypeOK, NEW w \in Workers, NEW l, local' = [local EXCEPT ![w] = l],
         local[w].op # "checkin", l.op # "checkin"
  PROVE  \A p \in Participants : Passed(p)' = Passed(p)
<1>1. \A v \in Workers : v # w => local'[v] = local[v]
  BY DEF TypeOK
<1>2. local'[w] = l
  BY DEF TypeOK
<1> QED
  BY <1>1, <1>2 DEF Passed

\* The bound of a row whose mark does not change while nobody new passes.
LEMMA FullSaveKeepsBound ==
  ASSUME TypeOK, PassedAreBounded, PreventDuplicate, NEW w \in Workers,
         local[w] \in Holding, NEW r \in Row, FullSave(w, r)
  PROVE  PassedAreBounded'
<1> DEFINE N == Cardinality(Workers)
           q == local[w].who
<1>1. q \in Participants /\ local[w].op # "checkin" /\ Idle.op # "checkin"
  BY DEF Holding, FullRowOps, Idle
<1>2. \A p \in Participants : Passed(p)' = Passed(p)
  BY <1>1, PassedKept DEF FullSave, Done
<1>3. ASSUME NEW p \in Participants
      PROVE  IF row'[p].checked_in
               THEN admissions'[p] + Cardinality(Passed(p)') <= N * (1 + erasures'[p])
               ELSE admissions'[p] <= N * erasures'[p]
  <2> DEFINE a == admissions[p]
             e == erasures[p]
             k == Cardinality(Passed(p))
  <2>1. a \in Nat /\ e \in Nat /\ N \in Nat /\ k \in Nat /\ k <= N /\ admissions'[p] = a
    BY PassedCounts DEF TypeOK, FullSave
  <2>2. IF row[p].checked_in THEN a + k <= N * (1 + e) ELSE a <= N * e
    BY DEF PassedAreBounded
  <2>3. Cardinality(Passed(p)') = k
    BY <1>2
  <2>4. CASE p # q
    <3>1. row'[p] = row[p] /\ erasures'[p] = e
      BY <1>1, <2>4 DEF FullSave, TypeOK
    <3> QED
      BY <2>1, <2>2, <2>3, <3>1
  <2>5. CASE p = q
    <3>1. row'[p] = r
      BY <1>1, <2>5 DEF FullSave, TypeOK
    <3>2. erasures'[p] = IF row[p].checked_in /\ ~r.checked_in THEN e + 1 ELSE e
      BY <1>1, <2>5 DEF FullSave, TypeOK
    <3>3. N * (1 + e) = N * e + N
      BY <2>1
    <3>4. N * (e + 1) = N * (1 + e)
      BY <2>1
    <3> HIDE DEF a, e, k, N, q
    <3>5. CASE row[p].checked_in /\ ~r.checked_in
      <4>1. erasures'[p] = e + 1 /\ a + k <= N * (1 + e)
        BY <2>2, <3>2, <3>5
      <4>2. a <= N * (e + 1)
        <5> DEFINE m == N * (1 + e)
        <5>1. m \in Nat
          BY <2>1
        <5> HIDE DEF m
        <5> QED
          BY <2>1, <3>4, <4>1, <5>1 DEF m
      <4> QED
        BY <2>1, <3>1, <3>5, <4>1, <4>2
    <3>6. CASE ~row[p].checked_in /\ r.checked_in
      <4>1. erasures'[p] = e /\ a <= N * e
        BY <2>2, <3>2, <3>6
      <4> QED
        BY <2>1, <2>3, <3>1, <3>3, <3>6, <4>1
    <3>7. CASE row[p].checked_in <=> r.checked_in
      <4>1. erasures'[p] = e
        BY <3>2, <3>7
      <4> QED
        BY <2>1, <2>2, <2>3, <3>1, <3>7, <4>1
    <3> QED
      BY <3>5, <3>6, <3>7
  <2> QED
    BY <2>4, <2>5
<1> QED
  BY <1>3 DEF PassedAreBounded

\* A step that keeps marks, counters and the admissions in progress.
LEMMA BoundFrame ==
  ASSUME PassedAreBounded, UNCHANGED <<admissions, erasures>>,
         \A p \in Participants : row'[p].checked_in = row[p].checked_in,
         \A p \in Participants : Passed(p)' = Passed(p)
  PROVE  PassedAreBounded'
  BY DEF PassedAreBounded

\* The check-then-write race of perform_checkin is bounded on either database:
\* with duplicate prevention on, a code is admitted at most once per worker and
\* once more per worker for each erased mark (AdmissionsBounded).  Counting the
\* scans that have passed the check makes it inductive.
THEOREM AdmissionsAreBounded == Spec => []AdmissionsBounded
<1>1. Init => PassedAreBounded
  <2> SUFFICES ASSUME Init, NEW p \in Participants
               PROVE  /\ ~row[p].checked_in
                      /\ admissions[p] <= Cardinality(Workers) * erasures[p]
    BY DEF PassedAreBounded
  <2>1. ~row[p].checked_in /\ admissions[p] = 0 /\ erasures[p] = 0
    BY DEF Init, Fresh
  <2> QED
    BY <2>1, PassedCounts
<1>2. TypeOK /\ PassedAreBounded /\ [Next]_vars => PassedAreBounded'
  <2> SUFFICES ASSUME TypeOK, PassedAreBounded, PreventDuplicate, [Next]_vars
               PROVE  PassedAreBounded'
    BY DEF PassedAreBounded
  <2> DEFINE N == Cardinality(Workers)
  <2>1. ASSUME NEW w \in Workers, NEW p \in Participants, NEW op \in FullRowOps, LoadRow(w, p, op)
        PROVE  PassedAreBounded'
    <3> DEFINE l == [op |-> op, who |-> p, row |-> row[p]]
    <3>0. local[w].op # "checkin" /\ l.op # "checkin" /\ local' = [local EXCEPT ![w] = l]
      BY <2>1 DEF LoadRow, Idle, FullRowOps
    <3> HIDE DEF l
    <3>1. \A q \in Participants : Passed(q)' = Passed(q)
      BY <3>0, PassedKept
    <3> QED
      BY <2>1, <3>1, BoundFrame DEF LoadRow
  <2>2. ASSUME NEW w \in Workers, NEW p \in Participants, NEW a \in ScanOps, Scan(w, p, a)
        PROVE  PassedAreBounded'
    <3> DEFINE l == [op |-> IF Refused(row[p], a) THEN "refused" ELSE a, who |-> p]
    <3>1. local' = [local EXCEPT ![w] = l] /\ UNCHANGED <<row, admissions, erasures>>
      BY <2>2 DEF Scan
    <3>2. ASSUME NEW q \in Participants, row[q].checked_in
          PROVE  Passed(q)' = Passed(q)
      <4>1. l.op # "checkin" \/ l.who # q
        BY <3>2 DEF Refused
      <4>2. local[w].op # "checkin"
        BY <2>2 DEF Scan, Idle
      <4> QED
        BY <3>1, <4>1, <4>2 DEF TypeOK, Passed
    <3> QED
      BY <3>1, <3>2 DEF PassedAreBounded
  <2>3. ASSUME NEW w \in Workers, OtherWrite(w)
        PROVE  PassedAreBounded'
    <3>1. \A q \in Participants : row'[q].checked_in = row[q].checked_in
      BY <2>3, MarksKept
    <3>2. \A q \in Participants : Passed(q)' = Passed(q)
      BY <2>3 DEF OtherWrite, RecordViolation, SoftDelete, BulkReview, Passed
    <3> QED
      BY <2>3, <3>1, <3>2, BoundFrame DEF OtherWrite, RecordViolation, SoftDelete, BulkReview
  <2>5. ASSUME NEW w \in Workers, Review(w) \/ Edit(w) \/ Patch(w)
        PROVE  PassedAreBounded'
    BY <2>5, FullSaveOfRow, FullSaveKeepsBound
  <2>6. ASSUME NEW w \in Workers, CheckIn(w)
        PROVE  PassedAreBounded'
    <3>1. PICK q \in Participants : q = local[w].who
      BY <2>6, LocalShape DEF CheckIn, Idle
    <3>2. ASSUME NEW p \in Participants, p # q
          PROVE  /\ Passed(p)' = Passed(p) /\ row'[p] = row[p]
                 /\ admissions'[p] = admissions[p] /\ erasures'[p] = erasures[p]
      BY <2>6, <3>1, <3>2 DEF TypeOK, CheckIn, Done, Idle, Passed
    <3>3. row'[q].checked_in /\ admissions'[q] = admissions[q] + 1 /\ erasures' = erasures
      BY <2>6, <3>1 DEF TypeOK, Row, CheckIn
    <3>4. Passed(q)' = Passed(q) \ {w} /\ w \in Passed(q)
      <4>1. \A v \in Workers : v # w => local'[v] = local[v]
        BY <2>6 DEF TypeOK, CheckIn, Done
      <4>2. local'[w].op # "checkin" /\ local[w].op = "checkin"
        BY <2>6 DEF TypeOK, CheckIn, Done, Idle
      <4> QED
        BY <3>1, <4>1, <4>2 DEF Passed
    <3>5. Cardinality(Passed(q)') = Cardinality(Passed(q)) - 1
      BY <3>1, <3>4, PassedCounts, FS_RemoveElement
    <3>6. admissions'[q] + Cardinality(Passed(q)') <= N * (1 + erasures'[q])
      <4> DEFINE a == admissions[q]
                 e == erasures[q]
                 k == Cardinality(Passed(q))
      <4>1. a \in Nat /\ e \in Nat /\ N \in Nat /\ k \in Nat /\ k <= N
        BY <3>1, PassedCounts DEF TypeOK
      <4>2. IF row[q].checked_in THEN a + k <= N * (1 + e) ELSE a <= N * e
        BY <3>1 DEF PassedAreBounded
      <4>3. N * (1 + e) = N * e + N
        BY <4>1
      <4>4. admissions'[q] + Cardinality(Passed(q)') = a + k
        BY <3>3, <3>5, <4>1
      <4>5. erasures'[q] = e
        BY <3>3
      <4> HIDE DEF a, e, k, N
      <4> QED
        BY <4>1, <4>2, <4>3, <4>4, <4>5
    <3> QED
      BY <3>2, <3>3, <3>6 DEF PassedAreBounded
  <2>7. ASSUME NEW w \in Workers, CheckOut(w) \/ Refuse(w)
        PROVE  PassedAreBounded'
    <3>1. \A p \in Participants : row'[p].checked_in = row[p].checked_in
      BY <2>7 DEF TypeOK, Row, CheckOut, Refuse
    <3>2. \A p \in Participants : Passed(p)' = Passed(p)
      BY <2>7, PassedKept DEF CheckOut, Refuse, Done, Idle
    <3> QED
      BY <2>7, <3>1, <3>2, BoundFrame DEF CheckOut, Refuse
  <2>8. ASSUME NEW w \in Workers, Abandon(w)
        PROVE  PassedAreBounded'
    <3>1. ASSUME NEW p \in Participants
          PROVE  /\ Cardinality(Passed(p)') <= Cardinality(Passed(p))
                 /\ Cardinality(Passed(p)') \in Nat
      <4>1. Passed(p)' \subseteq Passed(p)
        BY <2>8 DEF TypeOK, Abandon, Done, Idle, Passed
      <4> QED
        BY <4>1, PassedCounts, FS_Subset, FS_CardinalityType
    <3>2. UNCHANGED <<row, admissions, erasures>>
      BY <2>8 DEF Abandon
    <3>3. ASSUME NEW p \in Participants, row[p].checked_in
          PROVE  admissions[p] + Cardinality(Passed(p)') <= N * (1 + erasures[p])
      <4> DEFINE m == N * (1 + erasures[p])
      <4>1. admissions[p] + Cardinality(Passed(p)) <= m
        BY <3>3 DEF PassedAreBounded
      <4>2. m \in Nat /\ admissions[p] \in Nat /\ Cardinality(Passed(p)) \in Nat
        BY PassedCounts DEF TypeOK
      <4> HIDE DEF m
      <4>3. admissions[p] + Cardinality(Passed(p)') <= m
        BY <3>1, <4>1, <4>2
      <4> QED
        BY <4>3 DEF m
    <3> QED
      BY <3>2, <3>3 DEF PassedAreBounded
  <2>9. CASE UNCHANGED vars
    BY <2>9 DEF vars, PassedAreBounded, Passed
  <2> QED
    BY <2>1, <2>2, <2>3, <2>5, <2>6, <2>7, <2>8, <2>9 DEF Next, OtherWrite
<1>3. TypeOK /\ PassedAreBounded => AdmissionsBounded
  <2> SUFFICES ASSUME TypeOK, PassedAreBounded, PreventDuplicate, NEW p \in Participants
               PROVE  admissions[p] <= Cardinality(Workers) * (1 + erasures[p])
    BY DEF AdmissionsBounded
  <2> DEFINE a == admissions[p]
             e == erasures[p]
             k == Cardinality(Passed(p))
             N == Cardinality(Workers)
  <2>1. a \in Nat /\ e \in Nat /\ N \in Nat /\ k \in Nat
    BY PassedCounts DEF TypeOK
  <2>2. IF row[p].checked_in THEN a + k <= N * (1 + e) ELSE a <= N * e
    BY DEF PassedAreBounded
  <2>3. N * (1 + e) = N * e + N /\ N * e \in Nat
    BY <2>1
  <2> HIDE DEF a, e, k, N
  <2>4. a <= N * (1 + e)
    <3> DEFINE m == N * e
    <3> HIDE DEF m
    <3>1. m \in Nat /\ N * (1 + e) = m + N
      BY <2>3 DEF m
    <3>2. IF row[p].checked_in THEN a + k <= m + N ELSE a <= m
      BY <2>2, <3>1 DEF m
    <3>3. a <= m + N
      BY <2>1, <3>1, <3>2
    <3> QED
      BY <3>1, <3>3
  <2> QED
    BY <2>4 DEF a, e, N
<1> QED
  BY <1>1, <1>2, <1>3, DeskTypeCorrect, PTL DEF Spec
-----------------------------------------------------------------------------
(***************************************************************************)
(* What holds once the reads of a transaction keep writers out (SQLite).   *)
(***************************************************************************)

\* Only the successful end of a check-in adds to the admissions.
LEMMA OnlyCheckInAdmits ==
  ASSUME [Next]_vars
  PROVE  admissions' = admissions \/ \E w \in Workers : CheckIn(w)
  BY DEF Next, vars, LoadRow, Scan, RecordViolation, SoftDelete, BulkReview, Review, Edit, Patch,
         FullSave, CheckOut, Refuse, Abandon

\* Who writes is alone, so nobody's checks can be outdated by it.
LEMMA WriterIsAlone ==
  ASSUME TypeOK, Undisturbed, NEW w \in Workers, MayWrite(w),
         local' = local \/ Done(w), local' = local => local[w] = Idle,
         NEW v \in Workers
  PROVE  local'[v].op # "checkin"
  BY DEF TypeOK, MayWrite, Undisturbed, InTransaction, ScanOps, Done, Idle

LEMMA ChecksStillHoldInductive ==
  /\ Init => ChecksStillHold
  /\ TypeOK /\ ChecksStillHold /\ [Next]_vars => ChecksStillHold'
<1>1. Init => ChecksStillHold
  BY DEF Init, Idle, ChecksStillHold
<1>2. TypeOK /\ ChecksStillHold /\ [Next]_vars => ChecksStillHold'
  <2> SUFFICES ASSUME TypeOK, ChecksStillHold, [Next]_vars, Undisturbed,
                      NEW v \in Workers, local'[v].op = "checkin"
               PROVE  ~Refused(row[local[v].who], "checkin")'
    BY DEF ChecksStillHold
  <2>1. ASSUME NEW w \in Workers, OtherWrite(w)
        PROVE  FALSE
    <3>1. MayWrite(w) /\ local' = local /\ local[w] = Idle
      BY <2>1 DEF OtherWrite, RecordViolation, SoftDelete, BulkReview
    <3> QED
      BY <3>1, WriterIsAlone
  <2>2. ASSUME NEW w \in Workers, Review(w) \/ Edit(w) \/ Patch(w) \/ CheckIn(w) \/ CheckOut(w)
        PROVE  FALSE
    <3>1. MayWrite(w) /\ Done(w) /\ local[w] # Idle
      <4>1. CASE Review(w) \/ Edit(w) \/ Patch(w)
        <5>1. \E r \in Row : FullSave(w, r)
          BY <4>1, FullSaveOfRow
        <5>2. local[w] # Idle
          BY <4>1, FullSaveOfRow DEF Holding, FullRowOps, Idle
        <5> QED
          BY <5>1, <5>2 DEF FullSave
      <4>2. CASE CheckIn(w) \/ CheckOut(w)
        BY <4>2 DEF CheckIn, CheckOut, Idle
      <4> QED
        BY <2>2, <4>1, <4>2
    <3>2. local' # local
      BY <3>1 DEF TypeOK, Done
    <3> QED
      BY <3>1, <3>2, WriterIsAlone
  <2>3. ASSUME NEW w \in Workers, NEW p \in Participants, NEW a \in ScanOps, Scan(w, p, a)
        PROVE  ~Refused(row[local[v].who], "checkin")'
    <3> DEFINE l == [op |-> IF Refused(row[p], a) THEN "refused" ELSE a, who |-> p]
    <3>1. local' = [local EXCEPT ![w] = l] /\ row' = row
      BY <2>3 DEF Scan
    <3>2. CASE v = w
      <4>1. local'[v] = l /\ l.op = "checkin"
        BY <3>1, <3>2 DEF TypeOK
      <4>2. ~Refused(row[p], a) /\ a = "checkin"
        BY <4>1
      <4> QED
        BY <3>1, <4>1, <4>2 DEF Refused
    <3>3. CASE v # w
      <4>1. local'[v] = local[v]
        BY <3>1, <3>3 DEF TypeOK
      <4> QED
        BY <3>1, <4>1 DEF ChecksStillHold, Refused
    <3> QED
      BY <3>2, <3>3
  <2>4. ASSUME NEW w \in Workers, NEW p \in Participants, NEW op \in FullRowOps, LoadRow(w, p, op)
        PROVE  ~Refused(row[local[v].who], "checkin")'
    <3> DEFINE l == [op |-> op, who |-> p, row |-> row[p]]
    <3>1. local' = [local EXCEPT ![w] = l] /\ l.op # "checkin" /\ row' = row
      BY <2>4 DEF LoadRow, FullRowOps
    <3> HIDE DEF l
    <3>2. local'[v] = local[v]
      BY <3>1 DEF TypeOK
    <3> QED
      BY <3>1, <3>2 DEF ChecksStillHold, Refused
  <2>5. ASSUME NEW w \in Workers, Refuse(w) \/ Abandon(w)
        PROVE  ~Refused(row[local[v].who], "checkin")'
    <3>1. local'[v] = local[v] /\ row' = row
      BY <2>5 DEF TypeOK, Refuse, Abandon, Done, Idle
    <3> QED
      BY <3>1 DEF ChecksStillHold, Refused
  <2>6. CASE UNCHANGED vars
    BY <2>6 DEF vars, ChecksStillHold, Refused
  <2> QED
    BY <2>1, <2>2, <2>3, <2>4, <2>5, <2>6 DEF Next, OtherWrite
<1> QED
  BY <1>1, <1>2

\* On SQLite or with one worker, and with duplicate prevention on, a code is admitted
\* again only after a full-row save has erased the mark of the admission before
\* (ReAdmissionNeedsErasure): the check of perform_checkin and its write are one.
THEOREM ReAdmissionsNeedErasures ==
  ASSUME Undisturbed
  PROVE  Spec => []ReAdmissionNeedsErasure
<1>1. Init => ReAdmissionNeedsErasure
  <2> SUFFICES ASSUME Init, NEW p \in Participants
               PROVE  admissions[p] <= erasures[p] + (IF row[p].checked_in THEN 1 ELSE 0)
    BY DEF ReAdmissionNeedsErasure
  <2> QED
    BY DEF Init, Fresh
<1>2. TypeOK /\ ChecksStillHold /\ ReAdmissionNeedsErasure /\ [Next]_vars
        => ReAdmissionNeedsErasure'
  <2> SUFFICES ASSUME TypeOK, ChecksStillHold, ReAdmissionNeedsErasure, [Next]_vars,
                      PreventDuplicate, NEW p \in Participants
               PROVE  admissions'[p] <= erasures'[p] + (IF row'[p].checked_in THEN 1 ELSE 0)
    BY DEF ReAdmissionNeedsErasure
  <2>1. /\ admissions[p] \in Nat /\ erasures[p] \in Nat
        /\ admissions[p] <= erasures[p] + (IF row[p].checked_in THEN 1 ELSE 0)
    BY DEF TypeOK, ReAdmissionNeedsErasure
  <2>2. ASSUME NEW w \in Workers, Review(w) \/ Edit(w) \/ Patch(w)
        PROVE  admissions'[p] <= erasures'[p] + (IF row'[p].checked_in THEN 1 ELSE 0)
    <3>1. PICK r \in Row : FullSave(w, r)
      BY <2>2, FullSaveOfRow
    <3>2. local[w].who \in Participants /\ admissions' = admissions
      BY <2>2, <3>1, FullSaveOfRow DEF Holding, FullSave
    <3>3. CASE p = local[w].who
      <4>1. row'[p] = r /\ erasures'[p] = IF row[p].checked_in /\ ~r.checked_in
                                            THEN erasures[p] + 1 ELSE erasures[p]
        BY <3>1, <3>2, <3>3 DEF FullSave, TypeOK
      <4> QED
        BY <2>1, <3>2, <4>1
    <3>4. CASE p # local[w].who
      <4>1. row'[p] = row[p] /\ erasures'[p] = erasures[p]
        BY <3>1, <3>2, <3>4 DEF FullSave, TypeOK
      <4> QED
        BY <2>1, <3>2, <4>1
    <3> QED
      BY <3>3, <3>4
  <2>3. ASSUME NEW w \in Workers, CheckIn(w)
        PROVE  admissions'[p] <= erasures'[p] + (IF row'[p].checked_in THEN 1 ELSE 0)
    <3>1. local[w].who \in Participants /\ erasures' = erasures
      BY <2>3, LocalShape DEF CheckIn, Idle
    <3>2. CASE p = local[w].who
      <4>1. ~row[p].checked_in
        BY <2>3, <3>2 DEF CheckIn, ChecksStillHold, Refused
      <4>2. row'[p].checked_in /\ admissions'[p] = admissions[p] + 1
        BY <2>3, <3>1, <3>2 DEF TypeOK, Row, CheckIn
      <4> QED
        BY <2>1, <3>1, <4>1, <4>2
    <3>3. CASE p # local[w].who
      <4>1. row'[p] = row[p] /\ admissions'[p] = admissions[p]
        BY <2>3, <3>1, <3>3 DEF TypeOK, CheckIn
      <4> QED
        BY <2>1, <3>1, <4>1
    <3> QED
      BY <3>2, <3>3
  <2>4. ASSUME NEW w \in Workers, OtherWrite(w)
        PROVE  admissions'[p] <= erasures'[p] + (IF row'[p].checked_in THEN 1 ELSE 0)
    <3>1. row'[p].checked_in = row[p].checked_in
      BY <2>4, MarksKept
    <3>2. admissions' = admissions /\ erasures' = erasures
      BY <2>4 DEF OtherWrite, RecordViolation, SoftDelete, BulkReview
    <3> QED
      BY <2>1, <3>1, <3>2
  <2>5. ASSUME NEW w \in Workers, CheckOut(w)
        PROVE  admissions'[p] <= erasures'[p] + (IF row'[p].checked_in THEN 1 ELSE 0)
    <3>1. row'[p].checked_in = row[p].checked_in
      BY <2>5 DEF TypeOK, Row, CheckOut
    <3> QED
      BY <2>1, <2>5, <3>1 DEF CheckOut
  <2>6. ASSUME UNCHANGED <<row, admissions, erasures>>
        PROVE  admissions'[p] <= erasures'[p] + (IF row'[p].checked_in THEN 1 ELSE 0)
    BY <2>1, <2>6
  <2> QED
    BY <2>2, <2>3, <2>4, <2>5, <2>6
    DEF Next, OtherWrite, vars, LoadRow, Scan, Refuse, Abandon
<1> QED
  BY <1>1, <1>2, DeskTypeCorrect, ChecksStillHoldInductive, PTL DEF Spec

\* A mark can only be erased by a save of a row that was loaded before the mark was set,
\* or by a request that names the mark: without such saves, or without another worker that
\* could set it meanwhile, one code is admitted once (NoDoubleAdmission, which is violated
\* where reviews race with scans).
THEOREM OneAdmissionWithoutStaleSaves ==
  ASSUME Undisturbed, "patch" \notin Ops,
         FullRowOps \intersect Ops = {} \/ \A v, w \in Workers : v = w
  PROVE  Spec => []NoDoubleAdmission
<1>1. Init => NothingErased
  BY DEF Init, Idle, FullRowOps, NothingErased
<1>2. TypeOK /\ NothingErased /\ [Next]_vars => NothingErased'
  <2> SUFFICES ASSUME TypeOK, NothingErased, [Next]_vars
               PROVE  NothingErased'
    OBVIOUS
  <2>1. ASSUME NEW w \in Workers, UNCHANGED erasures,
               \A v \in Workers : local'[v].op \in FullRowOps =>
                 v # w /\ local'[v] = local[v]
        PROVE  NothingErased'
    <3>1. \A v \in Workers : ~(local'[v].op \in FullRowOps)
      BY <2>1 DEF NothingErased
    <3> QED
      BY <2>1, <3>1 DEF NothingErased
  <2>2. ASSUME NEW w \in Workers, NEW p \in Participants, NEW op \in FullRowOps, LoadRow(w, p, op)
        PROVE  NothingErased'
    <3> DEFINE l == [op |-> op, who |-> p, row |-> row[p]]
    <3>1. /\ local' = [local EXCEPT ![w] = l] /\ UNCHANGED <<row, erasures>>
          /\ op \in Ops
      BY <2>2 DEF LoadRow
    <3>2. l.op = op /\ l.who = p /\ l.row = row[p]
      OBVIOUS
    <3> HIDE DEF l
    <3>3. local'[w] = l /\ \A v \in Workers : v # w => local'[v] = local[v]
      BY <3>1 DEF TypeOK
    <3> QED
      BY <3>1, <3>2, <3>3 DEF NothingErased
  <2>3. ASSUME NEW w \in Workers, Review(w) \/ Edit(w) \/ Patch(w)
        PROVE  NothingErased'
    <3>1. local[w] \in Holding /\ local[w].op \in FullRowOps /\ ~Patch(w)
      BY <2>3, FullSaveOfRow DEF Holding, NothingErased, Patch
    <3>2. PICK r \in Row : FullSave(w, r) /\ r.checked_in = local[w].row.checked_in
      BY <2>3, <3>1, FullSaveOfRow
    <3>3. erasures' = erasures
      BY <3>1, <3>2 DEF FullSave, NothingErased, TypeOK, Holding
    <3>4. \A v \in Workers : local'[v].op \in FullRowOps => v # w /\ local'[v] = local[v]
      BY <3>2 DEF FullSave, Done, Idle, FullRowOps, TypeOK
    <3> QED
      BY <2>1, <3>3, <3>4
  <2>4. ASSUME NEW w \in Workers, OtherWrite(w)
        PROVE  NothingErased'
    <3>1. \A q \in Participants : row'[q].checked_in = row[q].checked_in
      BY <2>4, MarksKept
    <3>2. UNCHANGED <<local, erasures>>
      BY <2>4 DEF OtherWrite, RecordViolation, SoftDelete, BulkReview
    <3>3. \A v \in Workers : local[v].op \in FullRowOps => local[v].who \in Participants
      BY LocalShape DEF Holding
    <3> QED
      BY <3>1, <3>2, <3>3 DEF NothingErased
  <2>5. ASSUME NEW w \in Workers, CheckIn(w) \/ CheckOut(w)
        PROVE  NothingErased'
    <3>1. erasures' = erasures
      BY <2>5 DEF CheckIn, CheckOut
    <3>2. \A v \in Workers : local'[v].op \in FullRowOps => v # w /\ local'[v] = local[v]
      BY <2>5 DEF CheckIn, CheckOut, Done, Idle, FullRowOps, TypeOK
    <3> QED
      BY <2>1, <3>1, <3>2
  <2>6. ASSUME UNCHANGED <<row, erasures>>,
               \A v \in Workers : local'[v].op \in FullRowOps => local'[v] = local[v]
        PROVE  NothingErased'
    BY <2>6 DEF NothingErased
  <2>7. ASSUME NEW w \in Workers, \/ Refuse(w) \/ Abandon(w)
                                  \/ \E p \in Participants, a \in ScanOps : Scan(w, p, a)
        PROVE  NothingErased'
    <3>1. UNCHANGED <<row, erasures>>
      BY <2>7 DEF Refuse, Abandon, Scan
    <3>2. \A v \in Workers : local'[v].op \in FullRowOps => local'[v] = local[v]
      BY <2>7 DEF Refuse, Abandon, Scan, Done, Idle, FullRowOps, ScanOps, TypeOK
    <3> QED
      BY <2>6, <3>1, <3>2
  <2>8. CASE UNCHANGED vars
    BY <2>6, <2>8 DEF vars
  <2> QED
    BY <2>2, <2>3, <2>4, <2>5, <2>7, <2>8 DEF Next, OtherWrite
<1>3. TypeOK /\ NothingErased /\ ReAdmissionNeedsErasure => NoDoubleAdmission
  <2> SUFFICES ASSUME TypeOK, NothingErased, ReAdmissionNeedsErasure, PreventDuplicate,
                      NEW p \in Participants
               PROVE  admissions[p] <= 1
    BY DEF NoDoubleAdmission
  <2>1. /\ admissions[p] \in Nat /\ erasures[p] = 0
        /\ admissions[p] <= erasures[p] + (IF row[p].checked_in THEN 1 ELSE 0)
    BY DEF TypeOK, NothingErased, ReAdmissionNeedsErasure
  <2> QED
    BY <2>1
<1> QED
  BY <1>1, <1>2, <1>3, DeskTypeCorrect, ReAdmissionsNeedErasures, PTL DEF Spec

\* On SQLite or with one worker no step admits somebody whose row says blacklisted at
\* that moment (BannedNotAdmitted): a ban cannot slip between the check and the write.
THEOREM BannedAreNotAdmitted ==
  ASSUME Undisturbed
  PROVE  Spec => BannedNotAdmitted
<1>1. TypeOK /\ ChecksStillHold /\ [Next]_vars
        => [\A p \in Participants : admissions'[p] > admissions[p] => ~row[p].is_blacklisted]_vars
  <2> SUFFICES ASSUME TypeOK, ChecksStillHold, [Next]_vars, NEW p \in Participants,
                      admissions'[p] > admissions[p]
               PROVE  ~row[p].is_blacklisted
    OBVIOUS
  <2>1. PICK w \in Workers : CheckIn(w)
    BY OnlyCheckInAdmits DEF TypeOK
  <2>2. p = local[w].who
    BY <2>1 DEF TypeOK, CheckIn
  <2> QED
    BY <2>1, <2>2 DEF CheckIn, ChecksStillHold, Refused
<1> QED
  BY <1>1, DeskTypeCorrect, ChecksStillHoldInductive, PTL DEF Spec, BannedNotAdmitted
-----------------------------------------------------------------------------
\* The desk implements Door: on SQLite or with one worker, and with duplicate
\* prevention on, every step lets one unmarked, unbarred participant in and marks it,
\* or is administration that lets nobody in (DeskIsADoor).
THEOREM DeskImplementsDoor ==
  ASSUME Undisturbed, PreventDuplicate
  PROVE  Spec => DeskIsADoor
<1> DEFINE m == {p \in Participants : row[p].checked_in}
           b == {p \in Participants : \/ row[p].is_deleted
                                      \/ row[p].is_blacklisted
                                      \/ row[p].status \notin Admissible}
<1>1. Init => Desk!DoorInit
  BY DEF Init, Fresh, Desk!DoorInit
<1>2. TypeOK /\ ChecksStillHold /\ [Next]_vars => [Desk!DoorNext]_(Desk!doorVars)
  <2> SUFFICES ASSUME TypeOK, ChecksStillHold, [Next]_vars
               PROVE  Desk!Administer \/ \E p \in Participants : Desk!LetIn(p)
    BY DEF Desk!DoorNext
  <2>1. CASE admissions' = admissions
    BY <2>1 DEF Desk!Administer
  <2>2. ASSUME NEW w \in Workers, CheckIn(w)
        PROVE  \E p \in Participants : Desk!LetIn(p)
    <3>1. PICK p \in Participants : p = local[w].who
      BY <2>2, LocalShape DEF CheckIn, Idle
    <3>2. ~Refused(row[p], "checkin")
      BY <2>2, <3>1 DEF CheckIn, ChecksStillHold
    <3>3. p \notin m \union b
      BY <3>2 DEF Refused
    <3>4. admissions' = [admissions EXCEPT ![p] = @ + 1]
      BY <2>2, <3>1 DEF CheckIn
    <3>5. \A q \in Participants : q # p => row'[q] = row[q]
      BY <2>2, <3>1 DEF TypeOK, CheckIn
    <3>6. /\ row'[p].checked_in /\ row'[p].status = "checked_in"
          /\ row'[p].is_deleted = row[p].is_deleted
          /\ row'[p].is_blacklisted = row[p].is_blacklisted
      BY <2>2, <3>1 DEF TypeOK, Row, CheckIn
    <3>7. m' = m \union {p}
      BY <3>5, <3>6
    <3>8. b' = b
      <4>1. p \notin b'
        BY <3>3, <3>6 DEF Admissible
      <4> QED
        BY <3>3, <3>5, <4>1
    <3> QED
      BY <3>3, <3>4, <3>7, <3>8 DEF Desk!LetIn
  <2> QED
    BY <2>1, <2>2, OnlyCheckInAdmits
<1> QED
  BY <1>1, <1>2, DeskTypeCorrect, ChecksStillHoldInductive, PTL
  DEF Spec, DeskIsADoor, Desk!DoorSpec
-----------------------------------------------------------------------------
\* On either database only the end of a full-row save clears a safety flag
\* (OnlyFullSaveClearsFlags): scans, bulk reviews, violations and deletions keep
\* both flags of every row.
THEOREM OnlyFullSavesClearFlags == Spec => OnlyFullSaveClearsFlags
<1>1. TypeOK /\ [Next]_vars
        => [\A p \in Participants :
              \/ row[p].is_blacklisted /\ ~row'[p].is_blacklisted
              \/ row[p].certificate_blocked /\ ~row'[p].certificate_blocked
              => \E w \in Workers : /\ local[w].op \in FullRowOps
                                    /\ local[w].who = p
                                    /\ local'[w] = Idle]_vars
  <2> SUFFICES ASSUME TypeOK, [Next]_vars, NEW p \in Participants,
                      \/ row[p].is_blacklisted /\ ~row'[p].is_blacklisted
                      \/ row[p].certificate_blocked /\ ~row'[p].certificate_blocked
               PROVE  \E w \in Workers : /\ local[w].op \in FullRowOps
                                         /\ local[w].who = p
                                         /\ local'[w] = Idle
    OBVIOUS
  <2>1. ASSUME NEW w \in Workers, Review(w) \/ Edit(w) \/ Patch(w)
        PROVE  \E v \in Workers : /\ local[v].op \in FullRowOps
                                  /\ local[v].who = p
                                  /\ local'[v] = Idle
    <3>1. PICK r \in Row : FullSave(w, r)
      BY <2>1, FullSaveOfRow
    <3>2. local[w].op \in FullRowOps /\ local[w].who \in Participants
      BY <2>1, FullSaveOfRow DEF Holding
    <3>3. local'[w] = Idle
      BY <3>1 DEF TypeOK, FullSave, Done
    <3>4. p = local[w].who
      BY <3>1, <3>2 DEF TypeOK, FullSave
    <3> QED
      BY <3>2, <3>3, <3>4
  <2>2. ASSUME NEW w \in Workers, NEW q \in Participants, RecordViolation(w, q)
        PROVE  FALSE
    <3>1. row[p] \in Row
      BY DEF TypeOK
    <3> QED
      BY <2>2, <3>1 DEF TypeOK, Row, RecordViolation
  <2>3. ASSUME NEW w \in Workers, NEW q \in Participants, SoftDelete(w, q)
        PROVE  FALSE
    <3>1. row[p] \in Row
      BY DEF TypeOK
    <3> QED
      BY <2>3, <3>1 DEF TypeOK, Row, SoftDelete
  <2>4. ASSUME NEW w \in Workers, NEW S \in SUBSET Participants, NEW a \in ReviewActions,
               BulkReview(w, S, a)
        PROVE  FALSE
    <3>1. row[p] \in Row
      BY DEF TypeOK
    <3>2. /\ row[p].is_blacklisted => Reviewed(row[p], a).is_blacklisted
          /\ row[p].certificate_blocked => Reviewed(row[p], a).certificate_blocked
      BY <3>1 DEF Row, Reviewed
    <3> QED
      BY <2>4, <3>2 DEF BulkReview
  <2>5. ASSUME NEW w \in Workers, CheckIn(w) \/ CheckOut(w)
        PROVE  FALSE
    <3>1. row[p] \in Row
      BY DEF TypeOK
    <3> QED
      BY <2>5, <3>1 DEF TypeOK, Row, CheckIn, CheckOut
  <2> QED
    BY <2>1, <2>2, <2>3, <2>4, <2>5 DEF Next, vars, LoadRow, Scan, Refuse, Abandon
<1> QED
  BY <1>1, DeskTypeCorrect, PTL DEF Spec, OnlyFullSaveClearsFlags
=============================================================================
