-------------------------- MODULE CertificatesProofs --------------------------
(***************************************************************************)
(* Theorems about Certificates, for every set of participants, workers,    *)
(* violations and surveys, every length of the event and both databases.   *)
(***************************************************************************)
EXTENDS Certificates, FiniteSetTheorems, Functions, TLAPS

USE CertificatesAssumption

LEMMA RequestShape ==
  ASSUME TypeOK, NEW w \in Workers
  PROVE  /\ local[w].pc = "idle" <=> local[w] = Idle
         /\ local[w].pc = "loaded" => local[w] \in Loaded
         /\ local[w].pc = "eligible" => local[w] \in Eligible
         /\ local[w].pc = "creating" => local[w] \in Creating
         /\ local[w].pc = "updating" => local[w] \in Updating
         /\ local[w].pc = "flagging" => local[w] \in Flagging
         /\ local[w].pc = "rewriting" => local[w] \in Rewriting
  BY DEF TypeOK, Request, Idle, Loaded, Eligible, Creating, Updating, Flagging, Rewriting

\* What Become does to the workers, one by one.
LEMMA BecomeOne ==
  ASSUME TypeOK, NEW w \in Workers, NEW l, Become(w, l)
  PROVE  /\ local'[w] = l
         /\ \A v \in Workers : v # w => local'[v] = local[v]
  BY DEF TypeOK, Become

LEMMA BecomeType ==
  ASSUME TypeOK, NEW w \in Workers, NEW l \in Request, Become(w, l)
  PROVE  local' \in [Workers -> Request]
  BY DEF TypeOK, Become

LEMMA SetRowType ==
  ASSUME TypeOK, NEW p \in Participants, NEW r \in Row, SetRow(p, r)
  PROVE  row' \in [Participants -> Row] /\ late' \in [Participants -> Nat]
  BY DEF TypeOK, SetRow

LEMMA IssueType ==
  ASSUME TypeOK, NEW w \in Workers, NEW c \in Ids, local[w].who \in Participants, Issue(w, c)
  PROVE  TypeOK'
<1>1. certs' \in [Ids -> Certificate \union {NoCertificate}]
  BY DEF TypeOK, Issue, Certificate, Owners, Statuses, IssuedStatus
<1>2. late' \in [Participants -> Nat]
  BY DEF TypeOK, Issue
<1>3. local' \in [Workers -> Request]
  BY BecomeType DEF Issue, Request
<1> QED
  BY <1>1, <1>2, <1>3 DEF TypeOK, Issue, facts

LEMMA InitTyped == Init => TypeOK
  BY DEF Init, TypeOK, Request, Row

\* Every variable keeps its type: a certificate has one of the statuses of the
\* model, a request holds what its stage has read.
THEOREM CertificatesTypeCorrect == Spec => []TypeOK
<1>1. Init => TypeOK
  BY InitTyped
<1>2. TypeOK /\ [Next]_vars => TypeOK'
  <2> SUFFICES ASSUME TypeOK, [Next]_vars PROVE TypeOK'
    OBVIOUS
  <2>1. ASSUME NEW w \in Workers, NEW l \in Request, Become(w, l),
               UNCHANGED <<certs, late, bypasses>>, UNCHANGED facts
        PROVE  TypeOK'
    <3>1. local' \in [Workers -> Request]
      BY <2>1, BecomeType
    <3> QED
      BY <2>1, <3>1 DEF TypeOK, facts
  <2>2. ASSUME NEW w \in Workers, NEW p \in Participants, LoadParticipant(w, p)
        PROVE  TypeOK'
    <3>1. [pc |-> "loaded", who |-> p, row |-> row[p]] \in Request
      BY DEF TypeOK, Loaded, Request
    <3> QED
      BY <2>1, <2>2, <3>1 DEF LoadParticipant
  <2>3. ASSUME NEW w \in Workers, CheckEligibility(w)
        PROVE  TypeOK'
    <3>1. local[w] \in Loaded
      BY <2>3, RequestShape DEF CheckEligibility
    <3>2. [pc |-> "eligible", who |-> local[w].who] \in Request /\ Idle \in Request
      BY <3>1 DEF Loaded, Eligible, Request
    <3> QED
      BY <2>1, <2>3, <3>2 DEF CheckEligibility
  <2>4. ASSUME NEW w \in Workers, FindCertificate(w)
        PROVE  TypeOK'
    <3>1. local[w] \in Eligible
      BY <2>4, RequestShape DEF FindCertificate
    <3>2. /\ [pc |-> "creating", who |-> local[w].who] \in Request /\ Idle \in Request
          /\ \A c \in Ids : [pc |-> "updating", who |-> local[w].who, cert |-> c] \in Request
      BY <3>1 DEF Eligible, Creating, Updating, Request
    <3>3. Findable(local[w].who) \subseteq Ids
      BY DEF Findable, Of
    <3> QED
      BY <2>1, <2>4, <3>2, <3>3 DEF FindCertificate
  <2>5. ASSUME NEW w \in Workers, NEW c \in Ids, CreateCertificate(w, c)
        PROVE  TypeOK'
    <3>1. local[w] \in Creating
      BY <2>5, RequestShape DEF CreateCertificate
    <3> QED
      BY <2>5, <3>1, IssueType DEF CreateCertificate, Creating
  <2>6. ASSUME NEW w \in Workers, UpdateCertificate(w)
        PROVE  TypeOK'
    <3>1. local[w] \in Updating
      BY <2>6, RequestShape DEF UpdateCertificate
    <3> QED
      BY <2>6, <3>1, IssueType DEF UpdateCertificate, Updating
  <2>7. ASSUME NEW w \in Workers, NEW c \in Ids, Cancel(w, c)
        PROVE  TypeOK'
    <3>1. certs' \in [Ids -> Certificate \union {NoCertificate}]
      BY <2>7 DEF TypeOK, Cancel, Certificate, Statuses, NoCertificate
    <3> QED
      BY <2>7, <3>1 DEF TypeOK, Cancel, facts
  <2>8. ASSUME NEW w \in Workers, NEW c \in Ids, Delete(w, c)
        PROVE  TypeOK'
    BY <2>8 DEF TypeOK, Delete, facts
  <2>9. ASSUME NEW w \in Workers, NEW c \in Ids, NEW p \in Participants, NEW s \in Statuses,
               RestCreate(w, c, p, s)
        PROVE  TypeOK'
    <3>1. certs' \in [Ids -> Certificate \union {NoCertificate}]
      BY <2>9 DEF TypeOK, RestCreate, Certificate, Owners
    <3>2. bypasses' \in [Participants -> Nat]
      BY <2>9 DEF TypeOK, RestCreate
    <3> QED
      BY <2>9, <3>1, <3>2 DEF TypeOK, RestCreate, facts
  <2>10. ASSUME NEW w \in Workers, NEW c \in Ids, NEW p \in Owners,
                LoadCertificate(w, c, p)
         PROVE  TypeOK'
    <3>1. [pc |-> "rewriting", who |-> p, cert |-> c] \in Request
      BY DEF Rewriting, Request
    <3> QED
      BY <2>1, <2>10, <3>1 DEF LoadCertificate
  <2>11. ASSUME NEW w \in Workers, NEW s \in Statuses, RestUpdate(w, s)
         PROVE  TypeOK'
    <3>1. local[w] \in Rewriting
      BY <2>11, RequestShape DEF RestUpdate
    <3>2. certs' \in [Ids -> Certificate \union {NoCertificate}]
      BY <2>11, <3>1 DEF TypeOK, RestUpdate, Certificate, Rewriting
    <3>3. bypasses' \in [Participants -> Nat]
      BY <2>11, <3>1 DEF TypeOK, RestUpdate, Rewriting
    <3>4. local' \in [Workers -> Request]
      BY <2>11, BecomeType DEF RestUpdate, Request
    <3> QED
      BY <2>11, <3>2, <3>3, <3>4 DEF TypeOK, RestUpdate, facts
  <2>12. ASSUME NEW w \in Workers, NEW p \in Participants, SaveParticipant(w, p)
         PROVE  TypeOK'
    BY <2>12, SetRowType DEF TypeOK, SaveParticipant
  <2>13. ASSUME NEW w \in Workers, NEW p \in Participants, CheckIn(w, p)
         PROVE  TypeOK'
    <3>1. [row[p] EXCEPT !.checked_in = TRUE] \in Row
      <4>1. row[p] \in Row
        BY DEF TypeOK
      <4> QED
        BY <4>1 DEF Row
    <3>2. row' \in [Participants -> Row] /\ late' \in [Participants -> Nat]
      BY <2>13, <3>1, SetRowType DEF CheckIn
    <3>3. days' \in [Participants -> Nat]
      BY <2>13 DEF TypeOK, CheckIn
    <3> QED
      BY <2>13, <3>2, <3>3 DEF TypeOK, CheckIn
  <2>14. ASSUME NEW w \in Workers, NEW p \in Participants, NEW v \in Cases, RecordViolation(w, p, v)
         PROVE  TypeOK'
    <3>1. [pc |-> "flagging", who |-> p] \in Request
      BY DEF Flagging, Request
    <3>2. local' \in [Workers -> Request]
      BY <2>14, <3>1, BecomeType DEF RecordViolation
    <3>3. cases' \in [Participants -> [Cases -> CaseStatuses \union {"none"}]]
      BY <2>14 DEF TypeOK, RecordViolation, CaseStatuses
    <3> QED
      BY <2>14, <3>2, <3>3 DEF TypeOK, RecordViolation
  <2>15. ASSUME NEW w \in Workers, FlagParticipant(w)
         PROVE  TypeOK'
    <3>1. local[w] \in Flagging
      BY <2>15, RequestShape DEF FlagParticipant
    <3>2. PICK p \in Participants : p = local[w].who
      BY <3>1 DEF Flagging
    <3>3. [row[p] EXCEPT !.eligible_status = FALSE, !.certificate_blocked = TRUE] \in Row
      <4>1. row[p] \in Row
        BY DEF TypeOK
      <4> QED
        BY <4>1 DEF Row
    <3>4. row' \in [Participants -> Row] /\ late' \in [Participants -> Nat]
      BY <2>15, <3>2, <3>3, SetRowType DEF FlagParticipant
    <3>5. local' \in [Workers -> Request]
      BY <2>15, BecomeType DEF FlagParticipant, Request
    <3> QED
      BY <2>15, <3>4, <3>5 DEF TypeOK, FlagParticipant
  <2>16. ASSUME NEW w \in Workers, NEW p \in Participants, NEW v \in Cases,
                NEW s \in CaseStatuses \union {"none"}, SetCase(w, p, v, s)
         PROVE  TypeOK'
    <3>1. cases' \in [Participants -> [Cases -> CaseStatuses \union {"none"}]]
      BY <2>16 DEF TypeOK, SetCase
    <3> QED
      BY <2>16, <3>1 DEF TypeOK, SetCase
  <2>17. ASSUME NEW w \in Workers, NEW p \in Participants, NEW s \in Surveys, AnswerSurvey(w, p, s)
         PROVE  TypeOK'
    BY <2>17 DEF TypeOK, AnswerSurvey
  <2>18. ASSUME NEW w \in Workers, ToggleModule(w)
         PROVE  TypeOK'
    BY <2>18 DEF TypeOK, ToggleModule
  <2>19. ASSUME NEW w \in Workers, Abandon(w)
         PROVE  TypeOK'
    BY <2>1, <2>19 DEF Abandon, Request
  <2>20. CASE UNCHANGED vars
    BY <2>20 DEF TypeOK, vars
  <2> QED
    BY <2>2, <2>3, <2>4, <2>5, <2>6, <2>7, <2>8, <2>9, <2>10, <2>11, <2>12, <2>13, <2>14,
       <2>15, <2>16, <2>17, <2>18, <2>19, <2>20
       DEF Next, IssueNext, CertificateNext, FactsNext
<1> QED
  BY <1>1, <1>2, PTL DEF Spec
-----------------------------------------------------------------------------
(***************************************************************************)
(* The rows of one participant.                                            *)
(***************************************************************************)

\* What a step of w can do to the certificates of p: add none; add one by REST; add
\* the one that the request of w was to create, or the one it holds.
NoneAdded(p) == Of(p)' \subseteq Of(p) /\ bypasses'[p] = bypasses[p]

AddedByRest(p) ==
  /\ \E c : Of(p)' \subseteq Of(p) \union {c}
  /\ bypasses'[p] = bypasses[p] + 1

Created(w, p) ==
  /\ w \in Promised(p)
  /\ \E c : Of(p)' \subseteq Of(p) \union {c}
  /\ bypasses'[p] = bypasses[p]
  /\ Become(w, Idle)

Updated(w, p) ==
  /\ local[w].pc = "updating" /\ local[w].who = p
  /\ Of(p)' \subseteq Of(p) \union {local[w].cert}
  /\ bypasses'[p] = bypasses[p]
  /\ Become(w, Idle)

\* A row written in full adds itself to the certificates of whom it names.
LEMMA WritingOne ==
  ASSUME TypeOK, NEW p \in Participants, NEW q, NEW c \in Ids, NEW s,
         certs' = [certs EXCEPT ![c] = [who |-> q, status |-> s]]
  PROVE  /\ Of(p)' \subseteq Of(p) \union {c}
         /\ p # q \/ c \in Of(p) => Of(p)' \subseteq Of(p)
<1>1. \A d \in Ids : d # c => certs'[d] = certs[d]
  BY DEF TypeOK
<1>2. certs'[c].who = q
  BY DEF TypeOK
<1> QED
  BY <1>1, <1>2 DEF Of

LEMMA WhatRowsDo ==
  ASSUME TypeOK, NEW w \in Workers, NEW p \in Participants,
         IssueNext(w) \/ CertificateNext(w) \/ FactsNext(w) \/ Abandon(w)
  PROVE  NoneAdded(p) \/ AddedByRest(p) \/ Created(w, p) \/ Updated(w, p)
<1>1. ASSUME UNCHANGED <<certs, bypasses>>
      PROVE  NoneAdded(p)
  BY <1>1 DEF NoneAdded, Of
<1>2. ASSUME NEW c \in Ids, CreateCertificate(w, c)
      PROVE  NoneAdded(p) \/ Created(w, p)
  <2>1. local[w] \in Creating
    BY <1>2, RequestShape DEF CreateCertificate
  <2>2. PICK q \in Participants : q = local[w].who
    BY <2>1 DEF Creating
  <2>3. /\ certs' = [certs EXCEPT ![c] = [who |-> q, status |-> IssuedStatus]]
        /\ bypasses' = bypasses /\ Become(w, Idle)
    BY <1>2, <2>2 DEF CreateCertificate, Issue
  <2>4. /\ Of(p)' \subseteq Of(p) \union {c}
        /\ p # q => Of(p)' \subseteq Of(p)
    BY <2>3, WritingOne
  <2>5. q = p => w \in Promised(p)
    BY <1>2, <2>2 DEF CreateCertificate, Promised
  <2> QED
    BY <2>3, <2>4, <2>5 DEF Created, NoneAdded
<1>3. ASSUME UpdateCertificate(w)
      PROVE  NoneAdded(p) \/ Updated(w, p)
  <2>1. local[w] \in Updating
    BY <1>3, RequestShape DEF UpdateCertificate
  <2>2. PICK c \in Ids, q \in Participants : c = local[w].cert /\ q = local[w].who
    BY <2>1 DEF Updating
  <2>3. /\ certs' = [certs EXCEPT ![c] = [who |-> q, status |-> IssuedStatus]]
        /\ bypasses' = bypasses /\ Become(w, Idle)
    BY <1>3, <2>2 DEF UpdateCertificate, Issue
  <2>4. /\ Of(p)' \subseteq Of(p) \union {c}
        /\ p # q => Of(p)' \subseteq Of(p)
    BY <2>3, WritingOne
  <2> QED
    BY <1>3, <2>2, <2>3, <2>4 DEF Updated, NoneAdded, UpdateCertificate
<1>4. ASSUME NEW c \in Ids, Cancel(w, c)
      PROVE  NoneAdded(p)
  <2>1. /\ \A d \in Ids : d # c => certs'[d] = certs[d]
        /\ certs'[c].who = certs[c].who /\ certs[c] # NoCertificate
        /\ bypasses' = bypasses
    BY <1>4 DEF TypeOK, Cancel, Certificate
  <2> QED
    BY <2>1 DEF NoneAdded, Of
<1>5. ASSUME NEW c \in Ids, Delete(w, c)
      PROVE  NoneAdded(p)
  <2>1. /\ \A d \in Ids : d # c => certs'[d] = certs[d]
        /\ certs'[c] = NoCertificate /\ bypasses' = bypasses
    BY <1>5 DEF TypeOK, Delete
  <2> QED
    BY <2>1 DEF NoneAdded, Of
<1>6. ASSUME NEW c \in Ids, NEW q \in Participants, NEW s \in Statuses, RestCreate(w, c, q, s)
      PROVE  NoneAdded(p) \/ AddedByRest(p)
  <2>1. /\ certs' = [certs EXCEPT ![c] = [who |-> q, status |-> s]]
        /\ bypasses'[p] = IF p = q THEN bypasses[p] + 1 ELSE bypasses[p]
    BY <1>6 DEF TypeOK, RestCreate
  <2> QED
    BY <2>1, WritingOne DEF NoneAdded, AddedByRest
<1>7. ASSUME NEW s \in Statuses, RestUpdate(w, s)
      PROVE  NoneAdded(p) \/ AddedByRest(p)
  <2>1. local[w] \in Rewriting
    BY <1>7, RequestShape DEF RestUpdate
  <2>2. PICK c \in Ids, q \in Owners : c = local[w].cert /\ q = local[w].who
    BY <2>1 DEF Rewriting
  <2>3. /\ certs' = [certs EXCEPT ![c] = [who |-> q, status |-> s]]
        /\ bypasses'[p] = IF p = q /\ c \notin Of(q) THEN bypasses[p] + 1 ELSE bypasses[p]
    BY <1>7, <2>2 DEF TypeOK, RestUpdate
  <2>4. CASE p # q \/ c \in Of(p)
    BY <2>3, <2>4, WritingOne DEF NoneAdded
  <2>5. CASE p = q /\ c \notin Of(q)
    BY <2>3, <2>5, WritingOne DEF AddedByRest
  <2> QED
    BY <2>4, <2>5
<1> QED
  BY <1>1, <1>2, <1>3, <1>4, <1>5, <1>6, <1>7
     DEF IssueNext, CertificateNext, FactsNext, Abandon, LoadParticipant, CheckEligibility,
         FindCertificate, LoadCertificate, SaveParticipant, CheckIn, RecordViolation,
         FlagParticipant, SetCase, AnswerSurvey, ToggleModule
-----------------------------------------------------------------------------
(***************************************************************************)
(* How many certificates a participant can have.                           *)
(***************************************************************************)

\* The certificates of p that there are or that may be written back.
Kept(p) == Of(p) \union Held(p)

LEMMA Counts ==
  ASSUME TypeOK, NEW p \in Participants
  PROVE  /\ IsFiniteSet(Of(p)) /\ Cardinality(Of(p)) \in Nat
         /\ IsFiniteSet(Held(p)) /\ Cardinality(Held(p)) \in Nat
         /\ IsFiniteSet(Kept(p)) /\ Cardinality(Kept(p)) \in Nat
         /\ IsFiniteSet(Promised(p)) /\ Cardinality(Promised(p)) \in Nat
         /\ Cardinality(Of(p)) <= Cardinality(Kept(p))
         /\ Cardinality(Workers) \in Nat /\ Cardinality(Workers) > 0
         /\ bypasses[p] \in Nat
<1>1. IsFiniteSet(Ids) /\ IsFiniteSet(Workers) /\ Workers # {}
  BY DEF CertificatesAssumption
<1>2. /\ Of(p) \subseteq Ids /\ Held(p) \subseteq Ids /\ Kept(p) \subseteq Ids
      /\ Promised(p) \subseteq Workers /\ Of(p) \subseteq Kept(p)
  BY DEF Of, Held, Kept, Promised
<1>3. /\ IsFiniteSet(Of(p)) /\ IsFiniteSet(Held(p)) /\ IsFiniteSet(Kept(p))
      /\ IsFiniteSet(Promised(p)) /\ Cardinality(Of(p)) <= Cardinality(Kept(p))
  BY <1>1, <1>2, FS_Subset
<1>4. /\ Cardinality(Of(p)) \in Nat /\ Cardinality(Held(p)) \in Nat
      /\ Cardinality(Kept(p)) \in Nat /\ Cardinality(Promised(p)) \in Nat
      /\ Cardinality(Workers) \in Nat /\ Cardinality(Workers) # 0
  BY <1>1, <1>3, FS_CardinalityType, FS_EmptySet
<1> QED
  BY <1>3, <1>4 DEF TypeOK

\* How a step can change a finite set at most.
LEMMA GrowsByOne ==
  ASSUME NEW S, IsFiniteSet(S), NEW T, NEW x, T \subseteq S \union {x}
  PROVE  IsFiniteSet(T) /\ Cardinality(T) \in Nat /\ Cardinality(T) <= Cardinality(S) + 1
<1>1. IsFiniteSet(S \union {x}) /\ Cardinality(S \union {x}) <= Cardinality(S) + 1
  <2>1. IsFiniteSet(S \union {x}) /\ (x \in S => Cardinality(S \union {x}) = Cardinality(S))
        /\ (x \notin S => Cardinality(S \union {x}) = Cardinality(S) + 1)
    BY FS_AddElement
  <2>2. Cardinality(S) \in Nat
    BY FS_CardinalityType
  <2> QED
    BY <2>1, <2>2
<1>2. IsFiniteSet(T) /\ Cardinality(T) <= Cardinality(S \union {x})
  BY <1>1, FS_Subset
<1>3. Cardinality(T) \in Nat /\ Cardinality(S \union {x}) \in Nat /\ Cardinality(S) \in Nat
  BY <1>1, <1>2, FS_CardinalityType
<1> QED
  BY <1>1, <1>2, <1>3

\* A worker that holds neither a certificate nor a promise leaves room for one more.
LEMMA RoomForOne ==
  ASSUME TypeOK, NEW p \in Participants, NEW w \in Workers, local[w].pc = "eligible"
  PROVE  Cardinality(Held(p)) + Cardinality(Promised(p)) < Cardinality(Workers)
<1> DEFINE A == {v \in Workers : local[v].pc = "updating" /\ local[v].who = p}
           P == Promised(p)
<1>1. IsFiniteSet(Workers) /\ A \subseteq Workers /\ P \subseteq Workers
  BY DEF CertificatesAssumption, Promised
<1>2. IsFiniteSet(A) /\ IsFiniteSet(P) /\ Cardinality(A) \in Nat /\ Cardinality(P) \in Nat
  BY <1>1, FS_Subset, FS_CardinalityType
<1>3. Cardinality(Held(p)) <= Cardinality(A)
  <2> DEFINE f == [v \in A |-> local[v].cert]
  <2>1. f \in [A -> Held(p)]
    BY RequestShape DEF Held, Updating
  <2>2. \A x \in Held(p) : \E v \in A : f[v] = x
    BY DEF Held
  <2>3. f \in Surjection(A, Held(p))
    BY <2>1, <2>2 DEF Surjection
  <2> HIDE DEF f, A
  <2> QED
    BY <1>2, <2>3, FS_Surjection
<1>4. Cardinality(A) + Cardinality(P) < Cardinality(Workers)
  <2>1. A \cap P = {}
    BY DEF Promised
  <2>2. IsFiniteSet(A \union P) /\ Cardinality(A \union P) = Cardinality(A) + Cardinality(P)
    <3>1. IsFiniteSet(A \union P)
          /\ Cardinality(A \union P) = Cardinality(A) + Cardinality(P) - Cardinality(A \cap P)
      BY <1>2, FS_Union
    <3>2. Cardinality(A \cap P) = 0
      BY <2>1, FS_EmptySet
    <3> HIDE DEF A, P
    <3> QED
      BY <1>2, <3>1, <3>2
  <2>3. A \union P \subseteq Workers \ {w} /\ w \in Workers
    BY DEF Promised
  <2>4. IsFiniteSet(Workers \ {w}) /\ Cardinality(Workers \ {w}) = Cardinality(Workers) - 1
    BY <1>1, FS_RemoveElement
  <2>5. Cardinality(A \union P) <= Cardinality(Workers \ {w})
    BY <2>3, <2>4, FS_Subset
  <2>6. Cardinality(Workers) \in Nat
    BY <1>1, FS_CardinalityType
  <2> QED
    BY <1>2, <2>2, <2>4, <2>5, <2>6
<1>5. Cardinality(Held(p)) \in Nat /\ Cardinality(Workers) \in Nat
  BY Counts
<1> HIDE DEF A, P
<1> QED
  BY <1>2, <1>3, <1>4, <1>5 DEF P

\* What a step of w can do to promises and held certificates of p: give none; or
\* promise a certificate to somebody who has none.
GivesNothing(p) == Held(p)' \subseteq Kept(p) /\ Promised(p)' \subseteq Promised(p)

GivesPromise(w, p) ==
  /\ local[w].pc = "eligible" /\ Of(p) = {} /\ Of(p)' = {}
  /\ Held(p)' \subseteq Held(p) /\ Promised(p)' \subseteq Promised(p) \union {w}
  /\ bypasses'[p] = bypasses[p]

LEMMA WhatWorkersDo ==
  ASSUME TypeOK, NEW w \in Workers, NEW p \in Participants,
         IssueNext(w) \/ CertificateNext(w) \/ FactsNext(w) \/ Abandon(w)
  PROVE  GivesNothing(p) \/ GivesPromise(w, p)
<1>1. ASSUME NEW l, Become(w, l), l.pc \notin {"updating", "creating"}
      PROVE  GivesNothing(p)
  BY <1>1, BecomeOne DEF GivesNothing, Kept, Held, Promised
<1>2. ASSUME local' = local
      PROVE  GivesNothing(p)
  BY <1>2 DEF GivesNothing, Kept, Held, Promised
<1>3. ASSUME FindCertificate(w)
      PROVE  GivesNothing(p) \/ GivesPromise(w, p)
  <2>1. PICK q : q = local[w].who
    OBVIOUS
  <2>2. CASE Findable(q) = {} /\ Become(w, [pc |-> "creating", who |-> q])
    <3> DEFINE l == [pc |-> "creating", who |-> q]
    <3>1. Become(w, l) /\ l.pc = "creating" /\ l.who = q
      BY <2>2
    <3> HIDE DEF l
    <3>2. Held(p)' \subseteq Held(p) /\ Promised(p)' \subseteq Promised(p) \union {w}
      BY <3>1, BecomeOne DEF Held, Promised
    <3>3. CASE q = p
      BY <1>3, <2>2, <3>2, <3>3 DEF FindCertificate, GivesPromise, Findable, Of
    <3>4. CASE q # p
      <4>1. Promised(p)' \subseteq Promised(p)
        BY <3>1, <3>4, BecomeOne DEF Promised
      <4> QED
        BY <3>2, <4>1 DEF GivesNothing, Kept
    <3> QED
      BY <3>3, <3>4
  <2>3. ASSUME NEW c \in Findable(q), Become(w, [pc |-> "updating", who |-> q, cert |-> c])
        PROVE  GivesNothing(p)
    <3> DEFINE l == [pc |-> "updating", who |-> q, cert |-> c]
    <3>1. Become(w, l) /\ l.pc = "updating" /\ l.who = q /\ l.cert = c /\ c \in Of(q)
      BY <2>3 DEF Findable
    <3> HIDE DEF l
    <3>2. Promised(p)' \subseteq Promised(p)
      BY <3>1, BecomeOne DEF Promised
    <3>3. Held(p)' \subseteq Kept(p)
      BY <3>1, BecomeOne DEF Held, Kept
    <3> QED
      BY <3>2, <3>3 DEF GivesNothing
  <2>4. CASE Become(w, Idle)
    BY <1>1, <2>4 DEF Idle
  <2> QED
    BY <1>3, <2>1, <2>2, <2>3, <2>4 DEF FindCertificate
<1>4. ASSUME NEW q \in Participants, LoadParticipant(w, q)
      PROVE  GivesNothing(p)
  BY <1>1, <1>4 DEF LoadParticipant
<1>5. ASSUME CheckEligibility(w)
      PROVE  GivesNothing(p)
  <2>1. CASE Become(w, Idle)
    BY <1>1, <2>1 DEF Idle
  <2>2. CASE Become(w, [pc |-> "eligible", who |-> local[w].who])
    BY <1>1, <2>2
  <2> QED
    BY <1>5, <2>1, <2>2 DEF CheckEligibility
<1>6. ASSUME Become(w, Idle)
      PROVE  GivesNothing(p)
  BY <1>1, <1>6 DEF Idle
<1>7. ASSUME NEW c \in Ids, NEW q \in Owners, LoadCertificate(w, c, q)
      PROVE  GivesNothing(p)
  BY <1>1, <1>7 DEF LoadCertificate
<1>8. ASSUME NEW q \in Participants, NEW v \in Cases, RecordViolation(w, q, v)
      PROVE  GivesNothing(p)
  BY <1>1, <1>8 DEF RecordViolation
<1> QED
  BY <1>2, <1>3, <1>4, <1>5, <1>6, <1>7, <1>8
     DEF IssueNext, CertificateNext, FactsNext, Abandon, CreateCertificate, UpdateCertificate, Issue,
         Cancel, Delete, RestCreate, RestUpdate, SaveParticipant, CheckIn, FlagParticipant,
         SetCase, AnswerSurvey, ToggleModule

LEMMA CertificatesAndPromisesInductive ==
  ASSUME TypeOK, TypeOK', CertificatesAndPromises, [Next]_vars
  PROVE  CertificatesAndPromises'
<1> SUFFICES ASSUME NEW p \in Participants
             PROVE  Cardinality(Kept(p)') + Cardinality(Promised(p)')
                      <= Cardinality(Workers) + bypasses'[p]
  BY DEF CertificatesAndPromises, Kept
<1> DEFINE k == Cardinality(Kept(p))       m == Cardinality(Promised(p))
           K == Cardinality(Kept(p)')      M == Cardinality(Promised(p)')
           N == Cardinality(Workers)
<1>1. k + m <= N + bypasses[p]
  BY DEF CertificatesAndPromises, Kept
<1>2. /\ k \in Nat /\ m \in Nat /\ N \in Nat
      /\ bypasses[p] \in Nat /\ bypasses'[p] \in Nat
      /\ IsFiniteSet(Kept(p)) /\ IsFiniteSet(Promised(p))
  BY Counts DEF TypeOK
<1>3. K \in Nat /\ M \in Nat
  <2>1. Kept(p)' \subseteq Ids /\ Promised(p)' \subseteq Workers
    BY DEF Kept, Of, Held, Promised
  <2>2. IsFiniteSet(Ids) /\ IsFiniteSet(Workers)
    BY DEF CertificatesAssumption
  <2> QED
    BY <2>1, <2>2, FS_Subset, FS_CardinalityType
<1>4. CASE UNCHANGED vars
  <2>1. Kept(p)' = Kept(p) /\ Promised(p)' = Promised(p) /\ bypasses' = bypasses
    BY <1>4 DEF vars, Kept, Of, Held, Promised
  <2> QED
    BY <1>1, <2>1
<1>5. ASSUME NEW w \in Workers,
             IssueNext(w) \/ CertificateNext(w) \/ FactsNext(w) \/ Abandon(w)
      PROVE  K + M <= N + bypasses'[p]
  <2>1. CASE GivesPromise(w, p)
    <3>1. Kept(p)' \subseteq Held(p) /\ IsFiniteSet(Held(p)) /\ Cardinality(Held(p)) \in Nat
      BY <2>1, Counts DEF GivesPromise, Kept
    <3>2. K <= Cardinality(Held(p))
      BY <3>1, FS_Subset
    <3>3. M <= m + 1
      BY <1>2, <2>1, GrowsByOne DEF GivesPromise
    <3>4. Cardinality(Held(p)) + m < N
      BY <2>1, RoomForOne DEF GivesPromise
    <3> HIDE DEF k, m, K, M, N
    <3> QED
      BY <1>2, <1>3, <3>1, <3>2, <3>3, <3>4
  <2>2. CASE GivesNothing(p)
    <3>1. M <= m
      BY <1>2, <2>2, FS_Subset DEF GivesNothing
    <3>2. CASE NoneAdded(p)
      <4>1. Kept(p)' \subseteq Kept(p) /\ bypasses'[p] = bypasses[p]
        BY <2>2, <3>2 DEF GivesNothing, NoneAdded, Kept
      <4>2. K <= k
        BY <1>2, <4>1, FS_Subset
      <4> HIDE DEF k, m, K, M, N
      <4> QED
        BY <1>1, <1>2, <1>3, <3>1, <4>1, <4>2
    <3>3. CASE AddedByRest(p)
      <4>1. PICK c : Kept(p)' \subseteq Kept(p) \union {c}
        BY <2>2, <3>3 DEF GivesNothing, AddedByRest, Kept
      <4>2. K <= k + 1 /\ bypasses'[p] = bypasses[p] + 1
        BY <1>2, <3>3, <4>1, GrowsByOne DEF AddedByRest
      <4> HIDE DEF k, m, K, M, N
      <4> QED
        BY <1>1, <1>2, <1>3, <3>1, <4>2
    <3>4. CASE Created(w, p)
      <4>1. PICK c : Kept(p)' \subseteq Kept(p) \union {c}
        BY <2>2, <3>4 DEF GivesNothing, Created, Kept
      <4>2. K <= k + 1 /\ bypasses'[p] = bypasses[p]
        BY <1>2, <3>4, <4>1, GrowsByOne DEF Created
      <4>3. Promised(p)' \subseteq Promised(p) \ {w} /\ w \in Promised(p)
        BY <2>2, <3>4, BecomeOne DEF Created, GivesNothing, Promised, Idle
      <4>4. M <= m - 1
        <5>1. IsFiniteSet(Promised(p) \ {w}) /\ Cardinality(Promised(p) \ {w}) = m - 1
          BY <1>2, <4>3, FS_RemoveElement
        <5> QED
          BY <4>3, <5>1, FS_Subset
      <4> HIDE DEF k, m, K, M, N
      <4> QED
        BY <1>1, <1>2, <1>3, <4>2, <4>4
    <3>5. CASE Updated(w, p)
      <4>1. local[w].cert \in Held(p)
        BY <3>5, RequestShape DEF Updated, Held, Updating
      <4>2. Kept(p)' \subseteq Kept(p) /\ bypasses'[p] = bypasses[p]
        BY <2>2, <3>5, <4>1 DEF GivesNothing, Updated, Kept
      <4>3. K <= k
        BY <1>2, <4>2, FS_Subset
      <4> HIDE DEF k, m, K, M, N
      <4> QED
        BY <1>1, <1>2, <1>3, <3>1, <4>2, <4>3
    <3> QED
      BY <1>5, <3>2, <3>3, <3>4, <3>5, WhatRowsDo
  <2> QED
    BY <1>5, <2>1, <2>2, WhatWorkersDo
<1> QED
  BY <1>4, <1>5 DEF Next

\* On either database a participant has at most as many certificates of one type as
\* there are workers, and those REST added (CertificatesAreBounded).  A certificate
\* is promised only to somebody who has none, so the promises and the instances in
\* hand belong to different workers.
THEOREM CertificatesBounded == Spec => []CertificatesAreBounded
<1>1. Init => CertificatesAndPromises
  <2> SUFFICES ASSUME Init, TypeOK, NEW p \in Participants
               PROVE  Cardinality(Of(p) \union Held(p)) + Cardinality(Promised(p))
                        <= Cardinality(Workers) + bypasses[p]
    BY InitTyped DEF CertificatesAndPromises
  <2>1. Of(p) \union Held(p) = {} /\ Promised(p) = {} /\ bypasses[p] = 0
    BY DEF Init, Of, Held, Promised, Idle
  <2>2. Cardinality(Of(p) \union Held(p)) = 0 /\ Cardinality(Promised(p)) = 0
    BY <2>1, FS_EmptySet
  <2>3. Cardinality(Workers) \in Nat
    BY Counts
  <2> QED
    BY <2>1, <2>2, <2>3
<1>2. TypeOK /\ TypeOK' /\ CertificatesAndPromises /\ [Next]_vars => CertificatesAndPromises'
  BY CertificatesAndPromisesInductive
<1>3. TypeOK /\ CertificatesAndPromises => CertificatesAreBounded
  <2> SUFFICES ASSUME TypeOK, CertificatesAndPromises, NEW p \in Participants
               PROVE  Cardinality(Of(p)) <= Cardinality(Workers) + bypasses[p]
    BY DEF CertificatesAreBounded
  <2>1. Cardinality(Kept(p)) + Cardinality(Promised(p)) <= Cardinality(Workers) + bypasses[p]
    BY DEF CertificatesAndPromises, Kept
  <2> QED
    BY <2>1, Counts
<1> QED
  BY <1>1, <1>2, <1>3, CertificatesTypeCorrect, PTL DEF Spec
-----------------------------------------------------------------------------
(***************************************************************************)
(* Blocking.                                                               *)
(***************************************************************************)

Blocked(p) == row[p].certificate_blocked

\* What a step of w can do to the issues under way to p: nothing, or only to an
\* unblocked participant; finish one of them; or set or clear the block.
Calm(p) ==
  /\ Blocked(p)' = Blocked(p) /\ late'[p] = late[p]
  /\ Blocked(p) => InFlight(p)' \subseteq InFlight(p)

Finishes(w, p) ==
  /\ Blocked(p)' = Blocked(p)
  /\ w \in InFlight(p) /\ InFlight(p)' \subseteq InFlight(p) \ {w}
  /\ late'[p] = IF Blocked(p) THEN late[p] + 1 ELSE late[p]

SetsBlock(p) ==
  /\ InFlight(p)' \subseteq InFlight(p)
  /\ late'[p] = IF Blocked(p)' THEN late[p] ELSE 0

LEMMA WhatFlightsDo ==
  ASSUME TypeOK, NEW w \in Workers, NEW p \in Participants,
         IssueNext(w) \/ CertificateNext(w) \/ FactsNext(w) \/ Abandon(w)
  PROVE  Calm(p) \/ Finishes(w, p) \/ SetsBlock(p)
<1>1. ASSUME NEW l, Become(w, l), l.pc \notin {"loaded", "eligible", "creating", "updating"}
      PROVE  InFlight(p)' \subseteq InFlight(p) \ {w}
  BY <1>1, BecomeOne DEF InFlight
<1>2. ASSUME NEW l, Become(w, l), l.who = local[w].who,
             l.pc \in {"eligible", "creating", "updating"},
             w \in InFlight(local[w].who)
      PROVE  InFlight(p)' \subseteq InFlight(p)
  BY <1>2, BecomeOne DEF InFlight
<1>3. ASSUME NEW q \in Participants, LoadParticipant(w, q)
      PROVE  Calm(p)
  <2> DEFINE l == [pc |-> "loaded", who |-> q, row |-> row[q]]
  <2>1. Become(w, l) /\ l.pc = "loaded" /\ l.who = q /\ l.row = row[q]
    BY <1>3 DEF LoadParticipant
  <2> HIDE DEF l
  <2>2. Blocked(p) => InFlight(p)' \subseteq InFlight(p)
    BY <2>1, BecomeOne DEF InFlight, Blocked
  <2> QED
    BY <1>3, <2>2 DEF LoadParticipant, facts, Calm, Blocked
<1>4. ASSUME CheckEligibility(w)
      PROVE  Calm(p)
  <2>1. CASE Become(w, Idle)
    <3>1. InFlight(p)' \subseteq InFlight(p)
      BY <1>1, <2>1 DEF Idle
    <3> QED
      BY <1>4, <3>1 DEF CheckEligibility, facts, Calm, Blocked
  <2>2. CASE ~Become(w, Idle)
    <3>1. /\ Become(w, [pc |-> "eligible", who |-> local[w].who])
          /\ ~local[w].row.certificate_blocked
      BY <1>4, <2>2 DEF CheckEligibility, IsEligible
    <3>2. w \in InFlight(local[w].who)
      BY <1>4, <3>1 DEF CheckEligibility, InFlight
    <3>3. InFlight(p)' \subseteq InFlight(p)
      BY <1>2, <3>1, <3>2
    <3> QED
      BY <1>4, <3>3 DEF CheckEligibility, facts, Calm, Blocked
  <2> QED
    BY <2>1, <2>2
<1>5. ASSUME FindCertificate(w)
      PROVE  Calm(p)
  <2>1. w \in InFlight(local[w].who)
    BY <1>5 DEF FindCertificate, InFlight
  <2>3. CASE Become(w, [pc |-> "creating", who |-> local[w].who])
    <3>1. InFlight(p)' \subseteq InFlight(p)
      BY <1>2, <2>1, <2>3
    <3> QED
      BY <1>5, <3>1 DEF FindCertificate, facts, Calm, Blocked
  <2>4. ASSUME NEW c \in Findable(local[w].who),
               Become(w, [pc |-> "updating", who |-> local[w].who, cert |-> c])
        PROVE  Calm(p)
    <3>1. InFlight(p)' \subseteq InFlight(p)
      BY <1>2, <2>1, <2>4
    <3> QED
      BY <1>5, <3>1 DEF FindCertificate, facts, Calm, Blocked
  <2>5. CASE Become(w, Idle)
    <3>1. InFlight(p)' \subseteq InFlight(p)
      BY <1>1, <2>5 DEF Idle
    <3> QED
      BY <1>5, <3>1 DEF FindCertificate, facts, Calm, Blocked
  <2> QED
    BY <1>5, <2>3, <2>4, <2>5 DEF FindCertificate
<1>6. ASSUME NEW c, local[w].pc \in {"creating", "updating"}, Issue(w, c)
      PROVE  Calm(p) \/ Finishes(w, p)
  <2>1. Become(w, Idle) /\ row' = row
    BY <1>6 DEF Issue, facts
  <2>2. InFlight(p)' \subseteq InFlight(p) \ {w}
    BY <1>1, <2>1 DEF Idle
  <2>3. CASE local[w].who = p
    <3>1. w \in InFlight(p)
      BY <1>6, <2>3 DEF InFlight
    <3>2. late'[p] = IF Blocked(p) THEN late[p] + 1 ELSE late[p]
      BY <1>6, <2>3 DEF Issue, TypeOK, Blocked
    <3> QED
      BY <2>1, <2>2, <3>1, <3>2 DEF Finishes, Blocked
  <2>4. CASE local[w].who # p
    <3>1. late'[p] = late[p]
      BY <1>6, <2>4 DEF Issue, TypeOK
    <3> QED
      BY <2>1, <2>2, <3>1 DEF Calm, Blocked
  <2> QED
    BY <2>3, <2>4
<1>7. ASSUME UNCHANGED <<row, late>>, local' = local \/ Become(w, Idle)
      PROVE  Calm(p)
  <2>1. InFlight(p)' \subseteq InFlight(p)
    BY <1>1, <1>7 DEF Idle, InFlight
  <2> QED
    BY <1>7, <2>1 DEF Calm, Blocked
<1>8. ASSUME NEW c \in Ids, NEW q \in Owners, LoadCertificate(w, c, q)
      PROVE  Calm(p)
  <2>1. InFlight(p)' \subseteq InFlight(p)
    BY <1>1, <1>8 DEF LoadCertificate
  <2> QED
    BY <1>8, <2>1 DEF LoadCertificate, facts, Calm, Blocked
<1>9. ASSUME NEW q \in Participants, NEW v \in Cases, RecordViolation(w, q, v)
      PROVE  Calm(p)
  <2>1. InFlight(p)' \subseteq InFlight(p)
    BY <1>1, <1>9 DEF RecordViolation
  <2> QED
    BY <1>9, <2>1 DEF RecordViolation, Calm, Blocked
<1>10. ASSUME NEW q \in Participants, NEW r, SetRow(q, r), local' = local \/ Become(w, Idle)
       PROVE  Calm(p) \/ SetsBlock(p)
  <2>1. InFlight(p)' \subseteq InFlight(p)
    BY <1>1, <1>10 DEF Idle, InFlight
  <2>2. CASE q = p
    <3>1. Blocked(p)' = r.certificate_blocked
      BY <1>10, <2>2 DEF SetRow, TypeOK, Blocked
    <3>2. late'[p] = IF r.certificate_blocked THEN late[p] ELSE 0
      BY <1>10, <2>2 DEF SetRow, TypeOK
    <3> QED
      BY <2>1, <3>1, <3>2 DEF SetsBlock
  <2>3. CASE q # p
    BY <1>10, <2>1, <2>3 DEF SetRow, TypeOK, Calm, Blocked
  <2> QED
    BY <2>2, <2>3
<1>11. ASSUME FlagParticipant(w)
       PROVE  Calm(p) \/ SetsBlock(p)
  <2>1. local[w].who \in Participants
    BY <1>11, RequestShape DEF FlagParticipant, Flagging
  <2> QED
    BY <1>10, <1>11, <2>1 DEF FlagParticipant
<1>12. ASSUME NEW q \in Participants, SaveParticipant(w, q) \/ CheckIn(w, q)
       PROVE  Calm(p) \/ SetsBlock(p)
  BY <1>10, <1>12 DEF SaveParticipant, CheckIn
<1>13. ASSUME CertificateNext(w), \A c \in Ids, q \in Owners : ~LoadCertificate(w, c, q)
       PROVE  Calm(p)
  BY <1>7, <1>13 DEF CertificateNext, Cancel, Delete, RestCreate, RestUpdate, facts
<1>14. ASSUME Abandon(w)
       PROVE  Calm(p)
  BY <1>7, <1>14 DEF Abandon, facts
<1>15. ASSUME NEW c \in Ids, CreateCertificate(w, c) \/ UpdateCertificate(w)
       PROVE  Calm(p) \/ Finishes(w, p)
  BY <1>6, <1>15 DEF CreateCertificate, UpdateCertificate
<1>16. ASSUME UpdateCertificate(w)
       PROVE  Calm(p) \/ Finishes(w, p)
  BY <1>6, <1>16 DEF UpdateCertificate
<1> QED
  BY <1>3, <1>4, <1>5, <1>7, <1>8, <1>9, <1>11, <1>12, <1>13, <1>14, <1>15, <1>16
     DEF IssueNext, FactsNext, SetCase, AnswerSurvey, ToggleModule

LEMMA LateAndInFlightInductive ==
  ASSUME TypeOK, TypeOK', LateAndInFlight, [Next]_vars
  PROVE  LateAndInFlight'
<1> SUFFICES ASSUME NEW p \in Participants
             PROVE  IF Blocked(p)'
                      THEN late'[p] + Cardinality(InFlight(p)') <= Cardinality(Workers)
                      ELSE late'[p] = 0
  BY DEF LateAndInFlight, Blocked
<1> DEFINE f == Cardinality(InFlight(p))  F == Cardinality(InFlight(p)')
           N == Cardinality(Workers)
<1>1. IF Blocked(p) THEN late[p] + f <= N ELSE late[p] = 0
  BY DEF LateAndInFlight, Blocked
<1>2. /\ IsFiniteSet(InFlight(p)) /\ f \in Nat /\ F \in Nat /\ N \in Nat
      /\ F <= N /\ late[p] \in Nat
  <2>1. InFlight(p) \subseteq Workers /\ InFlight(p)' \subseteq Workers /\ IsFiniteSet(Workers)
    BY DEF InFlight, CertificatesAssumption
  <2> QED
    BY <2>1, FS_Subset, FS_CardinalityType DEF TypeOK
<1>3. InFlight(p)' \subseteq InFlight(p) => F <= f
  BY <1>2, FS_Subset
<1>4. CASE UNCHANGED vars
  <2>1. InFlight(p)' = InFlight(p) /\ Blocked(p)' = Blocked(p) /\ late' = late
    BY <1>4 DEF vars, InFlight, Blocked
  <2> QED
    BY <1>1, <2>1
<1>5. ASSUME Calm(p)
      PROVE  IF Blocked(p)' THEN late'[p] + F <= N ELSE late'[p] = 0
  <2>1. Blocked(p)' = Blocked(p) /\ late'[p] = late[p] /\ (Blocked(p) => F <= f)
    BY <1>3, <1>5 DEF Calm
  <2> HIDE DEF f, F, N
  <2> QED
    BY <1>1, <1>2, <2>1
<1>6. ASSUME NEW w \in Workers, Finishes(w, p)
      PROVE  IF Blocked(p)' THEN late'[p] + F <= N ELSE late'[p] = 0
  <2>1. F <= f - 1
    <3>1. IsFiniteSet(InFlight(p) \ {w}) /\ Cardinality(InFlight(p) \ {w}) = f - 1
      BY <1>2, <1>6, FS_RemoveElement DEF Finishes
    <3> QED
      BY <1>6, <3>1, FS_Subset DEF Finishes
  <2>2. /\ Blocked(p)' = Blocked(p)
        /\ late'[p] = IF Blocked(p) THEN late[p] + 1 ELSE late[p]
    BY <1>6 DEF Finishes
  <2> HIDE DEF f, F, N
  <2> QED
    BY <1>1, <1>2, <2>1, <2>2
<1>7. ASSUME SetsBlock(p)
      PROVE  IF Blocked(p)' THEN late'[p] + F <= N ELSE late'[p] = 0
  <2>1. F <= f /\ late'[p] = IF Blocked(p)' THEN late[p] ELSE 0
    BY <1>3, <1>7 DEF SetsBlock
  <2> HIDE DEF f, F, N
  <2> QED
    BY <1>1, <1>2, <2>1
<1> QED
  BY <1>4, <1>5, <1>6, <1>7, WhatFlightsDo DEF Next

\* On either database, after a participant is blocked at most one certificate per
\* worker is still issued to that participant (BlockingDrains): each of them by a
\* request that was under way with an unblocked instance in hand.
THEOREM BlockingIsDrained == Spec => []BlockingDrains
<1>1. Init => LateAndInFlight
  BY DEF Init, LateAndInFlight
<1>2. TypeOK /\ TypeOK' /\ LateAndInFlight /\ [Next]_vars => LateAndInFlight'
  BY LateAndInFlightInductive
<1>3. TypeOK /\ LateAndInFlight => BlockingDrains
  <2> SUFFICES ASSUME TypeOK, LateAndInFlight, NEW p \in Participants
               PROVE  late[p] <= Cardinality(Workers)
    BY DEF BlockingDrains
  <2>1. InFlight(p) \subseteq Workers /\ IsFiniteSet(Workers)
    BY DEF InFlight, CertificatesAssumption
  <2>2. Cardinality(InFlight(p)) \in Nat /\ Cardinality(Workers) \in Nat
    BY <2>1, FS_Subset, FS_CardinalityType
  <2> QED
    BY <2>2 DEF LateAndInFlight, TypeOK
<1> QED
  BY <1>1, <1>2, <1>3, CertificatesTypeCorrect, PTL DEF Spec
-----------------------------------------------------------------------------
(***************************************************************************)
(* What was read stays true until it is written.                           *)
(***************************************************************************)

StepOf(w) == IssueNext(w) \/ CertificateNext(w) \/ FactsNext(w) \/ Abandon(w)

\* What the database answers to an issue changes only at the hand of a worker that
\* may write and is in no transaction afterwards.
LEMMA WhoWrites ==
  ASSUME TypeOK, NEW w \in Workers, StepOf(w)
  PROVE  \/ UNCHANGED <<certs, cases, answered, enabled>>
         \/ /\ MayWrite(w)
            /\ ~InTransaction(w)'
            /\ \A v \in Workers : v # w => local'[v] = local[v]
<1>1. ASSUME NEW l, Become(w, l), l.pc \notin {"eligible", "creating", "updating"}
      PROVE  ~InTransaction(w)' /\ \A v \in Workers : v # w => local'[v] = local[v]
  BY <1>1, BecomeOne DEF InTransaction
<1>2. ASSUME local' = local, local[w] = Idle
      PROVE  ~InTransaction(w)' /\ \A v \in Workers : v # w => local'[v] = local[v]
  BY <1>2 DEF Idle, InTransaction
<1>3. ASSUME NEW c, Issue(w, c)
      PROVE  /\ MayWrite(w) /\ ~InTransaction(w)'
             /\ \A v \in Workers : v # w => local'[v] = local[v]
  BY <1>1, <1>3 DEF Issue, Idle
<1>4. CASE \E c \in Ids : Cancel(w, c) \/ Delete(w, c)
  BY <1>2, <1>4 DEF Cancel, Delete
<1>5. CASE \E c \in Ids, p \in Participants, s \in Statuses : RestCreate(w, c, p, s)
  BY <1>2, <1>5 DEF RestCreate
<1>6. CASE \E s \in Statuses : RestUpdate(w, s)
  BY <1>1, <1>6 DEF RestUpdate, Idle
<1>7. ASSUME NEW p \in Participants, NEW v \in Cases, RecordViolation(w, p, v)
      PROVE  /\ MayWrite(w) /\ ~InTransaction(w)'
             /\ \A u \in Workers : u # w => local'[u] = local[u]
  BY <1>1, <1>7 DEF RecordViolation
<1>8. ASSUME NEW p \in Participants,
             \/ \E v \in Cases, s \in CaseStatuses \union {"none"} : SetCase(w, p, v, s)
             \/ \E s \in Surveys : AnswerSurvey(w, p, s)
      PROVE  /\ MayWrite(w) /\ ~InTransaction(w)'
             /\ \A u \in Workers : u # w => local'[u] = local[u]
  BY <1>2, <1>8 DEF SetCase, AnswerSurvey
<1>9. CASE ToggleModule(w)
  BY <1>2, <1>9 DEF ToggleModule
<1>10. CASE Abandon(w) \/ FlagParticipant(w)
  BY <1>10 DEF Abandon, FlagParticipant, facts
<1> QED
  BY <1>3, <1>4, <1>5, <1>6, <1>7, <1>8, <1>9, <1>10
     DEF StepOf, IssueNext, CertificateNext, FactsNext, LoadParticipant, CheckEligibility,
         FindCertificate, CreateCertificate, UpdateCertificate, LoadCertificate,
         SaveParticipant, CheckIn, facts

\* While none of that is written, what a worker has newly read is true and what it
\* had read stays true.
LEMMA ReadsAreTrue ==
  ASSUME TypeOK, NEW w \in Workers, StepOf(w), UNCHANGED <<certs, cases, answered, enabled>>,
         NEW v \in Workers, ReadsHold(v)
  PROVE  ReadsHold(v)'
<1>1. /\ \A p : Of(p)' = Of(p) /\ UnderViolation(p)' = UnderViolation(p)
      /\ \A p : FeedbackMissing(p)' = FeedbackMissing(p)
      /\ enabled' = enabled
  BY DEF Of, UnderViolation, FeedbackMissing
<1>2. ASSUME local'[v] = local[v]
      PROVE  ReadsHold(v)'
  BY <1>1, <1>2 DEF ReadsHold, InTransaction
<1>3. ASSUME NEW l, Become(w, l), l.pc \notin {"eligible", "creating", "updating"}
      PROVE  ReadsHold(v)'
  <2>1. CASE v = w
    BY <1>3, <2>1, BecomeOne DEF ReadsHold, InTransaction
  <2>2. CASE v # w
    BY <1>2, <1>3, <2>2, BecomeOne
  <2> QED
    BY <2>1, <2>2
<1>4. ASSUME NEW l, Become(w, l), l.pc \in {"eligible", "creating", "updating"},
             enabled /\ ~UnderViolation(l.who) /\ ~FeedbackMissing(l.who),
             l.pc = "creating" => Of(l.who) = {},
             l.pc = "updating" => Of(l.who) = {l.cert}
      PROVE  ReadsHold(v)'
  <2>1. CASE v = w
    BY <1>1, <1>4, <2>1, BecomeOne DEF ReadsHold, InTransaction
  <2>2. CASE v # w
    BY <1>2, <1>4, <2>2, BecomeOne
  <2> QED
    BY <2>1, <2>2
<1>5. ASSUME NEW p \in Participants, LoadParticipant(w, p)
      PROVE  ReadsHold(v)'
  <2> DEFINE l == [pc |-> "loaded", who |-> p, row |-> row[p]]
  <2>1. Become(w, l) /\ l.pc = "loaded"
    BY <1>5 DEF LoadParticipant
  <2> HIDE DEF l
  <2> QED
    BY <1>3, <2>1
<1>6. ASSUME CheckEligibility(w)
      PROVE  ReadsHold(v)'
  <2>1. CASE Become(w, Idle)
    BY <1>3, <2>1 DEF Idle
  <2>2. CASE ~Become(w, Idle)
    <3> DEFINE l == [pc |-> "eligible", who |-> local[w].who]
    <3>1. /\ Become(w, l) /\ l.pc = "eligible"
          /\ enabled /\ ~UnderViolation(l.who) /\ ~FeedbackMissing(l.who)
      BY <1>6, <2>2 DEF CheckEligibility, IsEligible
    <3> HIDE DEF l
    <3> QED
      BY <1>4, <3>1
  <2> QED
    BY <2>1, <2>2
<1>7. ASSUME FindCertificate(w)
      PROVE  ReadsHold(v)'
  <2>1. ASSUME v = w
        PROVE  enabled /\ ~UnderViolation(local[w].who) /\ ~FeedbackMissing(local[w].who)
    BY <1>7, <2>1 DEF FindCertificate, ReadsHold, InTransaction
  <2>2. CASE Become(w, Idle)
    BY <1>3, <2>2 DEF Idle
  <2>3. CASE v # w
    BY <1>2, <1>7, <2>3, BecomeOne DEF FindCertificate
  <2>4. CASE v = w /\ Of(local[w].who) = {}
             /\ Become(w, [pc |-> "creating", who |-> local[w].who])
    BY <1>4, <2>1, <2>4
  <2>5. ASSUME v = w, NEW c, Of(local[w].who) = {c},
               Become(w, [pc |-> "updating", who |-> local[w].who, cert |-> c])
        PROVE  ReadsHold(v)'
    BY <1>4, <2>1, <2>5
  <2> QED
    BY <1>7, <2>2, <2>3, <2>4, <2>5 DEF FindCertificate, Findable
<1>8. ASSUME NEW c, Issue(w, c)
      PROVE  ReadsHold(v)'
  BY <1>3, <1>8 DEF Issue, Idle
<1>9. ASSUME NEW c \in Ids, NEW q \in Owners, LoadCertificate(w, c, q)
      PROVE  ReadsHold(v)'
  <2> DEFINE l == [pc |-> "rewriting", who |-> q, cert |-> c]
  <2>1. Become(w, l) /\ l.pc = "rewriting"
    BY <1>9 DEF LoadCertificate
  <2> HIDE DEF l
  <2> QED
    BY <1>3, <2>1
<1>10. CASE Become(w, Idle)
  BY <1>3, <1>10 DEF Idle
<1>11. ASSUME NEW p \in Participants, NEW d \in Cases, RecordViolation(w, p, d)
       PROVE  ReadsHold(v)'
  BY <1>3, <1>11 DEF RecordViolation
<1>12. CASE local' = local
  BY <1>2, <1>12
<1> QED
  BY <1>5, <1>6, <1>7, <1>8, <1>9, <1>10, <1>11, <1>12
     DEF StepOf, IssueNext, CertificateNext, FactsNext, Abandon, CreateCertificate,
         UpdateCertificate, Cancel, Delete, RestCreate, RestUpdate, SaveParticipant, CheckIn,
         FlagParticipant, SetCase, AnswerSurvey, ToggleModule

LEMMA ReadsStillHoldInductive ==
  ASSUME TypeOK, ReadsStillHold, [Next]_vars
  PROVE  ReadsStillHold'
<1> SUFFICES ASSUME Undisturbed, NEW v \in Workers
             PROVE  ReadsHold(v)'
  BY DEF ReadsStillHold
<1>1. ReadsHold(v)
  BY DEF ReadsStillHold
<1>2. ASSUME NEW w \in Workers, StepOf(w), ~UNCHANGED <<certs, cases, answered, enabled>>
      PROVE  ReadsHold(v)'
  <2>1. MayWrite(w) /\ ~InTransaction(w)' /\ (v # w => local'[v] = local[v])
    BY <1>2, WhoWrites
  <2>2. v # w => ~InTransaction(v)
    BY <2>1 DEF MayWrite, Undisturbed
  <2> QED
    BY <2>1, <2>2 DEF ReadsHold, InTransaction
<1>3. CASE UNCHANGED vars
  BY <1>1, <1>3 DEF vars, ReadsHold, Of, UnderViolation, FeedbackMissing, InTransaction
<1> QED
  BY <1>1, <1>2, <1>3, ReadsAreTrue DEF Next, StepOf

LEMMA ReadsHoldAlways == Spec => []ReadsStillHold
<1>1. Init => ReadsStillHold
  BY DEF Init, ReadsStillHold, ReadsHold, InTransaction, Idle
<1> QED
  BY <1>1, ReadsStillHoldInductive, CertificatesTypeCorrect, PTL DEF Spec

\* On SQLite or with one worker a participant has one certificate of a type, and those
\* REST added (OneCertificate): nobody creates one unless there is still none at the
\* write.
THEOREM OneCertificateEach ==
  ASSUME Undisturbed
  PROVE  Spec => []OneCertificate
<1>1. Init => OneCertificate
  <2> SUFFICES ASSUME Init, NEW p \in Participants
               PROVE  Cardinality(Of(p)) <= 1 + bypasses[p]
    BY DEF OneCertificate
  <2>1. Of(p) = {} /\ bypasses[p] = 0
    BY DEF Init, Of
  <2> QED
    BY <2>1, FS_EmptySet
<1>2. TypeOK /\ TypeOK' /\ ReadsStillHold /\ OneCertificate /\ [Next]_vars => OneCertificate'
  <2> SUFFICES ASSUME TypeOK, TypeOK', ReadsStillHold, OneCertificate, [Next]_vars,
                      NEW p \in Participants
               PROVE  Cardinality(Of(p)') <= 1 + bypasses'[p]
    BY DEF OneCertificate
  <2> DEFINE k == Cardinality(Of(p))  K == Cardinality(Of(p)')
  <2>1. k <= 1 + bypasses[p]
    BY DEF OneCertificate
  <2>2. /\ IsFiniteSet(Of(p)) /\ k \in Nat /\ K \in Nat
        /\ bypasses[p] \in Nat /\ bypasses'[p] \in Nat
    <3>1. Of(p) \subseteq Ids /\ Of(p)' \subseteq Ids /\ IsFiniteSet(Ids)
      BY DEF Of, CertificatesAssumption
    <3> QED
      BY <3>1, FS_Subset, FS_CardinalityType DEF TypeOK
  <2>3. ASSUME NoneAdded(p)
        PROVE  K <= 1 + bypasses'[p]
    <3>1. K <= k /\ bypasses'[p] = bypasses[p]
      BY <2>2, <2>3, FS_Subset DEF NoneAdded
    <3> HIDE DEF k, K
    <3> QED
      BY <2>1, <2>2, <3>1
  <2>4. ASSUME AddedByRest(p)
        PROVE  K <= 1 + bypasses'[p]
    <3>1. K <= k + 1 /\ bypasses'[p] = bypasses[p] + 1
      BY <2>2, <2>4, GrowsByOne DEF AddedByRest
    <3> HIDE DEF k, K
    <3> QED
      BY <2>1, <2>2, <3>1
  <2>5. ASSUME NEW w \in Workers, Created(w, p)
        PROVE  K <= 1 + bypasses'[p]
    <3>1. Of(p) = {}
      BY <2>5 DEF Created, Promised, ReadsStillHold, ReadsHold
    <3>2. k = 0
      BY <3>1, FS_EmptySet
    <3>3. K <= k + 1
      BY <2>2, <2>5, GrowsByOne DEF Created
    <3> HIDE DEF k, K
    <3> QED
      BY <2>2, <3>2, <3>3
  <2>6. ASSUME NEW w \in Workers, Updated(w, p)
        PROVE  K <= 1 + bypasses'[p]
    <3>1. Of(p) = {local[w].cert}
      BY <2>6 DEF Updated, ReadsStillHold, ReadsHold
    <3>2. NoneAdded(p)
      BY <2>6, <3>1 DEF Updated, NoneAdded
    <3> QED
      BY <2>3, <3>2
  <2>7. CASE UNCHANGED vars
    BY <2>1, <2>7 DEF vars, Of
  <2> QED
    BY <2>3, <2>4, <2>5, <2>6, <2>7, WhatRowsDo DEF Next
<1> QED
  BY <1>1, <1>2, CertificatesTypeCorrect, ReadsHoldAlways, PTL DEF Spec
-----------------------------------------------------------------------------
(***************************************************************************)
(* The registry.                                                           *)
(***************************************************************************)

\* Only REST updates hold certificates outside of a transaction.
LEMMA NobodyRewrites ==
  ASSUME "rest_update" \notin Ops
  PROVE  Spec => [](\A w \in Workers : local[w].pc # "rewriting")
<1> DEFINE NoRewriters == \A w \in Workers : local[w].pc # "rewriting"
<1>1. Init => NoRewriters
  BY DEF Init, Idle
<1>2. TypeOK /\ NoRewriters /\ [Next]_vars => NoRewriters'
  <2> SUFFICES ASSUME TypeOK, NoRewriters, [Next]_vars, NEW v \in Workers
               PROVE  local'[v].pc # "rewriting"
    OBVIOUS
  <2>1. ASSUME NEW w \in Workers, NEW l, Become(w, l), l.pc # "rewriting"
        PROVE  local'[v].pc # "rewriting"
    BY <2>1, BecomeOne
  <2>2. ASSUME NEW w \in Workers, NEW p \in Participants, LoadParticipant(w, p)
        PROVE  local'[v].pc # "rewriting"
    <3> DEFINE l == [pc |-> "loaded", who |-> p, row |-> row[p]]
    <3>1. Become(w, l) /\ l.pc = "loaded"
      BY <2>2 DEF LoadParticipant
    <3> HIDE DEF l
    <3> QED
      BY <2>1, <3>1
  <2>3. ASSUME NEW w \in Workers, CheckEligibility(w) \/ FindCertificate(w)
        PROVE  local'[v].pc # "rewriting"
    BY <2>1, <2>3 DEF CheckEligibility, FindCertificate, Idle
  <2>4. ASSUME NEW w \in Workers, NEW c, Issue(w, c)
        PROVE  local'[v].pc # "rewriting"
    BY <2>1, <2>4 DEF Issue, Idle
  <2>5. ASSUME NEW w \in Workers, NEW p \in Participants, NEW d \in Cases, RecordViolation(w, p, d)
        PROVE  local'[v].pc # "rewriting"
    BY <2>1, <2>5 DEF RecordViolation
  <2>6. ASSUME NEW w \in Workers, FlagParticipant(w) \/ Abandon(w)
        PROVE  local'[v].pc # "rewriting"
    BY <2>1, <2>6 DEF FlagParticipant, Abandon, Idle
  <2>7. CASE local' = local
    BY <2>7
  <2> QED
    BY <2>2, <2>3, <2>4, <2>5, <2>6, <2>7
       DEF Next, vars, IssueNext, CertificateNext, FactsNext, CreateCertificate,
           UpdateCertificate, Cancel, Delete, RestCreate, LoadCertificate, RestUpdate,
           SaveParticipant, CheckIn, SetCase, AnswerSurvey, ToggleModule
<1> QED
  BY <1>1, <1>2, CertificatesTypeCorrect, PTL DEF Spec

\* What a row is in the registry.
LEMMA PaperOf ==
  ASSUME NEW x \in Participants \X Ids
  PROVE  /\ x \in Papers <=> certs[x[2]] # NoCertificate /\ certs[x[2]].who = x[1]
         /\ x \in Valid <=> x \in Papers /\ certs[x[2]].status = "issued"
  BY DEF Papers, Valid, Of

LEMMA SamePapers ==
  ASSUME certs' = certs
  PROVE  Papers' = Papers /\ Valid' = Valid
  BY DEF Papers, Valid, Of

\* The registry knows nothing of certificates of others.
LEMMA NoPaperElsewhere ==
  ASSUME TypeOK, NEW c \in Ids, certs[c] = NoCertificate \/ certs[c].who \notin Participants,
         \A d \in Ids : d # c => certs'[d] = certs[d],
         certs'[c] = NoCertificate \/ certs'[c].who \notin Participants
  PROVE  Papers' = Papers /\ Valid' = Valid
<1>1. \A p \in Participants : c \notin Of(p) /\ c \notin Of(p)'
  BY DEF Of
<1>2. \A p \in Participants : Of(p)' = Of(p)
  BY <1>1 DEF Of
<1>3. Papers' = Papers
  BY <1>2 DEF Papers
<1>4. \A x \in Papers : x[2] \in Ids /\ x[2] # c
  BY <1>1 DEF Papers, Of
<1> QED
  BY <1>3, <1>4 DEF Valid

\* An issue, given what it has read, in the registry.
LEMMA IssueInRegistry ==
  ASSUME TypeOK, NEW w \in Workers, NEW c \in Ids, NEW q \in Participants, q = local[w].who,
         Issue(w, c), enabled, ~UnderViolation(q), ~FeedbackMissing(q),
         \/ Of(q) = {c}
         \/ Of(q) = {} /\ certs[c] = NoCertificate
  PROVE  Registry!Issue(q, c)
<1>1. /\ \A d \in Ids : d # c => certs'[d] = certs[d]
      /\ certs'[c] = [who |-> q, status |-> "issued"]
  BY DEF TypeOK, Issue, IssuedStatus
<1>2. certs[c] # NoCertificate => certs[c].who = q
  BY DEF Of
<1>3. certs'[c] # NoCertificate /\ certs'[c].who = q /\ certs'[c].status = "issued"
  BY <1>1 DEF NoCertificate
<1>4. Papers' = Papers \union {<<q, c>>}
  BY <1>1, <1>2, <1>3 DEF Papers, Of
<1>5. Valid' = Valid \union {<<q, c>>}
  <2>1. \A x \in Participants \X Ids : x[2] # c =>
          (x \in Valid' <=> x \in Valid)
    BY <1>1 DEF Valid, Papers, Of
  <2>2. \A x \in Participants \X Ids : x[2] = c /\ x[1] # q => x \notin Valid /\ x \notin Valid'
    BY <1>2, <1>3 DEF Valid, Papers, Of
  <2>3. <<q, c>> \in Valid'
    BY <1>3 DEF Valid, Papers, Of
  <2>4. Valid \subseteq Participants \X Ids /\ Valid' \subseteq Participants \X Ids
    BY DEF Valid, Papers
  <2>5. \A x \in Participants \X Ids : x[1] = q /\ x[2] = c => x = <<q, c>>
    OBVIOUS
  <2> QED
    BY <2>1, <2>2, <2>3, <2>4, <2>5
<1>6. q \notin Barred
  BY DEF Barred
<1>7. <<q, c>> \in Papers \/ \A m \in Ids : <<q, m>> \notin Papers
  BY DEF Papers, Of
<1>8. Barred' = Barred
  BY DEF Barred, UnderViolation, FeedbackMissing, Issue, facts
<1>9. \A p \in Participants \ {q} : <<p, c>> \notin Papers
  BY <1>2 DEF Papers, Of
<1> QED
  BY <1>4, <1>5, <1>6, <1>7, <1>8, <1>9 DEF Registry!Issue

\* On SQLite or with one worker, and while REST does not write certificates,
\* Certificates implements CertificateRegistry (ImplementsRegistry): the write of an
\* issue is the registry's issue, what it depends on moves the set of the barred, and
\* what else a request does is a stutter.
THEOREM CertificatesImplementRegistry ==
  ASSUME Undisturbed, "rest_create" \notin Ops, "rest_update" \notin Ops
  PROVE  Spec => ImplementsRegistry
<1> DEFINE NoRewriters == \A w \in Workers : local[w].pc # "rewriting"
<1>1. Init => Registry!RegistryInit
  <2> SUFFICES ASSUME Init PROVE Registry!RegistryInit
    OBVIOUS
  <2>1. Papers = {} /\ Valid = {}
    BY DEF Init, Papers, Valid, Of
  <2> QED
    BY <2>1 DEF Registry!RegistryInit, Barred
<1>2. TypeOK /\ ReadsStillHold /\ NoRewriters /\ [Next]_vars
        => [Registry!RegistryNext]_(Registry!registryVars)
  <2> SUFFICES ASSUME TypeOK, ReadsStillHold, NoRewriters, [Next]_vars
               PROVE  \/ UNCHANGED <<Papers, Valid, Barred>>
                      \/ Registry!RegistryNext
    BY DEF Registry!registryVars
  <2>1. CASE UNCHANGED <<certs, cases, answered, enabled>>
    BY <2>1 DEF Papers, Valid, Of, Barred, UnderViolation, FeedbackMissing
  <2>2. ASSUME certs' = certs
        PROVE  Registry!RegistryNext
    <3>1. Papers' = Papers /\ Valid' = Valid /\ Barred' \in SUBSET Participants
      BY <2>2, SamePapers DEF Barred
    <3> QED
      BY <3>1 DEF Registry!RegistryNext, Registry!Bar
  <2>3. ASSUME NEW w \in Workers, NEW c \in Ids, CreateCertificate(w, c)
        PROVE  Registry!RegistryNext
    <3>1. local[w] \in Creating
      BY <2>3, RequestShape DEF CreateCertificate
    <3>2. PICK q \in Participants : q = local[w].who
      BY <3>1 DEF Creating
    <3>3. ReadsHold(w)
      BY DEF ReadsStillHold
    <3>4. enabled /\ ~UnderViolation(q) /\ ~FeedbackMissing(q) /\ Of(q) = {}
      BY <2>3, <3>2, <3>3 DEF ReadsHold, InTransaction, CreateCertificate
    <3>5. certs[c] = NoCertificate /\ Issue(w, c)
      BY <2>3 DEF CreateCertificate, Fresh
    <3>6. Registry!Issue(q, c)
      BY <3>2, <3>4, <3>5, IssueInRegistry
    <3> QED
      BY <3>6 DEF Registry!RegistryNext
  <2>4. ASSUME NEW w \in Workers, UpdateCertificate(w)
        PROVE  Registry!RegistryNext
    <3>1. local[w] \in Updating
      BY <2>4, RequestShape DEF UpdateCertificate
    <3>2. PICK c \in Ids, q \in Participants : c = local[w].cert /\ q = local[w].who
      BY <3>1 DEF Updating
    <3>3. ReadsHold(w)
      BY DEF ReadsStillHold
    <3>4. enabled /\ ~UnderViolation(q) /\ ~FeedbackMissing(q) /\ Of(q) = {c}
      BY <2>4, <3>2, <3>3 DEF ReadsHold, InTransaction, UpdateCertificate
    <3>5. Issue(w, c)
      BY <2>4, <3>2 DEF UpdateCertificate
    <3>6. Registry!Issue(q, c)
      BY <3>2, <3>4, <3>5, IssueInRegistry
    <3> QED
      BY <3>6 DEF Registry!RegistryNext
  <2>5. ASSUME NEW w \in Workers, NEW c \in Ids, Cancel(w, c), certs[c].who \in Participants
        PROVE  Registry!RegistryNext
    <3>1. PICK q \in Participants : q = certs[c].who
      BY <2>5
    <3>2. /\ \A d \in Ids : d # c => certs'[d] = certs[d]
          /\ certs'[c] # NoCertificate /\ certs'[c].who = q /\ certs'[c].status = "cancelled"
          /\ certs[c] # NoCertificate
      BY <2>5, <3>1 DEF Cancel, TypeOK, Certificate, NoCertificate
    <3>3. Papers' = Papers
      BY <3>1, <3>2 DEF Papers, Of
    <3>4. Valid' = Valid \ {<<q, c>>}
      BY <3>1, <3>2, <3>3 DEF Valid, Papers, Of
    <3>5. <<q, c>> \in Papers
      BY <3>1, <3>2 DEF Papers, Of
    <3>6. Barred' = Barred
      BY <2>5 DEF Barred, UnderViolation, FeedbackMissing, Cancel, facts
    <3> QED
      BY <3>3, <3>4, <3>5, <3>6 DEF Registry!RegistryNext, Registry!Withdraw
  <2>6. ASSUME NEW w \in Workers, NEW c \in Ids, Delete(w, c), certs[c] # NoCertificate,
               certs[c].who \in Participants
        PROVE  Registry!RegistryNext
    <3>1. PICK q \in Participants : q = certs[c].who
      BY <2>6
    <3>2. /\ \A d \in Ids : d # c => certs'[d] = certs[d]
          /\ certs'[c] = NoCertificate
      BY <2>6 DEF Delete, TypeOK
    <3>3. Papers' = Papers \ {<<q, c>>}
      BY <2>6, <3>1, <3>2 DEF Papers, Of
    <3>4. Valid' = Valid \ {<<q, c>>}
      BY <2>6, <3>1, <3>2 DEF Valid, Papers, Of
    <3>5. <<q, c>> \in Papers
      BY <2>6, <3>1 DEF Papers, Of
    <3>6. Barred' = Barred
      BY <2>6 DEF Barred, UnderViolation, FeedbackMissing, Delete, facts
    <3> QED
      BY <3>3, <3>4, <3>5, <3>6 DEF Registry!RegistryNext, Registry!Destroy
  <2>7. ASSUME NEW w \in Workers, NEW c \in Ids, Cancel(w, c) \/ Delete(w, c),
               certs[c] = NoCertificate \/ certs[c].who \notin Participants
        PROVE  UNCHANGED <<Papers, Valid, Barred>>
    <3>1. UNCHANGED facts /\ \A d \in Ids : d # c => certs'[d] = certs[d]
      BY <2>7 DEF Cancel, Delete, TypeOK
    <3>2. Delete(w, c) => certs'[c] = NoCertificate
      BY DEF Delete, TypeOK
    <3>3. Cancel(w, c) => certs[c] # NoCertificate /\ certs'[c].who = certs[c].who
      BY DEF Cancel, TypeOK, Certificate
    <3>4. Papers' = Papers /\ Valid' = Valid
      BY <2>7, <3>1, <3>2, <3>3, NoPaperElsewhere
    <3> QED
      BY <3>1, <3>4 DEF Barred, UnderViolation, FeedbackMissing, facts
  <2>8. ASSUME NEW w \in Workers, FactsNext(w) \/ Abandon(w)
        PROVE  certs' = certs
    BY <2>8 DEF FactsNext, Abandon, SaveParticipant, CheckIn, RecordViolation, FlagParticipant,
                SetCase, AnswerSurvey, ToggleModule
  <2>9. ASSUME NEW w \in Workers,
               \/ \E p \in Participants : LoadParticipant(w, p)
               \/ CheckEligibility(w) \/ FindCertificate(w)
               \/ \E c \in Ids, p \in Owners : LoadCertificate(w, c, p)
        PROVE  certs' = certs
    BY <2>9 DEF LoadParticipant, CheckEligibility, FindCertificate, LoadCertificate
  <2>10. ASSUME NEW w \in Workers, CertificateNext(w)
         PROVE  \E c \in Ids : \/ Cancel(w, c) \/ Delete(w, c)
                             \/ \E p \in Owners : LoadCertificate(w, c, p)
    BY <2>10 DEF CertificateNext, RestCreate, RestUpdate
  <2>11. CASE UNCHANGED vars
    BY <2>1, <2>11 DEF vars
  <2> QED
    BY <2>1, <2>2, <2>3, <2>4, <2>5, <2>6, <2>7, <2>8, <2>9, <2>10, <2>11
       DEF Next, IssueNext
<1> QED
  BY <1>1, <1>2, CertificatesTypeCorrect, ReadsHoldAlways, NobodyRewrites, PTL
  DEF Spec, ImplementsRegistry, Registry!RegistrySpec

\* CertificateRegistry keeps what it is for, whatever is issued, withdrawn and destroyed:
\* so does issue wherever it implements CertificateRegistry.
THEOREM RegistryStaysSound == Registry!RegistrySpec => []Registry!RegistryIsSound
<1> DEFINE One == \A x, y \in Papers : x[1] = y[1] \/ x[2] = y[2] => x = y
<1>1. Registry!RegistryIsSound <=> One /\ Valid \subseteq Papers
  BY DEF Registry!RegistryIsSound
<1>2. Registry!RegistryIsSound' <=> One' /\ Valid' \subseteq Papers'
  BY DEF Registry!RegistryIsSound
<1>3. Registry!RegistryInit => Registry!RegistryIsSound
  BY <1>1 DEF Registry!RegistryInit
<1>4. Registry!RegistryIsSound /\ [Registry!RegistryNext]_(Registry!registryVars)
        => Registry!RegistryIsSound'
  <2> SUFFICES ASSUME One, Valid \subseteq Papers, [Registry!RegistryNext]_(Registry!registryVars)
               PROVE  One' /\ Valid' \subseteq Papers'
    BY <1>1, <1>2
  <2>1. ASSUME Papers' \subseteq Papers
        PROVE  One'
    BY <2>1
  <2>2. ASSUME NEW p \in Participants, NEW n \in Ids, Registry!Issue(p, n)
        PROVE  One' /\ Valid' \subseteq Papers'
    <3>1. /\ Papers' = Papers \union {<<p, n>>} /\ Valid' = Valid \union {<<p, n>>}
          /\ <<p, n>> \in Papers \/ \A m \in Ids : <<p, m>> \notin Papers
          /\ \A q \in Participants \ {p} : <<q, n>> \notin Papers
      BY <2>2 DEF Registry!Issue
    <3>2. \A x \in Papers : x = <<x[1], x[2]>> /\ x[1] \in Participants /\ x[2] \in Ids
      BY DEF Papers
    <3>3. \A x \in Papers : x[1] = p \/ x[2] = n => x = <<p, n>>
      BY <3>1, <3>2
    <3> QED
      BY <3>1, <3>3
  <2>3. ASSUME NEW x \in Papers, Registry!Withdraw(x) \/ Registry!Destroy(x)
        PROVE  One' /\ Valid' \subseteq Papers'
    <3>1. Papers' \subseteq Papers /\ Valid' \subseteq Papers'
      BY <2>3 DEF Registry!Withdraw, Registry!Destroy
    <3> QED
      BY <2>1, <3>1
  <2>4. CASE Registry!Bar \/ UNCHANGED Registry!registryVars
    <3>1. Papers' = Papers /\ Valid' = Valid
      BY <2>4 DEF Registry!Bar, Registry!registryVars
    <3> QED
      BY <2>1, <3>1
  <2> QED
    BY <2>2, <2>3, <2>4 DEF Registry!RegistryNext
<1> QED
  BY <1>3, <1>4, PTL DEF Registry!RegistrySpec
=============================================================================
