------------------------------ MODULE OfficeProofs ------------------------------
(***************************************************************************)
(* Theorems about Reports, CaseDesk and Messages, for every number of      *)
(* participants, cases, e-mails and worker processes.                      *)
(***************************************************************************)
EXTENDS Messages, CaseDesk, Reports, FiniteSetTheorems, TLAPS

-----------------------------------------------------------------------------
(***************************************************************************)
(* Cardinalities.                                                          *)
(***************************************************************************)

LEMMA Sizes == ASSUME NEW S, IsFiniteSet(S) PROVE Cardinality(S) \in Nat
  BY FS_CardinalityType

\* Of a finite set of workers, those that are counted afterwards: no new ones.
LEMMA NoneMore ==
  ASSUME NEW W, IsFiniteSet(W), NEW A, NEW B, A \subseteq W, B \subseteq A
  PROVE  /\ Cardinality(A) \in Nat /\ Cardinality(B) \in Nat
         /\ Cardinality(B) <= Cardinality(A)
<1>1. IsFiniteSet(A)
  BY FS_Subset
<1> QED
  BY <1>1, FS_Subset, FS_CardinalityType

\* One new one at most.
LEMMA OneMore ==
  ASSUME NEW W, IsFiniteSet(W), NEW A, NEW B, NEW x, A \subseteq W, B \subseteq A \union {x}
  PROVE  /\ Cardinality(A) \in Nat /\ Cardinality(B) \in Nat
         /\ Cardinality(B) <= Cardinality(A) + 1
<1>1. IsFiniteSet(A)
  BY FS_Subset
<1>2. /\ IsFiniteSet(A \union {x})
      /\ Cardinality(A \union {x}) \in {Cardinality(A), Cardinality(A) + 1}
  BY <1>1, FS_AddElement
<1> QED
  BY <1>1, <1>2, FS_Subset, FS_CardinalityType

\* One of them is none of them any more.
LEMMA OneLess ==
  ASSUME NEW W, IsFiniteSet(W), NEW A, NEW B, NEW x \in A, A \subseteq W, B \subseteq A \ {x}
  PROVE  /\ Cardinality(A) \in Nat /\ Cardinality(B) \in Nat
         /\ Cardinality(B) + 1 <= Cardinality(A)
<1>1. IsFiniteSet(A)
  BY FS_Subset
<1>2. /\ IsFiniteSet(A \ {x})
      /\ Cardinality(A \ {x}) = Cardinality(A) - 1
  BY <1>1, FS_RemoveElement
<1> QED
  BY <1>1, <1>2, FS_Subset, FS_CardinalityType
-----------------------------------------------------------------------------
(***************************************************************************)
(* Reports.                                                                *)
(***************************************************************************)

Studies == {Unasked} \union Counting \union Searching \union Naming

LEMMA AfterIs == DOMAIN After = {"approved", "rejected", "waitlisted"}
  BY DEF After

LEMMA StudyShape ==
  ASSUME ReportsTypeOK, NEW a \in Analysts
  PROVE  /\ study[a] \in Studies
         /\ study[a].pc \in {"checked", "sheet"} \union DOMAIN After => study[a] \in Counting
         /\ study[a].pc = "groups" => study[a] \in Searching
         /\ study[a].pc \in {"find", "create"} => study[a] \in Naming
<1>1. study[a] \in Studies
  BY DEF ReportsTypeOK, Studies
<1> QED
  BY <1>1, AfterIs DEF Studies, Unasked, Counting, Searching, Naming

\* What Learns does to the workers, one by one.
LEMMA LearnsOne ==
  ASSUME ReportsTypeOK, NEW a \in Analysts, NEW r, Learns(a, r)
  PROVE  /\ study'[a] = r
         /\ \A b \in Analysts : b # a => study'[b] = study[b]
  BY DEF ReportsTypeOK, Learns

LEMMA LearnsType ==
  ASSUME ReportsTypeOK, NEW a \in Analysts, NEW r \in Studies, Learns(a, r)
  PROVE  study' \in [Analysts -> Studies]
  BY DEF ReportsTypeOK, Learns, Studies

\* Any set of participants can be counted.
LEMMA GuestsCount == \A G \in SUBSET Guests : Cardinality(G) \in Nat
  BY ReportsAssumption, FS_Subset, FS_CardinalityType

LEMMA ReportsInitTyped == ReportsInit => ReportsTypeOK
  BY DEF ReportsInit, ReportsTypeOK

\* Writes of participants, logs and insights that REST makes.
WritesOnly ==
  \/ \E g \in Guests :
       \/ \E s \in GuestStatuses : SignUp(g, s) \/ SetStatus(g, s)
       \/ \E h \in Contacts : SetContact(g, h)
       \/ LogScan(g) \/ SetDeleted(g)
  \/ \E e \in SUBSET Guests : AddInsight(e) \/ DropInsight(e)

LEMMA WritesTyped == ReportsTypeOK /\ WritesOnly => ReportsTypeOK'
<1> SUFFICES ASSUME ReportsTypeOK, WritesOnly PROVE ReportsTypeOK'
  OBVIOUS
<1>1. ASSUME NEW g \in Guests, NEW s \in GuestStatuses, SignUp(g, s) \/ SetStatus(g, s)
      PROVE  ReportsTypeOK'
  BY <1>1 DEF ReportsTypeOK, SignUp, SetStatus, Written, Moved, Turned
<1>2. ASSUME NEW g \in Guests, NEW h \in Contacts, SetContact(g, h)
      PROVE  ReportsTypeOK'
  BY <1>2 DEF ReportsTypeOK, SetContact, Written
<1>3. ASSUME NEW g \in Guests, LogScan(g)
      PROVE  ReportsTypeOK'
  BY <1>3 DEF ReportsTypeOK, LogScan, Written, Turned, GuestStatuses
<1>4. ASSUME NEW g \in Guests, SetDeleted(g)
      PROVE  ReportsTypeOK'
  BY <1>4 DEF ReportsTypeOK, SetDeleted, Written, Moved
<1>5. ASSUME NEW e \in SUBSET Guests, AddInsight(e) \/ DropInsight(e)
      PROVE  ReportsTypeOK'
  BY <1>5 DEF ReportsTypeOK, AddInsight, DropInsight
<1> QED
  BY <1>1, <1>2, <1>3, <1>4, <1>5 DEF WritesOnly

\* A status is counted, and what comes next is known.
LEMMA CountsTyped ==
  ASSUME NEW r \in Counting, NEW n \in Nat, NEW pc \in {"sheet"} \union DOMAIN After
  PROVE  [r EXCEPT !.pc = pc, !.listed = @ + n] \in Counting
<1>1. [r EXCEPT !.pc = pc] \in Counting
  BY DEF Counting
<1>2. r.listed + n \in Nat
  BY DEF Counting
<1>3. [[r EXCEPT !.pc = pc] EXCEPT !.listed = r.listed + n] \in Counting
  BY <1>1, <1>2 DEF Counting
<1> QED
  BY <1>3 DEF Counting

\* What a worker learns is of a kind it may hold.
LEMMA LearnsTyped ==
  ASSUME ReportsTypeOK, NEW a \in Analysts, Report(a) \/ Search(a) \/ Close(a)
  PROVE  study' \in [Analysts -> Studies]
<1>1. CASE CountAll(a)
  <2>1. [pc |-> "checked", total |-> Cardinality(Alive), checked |-> 0, gone |-> 0,
         listed |-> 0, sheet |-> 0] \in Studies
    BY GuestsCount DEF Studies, Counting, Alive, Rowed
  <2> QED
    BY <1>1, <2>1, LearnsType DEF CountAll
<1>2. CASE CountChecked(a)
  <2>1. study[a] \in Counting
    BY <1>2, StudyShape DEF CountChecked
  <2>2. Cardinality(CheckedIn) \in Nat /\ Cardinality(CheckedIn \intersect deleted) \in Nat
    BY GuestsCount DEF CheckedIn
  <2> DEFINE r == [study[a] EXCEPT !.pc = "approved", !.checked = Cardinality(CheckedIn),
                                   !.gone = Cardinality(CheckedIn \intersect deleted)]
  <2>3. r \in Studies
    BY <2>1, <2>2, AfterIs DEF Studies, Counting
  <2>4. Learns(a, r)
    BY <1>2 DEF CountChecked
  <2> QED
    BY <2>3, <2>4, LearnsType
<1>3. CASE CountStatus(a)
  <2>1. study[a] \in Counting
    BY <1>3, StudyShape DEF CountStatus
  <2>2. Cardinality({g \in Alive : status[g] = study[a].pc}) \in Nat
    BY GuestsCount DEF Alive, Rowed
  <2> DEFINE r == [study[a] EXCEPT !.pc = After[study[a].pc],
                     !.listed = @ + Cardinality({g \in Alive : status[g] = study[a].pc})]
  <2>3. After[study[a].pc] \in {"sheet"} \union DOMAIN After
    BY <1>3, AfterIs DEF CountStatus, After
  <2>4. r \in Studies
    BY <2>1, <2>2, <2>3, CountsTyped DEF Studies
  <2>5. Learns(a, r)
    BY <1>3 DEF CountStatus
  <2> QED
    BY <2>4, <2>5, LearnsType
<1>4. CASE CountSheet(a)
  <2>1. study[a] \in Counting
    BY <1>4, StudyShape DEF CountSheet
  <2>2. Cardinality(Alive) \in Nat
    BY GuestsCount DEF Alive, Rowed
  <2> DEFINE r == [study[a] EXCEPT !.pc = "shown", !.sheet = Cardinality(Alive)]
  <2>3. r \in Studies
    BY <2>1, <2>2 DEF Studies, Counting
  <2>4. Learns(a, r)
    BY <1>4 DEF CountSheet
  <2> QED
    BY <2>3, <2>4, LearnsType
<1>5. CASE FindGroups(a)
  <2>1. [pc |-> "groups", todo |-> {h \in Contacts : Cardinality(Twins(h)) > 1}] \in Studies
    BY DEF Studies, Searching
  <2> QED
    BY <1>5, <2>1, LearnsType DEF FindGroups
<1>6. CASE ListCodes(a)
  <2>1. study[a] \in Searching
    BY <1>6, StudyShape DEF ListCodes
  <2>2. PICK h \in study[a].todo :
          Learns(a, [pc |-> "find", todo |-> study[a].todo \ {h},
                     evidence |-> {g \in Rowed : contact[g] = h}])
    BY <1>6 DEF ListCodes
  <2>3. [pc |-> "find", todo |-> study[a].todo \ {h},
         evidence |-> {g \in Rowed : contact[g] = h}] \in Studies
    BY <2>1 DEF Studies, Searching, Naming, Rowed
  <2> QED
    BY <2>2, <2>3, LearnsType
<1>7. ASSUME study[a] \in Naming, NEW pc, Learns(a, Proceed(a, pc))
      PROVE  study' \in [Analysts -> Studies]
  <2>1. [study[a] EXCEPT !.pc = "create"] \in Studies
    BY <1>7 DEF Studies, Naming
  <2>2. [pc |-> "groups", todo |-> study[a].todo] \in Studies
    BY <1>7 DEF Studies, Searching, Naming
  <2>3. Proceed(a, pc) \in Studies
    BY <2>1, <2>2 DEF Proceed, Studies
  <2> QED
    BY <1>7, <2>3, LearnsType
<1>8. CASE FindInsight(a)
  BY <1>7, <1>8, StudyShape DEF FindInsight
<1>9. CASE CreateInsight(a)
  BY <1>7, <1>9, StudyShape DEF CreateInsight
<1>10. CASE Close(a)
  BY <1>10, LearnsType DEF Close, Studies
<1> QED
  BY <1>1, <1>2, <1>3, <1>4, <1>5, <1>6, <1>8, <1>9, <1>10 DEF Report, Search

LEMMA ReportsTypeStep == ReportsTypeOK /\ [ReportsNext]_reportVars => ReportsTypeOK'
<1> SUFFICES ASSUME ReportsTypeOK, [ReportsNext]_reportVars PROVE ReportsTypeOK'
  OBVIOUS
<1>1. ASSUME NEW a \in Analysts, Report(a) \/ Search(a) \/ Close(a)
      PROVE  ReportsTypeOK'
  <2>1. study' \in [Analysts -> {Unasked} \union Counting \union Searching \union Naming]
    BY <1>1, LearnsTyped DEF Studies
  <2>2. moves' \in [Analysts -> Nat] /\ turns' \in [Analysts -> Nat]
    BY <1>1 DEF ReportsTypeOK, Report, Search, CountAll, CountChecked, CountStatus, CountSheet,
                FindGroups, ListCodes, FindInsight, CreateInsight, Close
  <2>3. insights' \in [SUBSET Guests -> Nat]
    BY <1>1 DEF ReportsTypeOK, Report, Search, CountAll, CountChecked, CountStatus, CountSheet,
                FindGroups, ListCodes, FindInsight, CreateInsight, Close
  <2>4. UNCHANGED <<status, deleted, scans, contact, added, writes>>
    BY <1>1 DEF Report, Search, CountAll, CountChecked, CountStatus, CountSheet,
                FindGroups, ListCodes, FindInsight, CreateInsight, Close
  <2> QED
    BY <2>1, <2>2, <2>3, <2>4 DEF ReportsTypeOK
<1>2. CASE WritesOnly
  BY <1>2, WritesTyped
<1>3. CASE UNCHANGED reportVars
  BY <1>3 DEF ReportsTypeOK, reportVars
<1> QED
  BY <1>1, <1>2, <1>3, ReportsAssumption DEF ReportsNext, WritesOnly

\* Types of the rows and of what the workers hold, for every kind of report.
THEOREM ReportsTypeCorrect == ReportsSpec => []ReportsTypeOK
  BY ReportsInitTyped, ReportsTypeStep, PTL DEF ReportsSpec
-----------------------------------------------------------------------------
(***************************************************************************)
(* How many insights one group of duplicates can get.                      *)
(***************************************************************************)

\* Who is about to create an insight has looked it up.
LEMMA NotToCreate ==
  ASSUME ReportsTypeOK, NEW a \in Analysts, Report(a) \/ FindGroups(a) \/ ListCodes(a) \/ Close(a)
  PROVE  study'[a].pc # "create" /\ \A b \in Analysts : b # a => study'[b] = study[b]
<1>1. CASE CountAll(a)
  BY <1>1, LearnsOne DEF CountAll
<1>2. CASE CountChecked(a)
  <2>1. study[a] \in Counting
    BY <1>2, StudyShape DEF CountChecked
  <2>2. study'[a] = [study[a] EXCEPT !.pc = "approved", !.checked = Cardinality(CheckedIn),
                                     !.gone = Cardinality(CheckedIn \intersect deleted)]
    BY <1>2, LearnsOne DEF CountChecked
  <2>3. study'[a].pc = "approved"
    BY <2>1, <2>2 DEF Counting
  <2> QED
    BY <1>2, <2>3, LearnsOne DEF CountChecked
<1>3. CASE CountStatus(a)
  <2>1. study[a] \in Counting
    BY <1>3, StudyShape DEF CountStatus
  <2>2. study'[a] = [study[a] EXCEPT !.pc = After[study[a].pc],
                       !.listed = @ + Cardinality({g \in Alive : status[g] = study[a].pc})]
    BY <1>3, LearnsOne DEF CountStatus
  <2>3. study'[a].pc = After[study[a].pc]
    BY <2>1, <2>2 DEF Counting
  <2>4. After[study[a].pc] # "create"
    BY <1>3, AfterIs DEF CountStatus, After
  <2> QED
    BY <1>3, <2>3, <2>4, LearnsOne DEF CountStatus
<1>4. CASE CountSheet(a)
  <2>1. study[a] \in Counting
    BY <1>4, StudyShape DEF CountSheet
  <2>2. study'[a] = [study[a] EXCEPT !.pc = "shown", !.sheet = Cardinality(Alive)]
    BY <1>4, LearnsOne DEF CountSheet
  <2>3. study'[a].pc = "shown"
    BY <2>1, <2>2 DEF Counting
  <2> QED
    BY <1>4, <2>3, LearnsOne DEF CountSheet
<1>5. CASE FindGroups(a)
  BY <1>5, LearnsOne DEF FindGroups
<1>6. CASE ListCodes(a)
  <2>1. PICK h \in study[a].todo :
          Learns(a, [pc |-> "find", todo |-> study[a].todo \ {h},
                     evidence |-> {g \in Rowed : contact[g] = h}])
    BY <1>6 DEF ListCodes
  <2> QED
    BY <2>1, LearnsOne
<1>7. CASE Close(a)
  BY <1>7, LearnsOne DEF Close, Unasked
<1> QED
  BY <1>1, <1>2, <1>3, <1>4, <1>5, <1>6, <1>7 DEF Report

LEMMA InsightsStep ==
  ReportsTypeOK /\ InsightsAndCreators /\ [ReportsNext]_reportVars => InsightsAndCreators'
<1> SUFFICES ASSUME ReportsTypeOK, InsightsAndCreators, [ReportsNext]_reportVars,
                    NEW e \in SUBSET Guests
             PROVE  insights'[e] + Cardinality(Creators(e)') <= Cardinality(Analysts) + added'
  BY DEF InsightsAndCreators
<1> DEFINE Fits == insights'[e] + Cardinality(Creators(e)') <= Cardinality(Analysts) + added'
<1>1. /\ Creators(e) \subseteq Analysts /\ Creators(e)' \subseteq Analysts
      /\ IsFiniteSet(Analysts) /\ Cardinality(Analysts) \in Nat
      /\ added \in Nat /\ insights[e] \in Nat
      /\ insights[e] + Cardinality(Creators(e)) <= Cardinality(Analysts) + added
  BY ReportsAssumption, Sizes DEF Creators, InsightsAndCreators, ReportsTypeOK
<1>2. ASSUME Creators(e)' \subseteq Creators(e), insights'[e] \in Nat, added' \in Nat,
             insights'[e] + added <= insights[e] + added'
      PROVE  Fits
  <2>1. /\ Cardinality(Creators(e)) \in Nat /\ Cardinality(Creators(e)') \in Nat
        /\ Cardinality(Creators(e)') <= Cardinality(Creators(e))
    BY <1>1, <1>2, NoneMore
  <2> QED
    BY <1>1, <1>2, <2>1
<1>3. ASSUME NEW a \in Analysts, NEW r, Learns(a, r), r.pc # "create"
      PROVE  Creators(e)' \subseteq Creators(e) \ {a}
  BY <1>3, LearnsOne DEF Creators
<1>4. ASSUME NEW a \in Analysts, FindInsight(a)
      PROVE  Fits
  <2>1. study[a] \in Naming /\ insights' = insights /\ added' = added
    BY <1>4, StudyShape DEF FindInsight
  <2>2. CASE Lookup(a) = "create"
    <3>1. insights[study[a].evidence] = 0
      BY <2>2 DEF Lookup
    <3>2. Learns(a, [study[a] EXCEPT !.pc = "create"])
      BY <1>4, <2>2 DEF FindInsight, Proceed
    <3>3. CASE study[a].evidence = e
      <4>1. Cardinality(Creators(e)') \in Nat /\ Cardinality(Creators(e)') <= Cardinality(Analysts)
        BY <1>1, NoneMore
      <4> QED
        BY <1>1, <2>1, <3>1, <3>3, <4>1
    <3>4. CASE study[a].evidence # e
      <4>1. [study[a] EXCEPT !.pc = "create"].evidence # e
        BY <2>1, <3>4 DEF Naming
      <4>2. Creators(e)' \subseteq Creators(e)
        BY <3>2, <4>1, LearnsOne DEF Creators
      <4> QED
        BY <1>1, <1>2, <2>1, <4>2
    <3> QED
      BY <3>3, <3>4
  <2>3. CASE Lookup(a) # "create"
    <3>1. \E r : Learns(a, r) /\ r.pc # "create"
      BY <1>4, <2>3 DEF FindInsight, Proceed, Unasked
    <3> QED
      BY <1>1, <1>2, <1>3, <2>1, <3>1
  <2> QED
    BY <2>2, <2>3
<1>5. ASSUME NEW a \in Analysts, CreateInsight(a)
      PROVE  Fits
  <2>1. study[a] \in Naming /\ added' = added
    BY <1>5, StudyShape DEF CreateInsight
  <2>2. Creators(e)' \subseteq Creators(e) \ {a}
    BY <1>3, <1>5 DEF CreateInsight, Proceed
  <2>3. CASE study[a].evidence = e
    <3>1. a \in Creators(e)
      BY <1>5, <2>3 DEF CreateInsight, Creators
    <3>2. insights'[e] = insights[e] + 1
      BY <1>5, <2>3 DEF CreateInsight, ReportsTypeOK
    <3>3. /\ Cardinality(Creators(e)) \in Nat /\ Cardinality(Creators(e)') \in Nat
          /\ Cardinality(Creators(e)') + 1 <= Cardinality(Creators(e))
      BY <1>1, <2>2, <3>1, OneLess
    <3> QED
      BY <1>1, <2>1, <3>2, <3>3
  <2>4. CASE study[a].evidence # e
    <3>1. insights'[e] = insights[e]
      BY <1>5, <2>4 DEF CreateInsight, ReportsTypeOK
    <3> QED
      BY <1>1, <1>2, <2>1, <2>2, <3>1
  <2> QED
    BY <2>3, <2>4
<1>6. ASSUME NEW a \in Analysts, \/ Report(a) \/ FindGroups(a) \/ ListCodes(a) \/ Close(a)
      PROVE  Fits
  <2>1. UNCHANGED <<insights, added>>
    BY <1>6 DEF Report, CountAll, CountChecked, CountStatus, CountSheet, FindGroups, ListCodes, Close
  <2>2. study'[a].pc # "create" /\ \A b \in Analysts : b # a => study'[b] = study[b]
    BY <1>6, NotToCreate
  <2>3. Creators(e)' \subseteq Creators(e)
    BY <2>2 DEF Creators
  <2> QED
    BY <1>1, <1>2, <2>1, <2>3
<1>7. CASE WritesOnly
  <2>1. Creators(e)' \subseteq Creators(e)
    BY <1>7 DEF WritesOnly, Creators, SignUp, SetStatus, SetContact, LogScan, SetDeleted,
                AddInsight, DropInsight
  <2>2. insights'[e] \in Nat /\ added' \in Nat
    BY <1>7, WritesTyped DEF ReportsTypeOK
  <2>3. insights'[e] + added <= insights[e] + added'
    BY <1>1, <1>7, <2>2 DEF WritesOnly, SignUp, SetStatus, SetContact, LogScan, SetDeleted,
                AddInsight, DropInsight, ReportsTypeOK
  <2> QED
    BY <1>2, <2>1, <2>2, <2>3
<1>8. CASE UNCHANGED reportVars
  <2>1. Creators(e)' \subseteq Creators(e) /\ UNCHANGED <<insights, added>>
    BY <1>8 DEF Creators, reportVars
  <2> QED
    BY <1>1, <1>2, <2>1
<1> QED
  BY <1>4, <1>5, <1>6, <1>7, <1>8, ReportsAssumption DEF ReportsNext, WritesOnly, Search

\* Of AIInsight.objects.get_or_create, without a unique constraint: however requests race,
\* a group of duplicates gets as many insights as there are worker processes, and those that
\* REST writes added.
THEOREM InsightsAlwaysBounded == ReportsSpec => []InsightsAreBounded
<1>1. ReportsInit => InsightsAndCreators
  <2> SUFFICES ASSUME ReportsInit, NEW e \in SUBSET Guests
               PROVE  insights[e] + Cardinality(Creators(e)) <= Cardinality(Analysts) + added
    BY DEF InsightsAndCreators
  <2>1. Creators(e) = {}
    BY DEF ReportsInit, Creators, Unasked
  <2>2. Cardinality(Creators(e)) = 0 /\ Cardinality(Analysts) \in Nat
    BY <2>1, FS_EmptySet, ReportsAssumption, Sizes
  <2> QED
    BY <2>2 DEF ReportsInit
<1>2. ReportsTypeOK /\ InsightsAndCreators => InsightsAreBounded
  <2> SUFFICES ASSUME ReportsTypeOK, InsightsAndCreators, NEW e \in SUBSET Guests
               PROVE  insights[e] <= Cardinality(Analysts) + added
    BY DEF InsightsAreBounded
  <2>1. Cardinality(Creators(e)) \in Nat
    BY NoneMore, ReportsAssumption DEF Creators
  <2>2. Cardinality(Analysts) \in Nat /\ insights[e] \in Nat /\ added \in Nat
    BY ReportsAssumption, Sizes DEF ReportsTypeOK
  <2> QED
    BY <2>1, <2>2 DEF InsightsAndCreators
<1> QED
  BY <1>1, <1>2, InsightsStep, ReportsTypeCorrect, PTL DEF ReportsSpec
-----------------------------------------------------------------------------
(***************************************************************************)
(* How far the numbers of one report can differ.                           *)
(***************************************************************************)

LEMMA GuestsFinite == \A G \in SUBSET Guests : IsFiniteSet(G) /\ Cardinality(G) \in Nat
  BY ReportsAssumption, FS_Subset, FS_CardinalityType

\* What a write of participants and logs does to those who are counted.
LEMMA WhatWritesDo ==
  ASSUME ReportsTypeOK, CheckedIn \subseteq Rowed, WritesOnly, NEW pc
  PROVE  /\ study' = study
         /\ CheckedIn' \subseteq Rowed'
         /\ \/ /\ Moved /\ turns' = turns
               /\ \E g \in Guests : /\ Alive' \subseteq Alive \union {g}
                                    /\ Alive \subseteq Alive' \union {g}
                                    /\ Uncounted(pc)' \subseteq Uncounted(pc) \union {g}
            \/ /\ Turned /\ moves' = moves /\ Alive' = Alive
               /\ \E g \in Guests : Uncounted(pc)' \subseteq Uncounted(pc) \union {g}
            \/ UNCHANGED <<moves, turns, Alive, Uncounted(pc)>>
<1>1. study' = study
  BY DEF WritesOnly, SignUp, SetStatus, SetContact, LogScan, SetDeleted, AddInsight, DropInsight
<1>2. ASSUME NEW g \in Guests, NEW s \in GuestStatuses, SignUp(g, s)
      PROVE  /\ CheckedIn' \subseteq Rowed'
             /\ Moved /\ turns' = turns
             /\ Alive' \subseteq Alive \union {g}
             /\ Alive \subseteq Alive'
             /\ Uncounted(pc)' \subseteq Uncounted(pc) \union {g}
  BY <1>2 DEF ReportsTypeOK, SignUp, CheckedIn, Rowed, Alive, Uncounted, GuestStatuses
<1>3. ASSUME NEW g \in Guests, NEW s \in GuestStatuses, SetStatus(g, s)
      PROVE  /\ CheckedIn' \subseteq Rowed'
             /\ Turned /\ moves' = moves /\ Alive' = Alive
             /\ Uncounted(pc)' \subseteq Uncounted(pc) \union {g}
  BY <1>3 DEF ReportsTypeOK, SetStatus, CheckedIn, Rowed, Alive, Uncounted, GuestStatuses
<1>4. ASSUME NEW g \in Guests, LogScan(g)
      PROVE  /\ CheckedIn' \subseteq Rowed'
             /\ Turned /\ moves' = moves /\ Alive' = Alive
             /\ Uncounted(pc)' \subseteq Uncounted(pc) \union {g}
  BY <1>4 DEF ReportsTypeOK, LogScan, CheckedIn, Rowed, Alive, Uncounted
<1>5. ASSUME NEW g \in Guests, SetDeleted(g)
      PROVE  /\ CheckedIn' \subseteq Rowed'
             /\ Moved /\ turns' = turns
             /\ Alive' \subseteq Alive \union {g}
             /\ Alive \subseteq Alive' \union {g}
             /\ Uncounted(pc)' \subseteq Uncounted(pc) \union {g}
  BY <1>5 DEF ReportsTypeOK, SetDeleted, CheckedIn, Rowed, Alive, Uncounted
<1>6. ASSUME UNCHANGED <<status, deleted, scans, moves, turns>>
      PROVE  CheckedIn' \subseteq Rowed' /\ UNCHANGED <<moves, turns, Alive, Uncounted(pc)>>
  BY <1>6 DEF CheckedIn, Rowed, Alive, Uncounted
<1>7. ASSUME \/ \E g \in Guests, h \in Contacts : SetContact(g, h)
             \/ \E e \in SUBSET Guests : AddInsight(e) \/ DropInsight(e)
      PROVE  UNCHANGED <<status, deleted, scans, moves, turns>>
  BY <1>7 DEF SetContact, AddInsight, DropInsight
<1> QED
  BY <1>1, <1>2, <1>3, <1>4, <1>5, <1>6, <1>7 DEF WritesOnly

\* The sets that are counted, and the numbers that keep them.
LEMMA ProgressTyped ==
  ASSUME ReportsTypeOK, NEW a \in Analysts
  PROVE  /\ Alive \subseteq Guests /\ CheckedIn \subseteq Guests
         /\ \A pc : Uncounted(pc) \subseteq Alive
         /\ IsCounting(a) => study[a] \in Counting
         /\ moves[a] \in Nat /\ turns[a] \in Nat
  BY StudyShape DEF ReportsTypeOK, Alive, Rowed, CheckedIn, Uncounted, IsCounting

LEMMA WritesKeepProgress ==
  ASSUME ReportsTypeOK, ReportsTypeOK', ReportsProgress, WritesOnly
  PROVE  ReportsProgress'
<1>1. study' = study /\ CheckedIn' \subseteq Rowed'
  BY WhatWritesDo DEF ReportsProgress
<1>2. ASSUME NEW a \in Analysts, IsCounting(a)
      PROVE  Progress(a)'
  <2>1. PICK r \in Counting : r = study[a]
    BY <1>2, ProgressTyped
  <2> DEFINE U == Uncounted(r.pc)
  <2>2. /\ r.total \in Nat /\ r.listed \in Nat /\ r.gone \in Nat /\ r.checked \in Nat
        /\ moves[a] \in Nat /\ turns[a] \in Nat
        /\ U \subseteq Guests /\ Alive \subseteq Guests
        /\ U' \subseteq Guests /\ Alive' \subseteq Guests
    BY ProgressTyped DEF Counting, ReportsTypeOK, Alive, Rowed, Uncounted
  <2>3. /\ Cardinality(U) \in Nat /\ Cardinality(Alive) \in Nat
        /\ Cardinality(U') \in Nat /\ Cardinality(Alive') \in Nat
    BY <2>2, GuestsFinite
  <2>4. /\ r.total <= Cardinality(Alive) + moves[a]
        /\ Cardinality(Alive) <= r.total + moves[a]
        /\ r.listed + Cardinality(U) <= r.total + moves[a] + turns[a]
        /\ r.pc # "checked" => r.checked <= r.total + r.gone + moves[a]
    BY <1>2, <2>1 DEF ReportsProgress, Progress
  <2> HIDE DEF U
  <2> DEFINE Goal == /\ r.total <= Cardinality(Alive') + moves'[a]
                     /\ Cardinality(Alive') <= r.total + moves'[a]
                     /\ r.listed + Cardinality(U') <= r.total + moves'[a] + turns'[a]
                     /\ r.pc # "checked" => r.checked <= r.total + r.gone + moves'[a]
  <2>5. ASSUME Moved, turns' = turns, NEW g \in Guests, Alive' \subseteq Alive \union {g},
               Alive \subseteq Alive' \union {g}, U' \subseteq U \union {g}
        PROVE  Goal
    <3>1. moves'[a] = moves[a] + 1 /\ turns'[a] = turns[a]
      BY <1>2, <2>5 DEF Moved
    <3>2. /\ Cardinality(Alive') <= Cardinality(Alive) + 1
          /\ Cardinality(Alive) <= Cardinality(Alive') + 1
          /\ Cardinality(U') <= Cardinality(U) + 1
      BY <2>2, <2>5, OneMore, ReportsAssumption
    <3> QED
      BY <2>2, <2>3, <2>4, <3>1, <3>2
  <2>6. ASSUME Turned, moves' = moves, Alive' = Alive, NEW g \in Guests, U' \subseteq U \union {g}
        PROVE  Goal
    <3>1. moves'[a] = moves[a] /\ turns'[a] = turns[a] + 1
      BY <1>2, <2>6 DEF Turned
    <3>2. Cardinality(U') <= Cardinality(U) + 1
      BY <2>2, <2>6, OneMore, ReportsAssumption
    <3>3. Cardinality(Alive') = Cardinality(Alive)
      BY <2>6
    <3> QED
      BY <2>2, <2>3, <2>4, <3>1, <3>2, <3>3
  <2>7. ASSUME UNCHANGED <<moves, turns, Alive, U>>
        PROVE  Goal
    BY <2>4, <2>7
  <2>8. Goal
    BY <2>5, <2>6, <2>7, WhatWritesDo DEF ReportsProgress, U
  <2> QED
    BY <1>1, <2>1, <2>8 DEF Progress, U
<1>3. \A a \in Analysts : study[a].pc = "shown" => moves'[a] = moves[a] /\ turns'[a] = turns[a]
  BY WhatWritesDo, AfterIs DEF ReportsProgress, Moved, Turned, IsCounting, ReportsTypeOK
<1>4. SnapshotsAddUp'
  BY <1>1, <1>3 DEF ReportsProgress, SnapshotsAddUp
<1> QED
  BY <1>1, <1>2, <1>4 DEF ReportsProgress, IsCounting

\* A worker that reports, searches or stops: its own numbers are all that can change.
LEMMA OthersKeepProgress ==
  ASSUME ReportsTypeOK, ReportsProgress, NEW a \in Analysts,
         \A b \in Analysts : b # a => /\ study'[b] = study[b]
                                      /\ moves'[b] = moves[b] /\ turns'[b] = turns[b],
         UNCHANGED <<status, deleted, scans>>,
         IsCounting(a)' => Progress(a)',
         study'[a].pc = "shown" =>
           LET r == study'[a]
           IN /\ r.checked <= r.total + r.gone + moves'[a]
              /\ r.listed <= r.total + moves'[a] + turns'[a]
              /\ r.sheet <= r.total + moves'[a]
              /\ r.total <= r.sheet + moves'[a]
  PROVE  ReportsProgress'
<1>1. Alive' = Alive /\ CheckedIn' = CheckedIn /\ Rowed' = Rowed
  BY DEF Alive, CheckedIn, Rowed
<1>2. \A pc : Uncounted(pc)' = Uncounted(pc)
  BY <1>1 DEF Uncounted
<1>3. \A b \in Analysts : IsCounting(b)' => Progress(b)'
  BY <1>1, <1>2 DEF ReportsProgress, Progress, IsCounting
<1>4. SnapshotsAddUp'
  BY DEF ReportsProgress, SnapshotsAddUp
<1> QED
  BY <1>1, <1>3, <1>4 DEF ReportsProgress

LEMMA ReportKeepsProgress ==
  ASSUME ReportsTypeOK, ReportsProgress, NEW a \in Analysts, Report(a)
  PROVE  ReportsProgress'
<1>1. /\ UNCHANGED <<status, deleted, scans>>
      /\ \A b \in Analysts : b # a => /\ study'[b] = study[b]
                                      /\ moves'[b] = moves[b] /\ turns'[b] = turns[b]
  BY LearnsOne DEF Report, CountAll, CountChecked, CountStatus, CountSheet, ReportsTypeOK
<1>2. /\ Alive' = Alive /\ \A pc : Uncounted(pc)' = Uncounted(pc)
  BY <1>1 DEF Alive, Rowed, Uncounted
<1>3. Cardinality(Alive) \in Nat /\ moves[a] \in Nat /\ turns[a] \in Nat
  BY ProgressTyped, GuestsFinite
<1>4. CASE CountAll(a)
  <2>1. study'[a] = [pc |-> "checked", total |-> Cardinality(Alive), checked |-> 0, gone |-> 0,
                     listed |-> 0, sheet |-> 0]
    BY <1>4, LearnsOne DEF CountAll
  <2>2. moves'[a] = 0 /\ turns'[a] = 0
    BY <1>4 DEF CountAll, ReportsTypeOK
  <2>3. Uncounted("checked") = Alive
    BY DEF Uncounted, Before
  <2>4. Progress(a)'
    BY <1>2, <1>3, <2>1, <2>2, <2>3 DEF Progress
  <2> QED
    BY <1>1, <2>1, <2>4, OthersKeepProgress
<1>5. ASSUME study[a] \in Counting, IsCounting(a)
      PROVE  /\ study[a].total \in Nat /\ study[a].listed \in Nat /\ study[a].gone \in Nat
             /\ study[a].checked \in Nat
             /\ Uncounted(study[a].pc) \subseteq Guests
             /\ Progress(a)
  BY <1>5, ProgressTyped DEF Counting, ReportsProgress
<1>6. CASE CountChecked(a)
  <2>1. study[a] \in Counting /\ IsCounting(a) /\ study[a].pc = "checked"
    BY <1>6, StudyShape DEF CountChecked, IsCounting
  <2> DEFINE gone == CheckedIn \intersect deleted
  <2>2. study'[a] = [study[a] EXCEPT !.pc = "approved", !.checked = Cardinality(CheckedIn),
                                     !.gone = Cardinality(gone)]
    BY <1>6, LearnsOne DEF CountChecked
  <2>3. /\ study'[a].pc = "approved" /\ study'[a].total = study[a].total
        /\ study'[a].listed = study[a].listed /\ study'[a].checked = Cardinality(CheckedIn)
        /\ study'[a].gone = Cardinality(gone)
    BY <2>1, <2>2 DEF Counting
  <2>4. moves' = moves /\ turns' = turns
    BY <1>6 DEF CountChecked
  <2>5. Uncounted("approved") = Uncounted("checked")
    BY DEF Uncounted, Before
  <2>6. Cardinality(CheckedIn) <= Cardinality(Alive) + Cardinality(gone)
    <3>1. IsFiniteSet(Alive) /\ IsFiniteSet(gone) /\ CheckedIn \subseteq Alive \union gone
      BY ProgressTyped, GuestsFinite DEF ReportsProgress, Alive
    <3>2. /\ IsFiniteSet(Alive \union gone)
          /\ Cardinality(Alive \union gone) =
               Cardinality(Alive) + Cardinality(gone) - Cardinality(Alive \intersect gone)
      BY <3>1, FS_Union
    <3>3. Cardinality(CheckedIn) <= Cardinality(Alive \union gone)
      BY <3>1, <3>2, FS_Subset
    <3>4. /\ Cardinality(gone) \in Nat /\ Cardinality(Alive \intersect gone) \in Nat
          /\ Cardinality(Alive \union gone) \in Nat /\ Cardinality(CheckedIn) \in Nat
      BY ProgressTyped, GuestsFinite
    <3> QED
      BY <1>3, <3>2, <3>3, <3>4
  <2>7. Cardinality(CheckedIn) \in Nat /\ Cardinality(gone) \in Nat
    BY ProgressTyped, GuestsFinite
  <2>8. /\ study[a].total <= Cardinality(Alive) + moves[a]
        /\ Cardinality(Alive) <= study[a].total + moves[a]
        /\ study[a].listed + Cardinality(Uncounted("checked")) <= study[a].total + moves[a] + turns[a]
    BY <1>5, <2>1 DEF Progress
  <2>9. Cardinality(CheckedIn) <= study[a].total + Cardinality(gone) + moves[a]
    BY <1>3, <1>5, <2>1, <2>6, <2>7, <2>8
  <2>10. Progress(a)'
    BY <1>2, <2>3, <2>4, <2>5, <2>8, <2>9 DEF Progress
  <2> QED
    BY <1>1, <2>3, <2>10, OthersKeepProgress
<1>7. CASE CountStatus(a)
  <2>1. study[a] \in Counting /\ IsCounting(a) /\ study[a].pc \in DOMAIN After
    BY <1>7, StudyShape DEF CountStatus, IsCounting
  <2> DEFINE pc  == study[a].pc
             now == {g \in Alive : status[g] = pc}
  <2>2. study'[a] = [study[a] EXCEPT !.pc = After[pc], !.listed = @ + Cardinality(now)]
    BY <1>7, LearnsOne DEF CountStatus
  <2>3. /\ study'[a].pc = After[pc] /\ study'[a].total = study[a].total
        /\ study'[a].listed = study[a].listed + Cardinality(now)
        /\ study'[a].checked = study[a].checked /\ study'[a].gone = study[a].gone
    BY <2>1, <2>2 DEF Counting
  <2>4. moves' = moves /\ turns' = turns
    BY <1>7 DEF CountStatus
  <2>5. Cardinality(now) + Cardinality(Uncounted(After[pc])) = Cardinality(Uncounted(pc))
    <3>1. pc \in {"approved", "rejected", "waitlisted"}
      BY <2>1, AfterIs
    <3>2. Before[After[pc]] = Before[pc] \union {pc} /\ pc \notin Before[pc]
      BY <3>1 DEF Before, After
    <3>3. /\ now \union Uncounted(After[pc]) = Uncounted(pc)
          /\ now \intersect Uncounted(After[pc]) = {}
      BY <3>2 DEF Uncounted
    <3>4. now \subseteq Guests /\ Uncounted(After[pc]) \subseteq Guests
      BY ProgressTyped
    <3>5. /\ IsFiniteSet(now) /\ IsFiniteSet(Uncounted(After[pc]))
          /\ Cardinality(now) \in Nat /\ Cardinality(Uncounted(After[pc])) \in Nat
      BY <3>4, GuestsFinite
    <3>6. Cardinality(Uncounted(pc)) = Cardinality(now) + Cardinality(Uncounted(After[pc]))
                                       - Cardinality(now \intersect Uncounted(After[pc]))
      BY <3>3, <3>5, FS_Union
    <3>7. Cardinality(now \intersect Uncounted(After[pc])) = 0
      BY <3>3, FS_EmptySet
    <3> QED
      BY <3>5, <3>6, <3>7
  <2>6. /\ Cardinality(now) \in Nat /\ Cardinality(Uncounted(After[pc])) \in Nat
        /\ Cardinality(Uncounted(pc)) \in Nat
    BY ProgressTyped, GuestsFinite
  <2>7. /\ study[a].total <= Cardinality(Alive) + moves[a]
        /\ Cardinality(Alive) <= study[a].total + moves[a]
        /\ study[a].listed + Cardinality(Uncounted(pc)) <= study[a].total + moves[a] + turns[a]
        /\ study[a].checked <= study[a].total + study[a].gone + moves[a]
    BY <1>5, <2>1, AfterIs DEF Progress
  <2>8. (study[a].listed + Cardinality(now)) + Cardinality(Uncounted(After[pc]))
          <= study[a].total + moves[a] + turns[a]
    BY <1>3, <1>5, <2>1, <2>5, <2>6, <2>7
  <2>9. After[pc] \in {"rejected", "waitlisted", "sheet"}
    BY <2>1, AfterIs DEF After
  <2>10. Progress(a)'
    BY <1>2, <2>3, <2>4, <2>7, <2>8 DEF Progress
  <2> QED
    BY <1>1, <2>3, <2>9, <2>10, OthersKeepProgress
<1>8. CASE CountSheet(a)
  <2>1. study[a] \in Counting /\ IsCounting(a) /\ study[a].pc = "sheet"
    BY <1>8, StudyShape DEF CountSheet, IsCounting
  <2>2. study'[a] = [study[a] EXCEPT !.pc = "shown", !.sheet = Cardinality(Alive)]
    BY <1>8, LearnsOne DEF CountSheet
  <2>3. /\ study'[a].pc = "shown" /\ study'[a].total = study[a].total
        /\ study'[a].listed = study[a].listed /\ study'[a].checked = study[a].checked
        /\ study'[a].gone = study[a].gone /\ study'[a].sheet = Cardinality(Alive)
    BY <2>1, <2>2 DEF Counting
  <2>4. moves' = moves /\ turns' = turns
    BY <1>8 DEF CountSheet
  <2>5. /\ study[a].total <= Cardinality(Alive) + moves[a]
        /\ Cardinality(Alive) <= study[a].total + moves[a]
        /\ study[a].listed + Cardinality(Uncounted("sheet")) <= study[a].total + moves[a] + turns[a]
        /\ study[a].checked <= study[a].total + study[a].gone + moves[a]
    BY <1>5, <2>1 DEF Progress
  <2>6. Cardinality(Uncounted("sheet")) \in Nat
    BY ProgressTyped, GuestsFinite
  <2>7. study[a].listed <= study[a].total + moves[a] + turns[a]
    BY <1>3, <1>5, <2>1, <2>5, <2>6
  <2>8. ~IsCounting(a)'
    BY <2>3, AfterIs DEF IsCounting
  <2> QED
    BY <1>1, <2>3, <2>4, <2>5, <2>7, <2>8, OthersKeepProgress
<1> QED
  BY <1>4, <1>6, <1>7, <1>8 DEF Report

\* What a search, or the end of a request, leaves a worker with.
LEMMA SearchLearns ==
  ASSUME ReportsTypeOK, NEW a \in Analysts, Search(a) \/ Close(a)
  PROVE  /\ study'[a].pc \in {"groups", "find", "create", "idle"}
         /\ \A b \in Analysts : b # a => study'[b] = study[b]
<1>1. CASE FindGroups(a)
  BY <1>1, LearnsOne DEF FindGroups
<1>2. CASE ListCodes(a)
  <2>1. PICK h \in study[a].todo :
          Learns(a, [pc |-> "find", todo |-> study[a].todo \ {h},
                     evidence |-> {g \in Rowed : contact[g] = h}])
    BY <1>2 DEF ListCodes
  <2> QED
    BY <2>1, LearnsOne
<1>3. ASSUME study[a] \in Naming, NEW pc, Learns(a, Proceed(a, pc))
      PROVE  /\ study'[a].pc \in {"groups", "find", "create", "idle"}
             /\ \A b \in Analysts : b # a => study'[b] = study[b]
  <2>1. [study[a] EXCEPT !.pc = "create"].pc = "create"
    BY <1>3 DEF Naming
  <2>2. Proceed(a, pc).pc \in {"groups", "create", "idle"}
    BY <2>1 DEF Proceed, Unasked
  <2> QED
    BY <1>3, <2>2, LearnsOne
<1>4. CASE FindInsight(a) \/ CreateInsight(a)
  BY <1>3, <1>4, StudyShape DEF FindInsight, CreateInsight
<1>5. CASE Close(a)
  BY <1>5, LearnsOne DEF Close, Unasked
<1> QED
  BY <1>1, <1>2, <1>4, <1>5 DEF Search

\* Of dashboard_stats and final_report_data, queries one after the other while everybody
\* goes on: the numbers of a report differ by what was written meanwhile at most.
THEOREM SnapshotsAlwaysAddUp == ReportsSpec => []SnapshotsAddUp
<1>1. ReportsInit => ReportsProgress
  <2> SUFFICES ASSUME ReportsInit PROVE ReportsProgress
    OBVIOUS
  <2>1. CheckedIn = {} /\ \A a \in Analysts : study[a].pc = "idle"
    BY DEF ReportsInit, CheckedIn, Unasked
  <2> QED
    BY <2>1, AfterIs DEF ReportsProgress, SnapshotsAddUp, IsCounting
<1>2. ASSUME ReportsTypeOK, ReportsTypeOK', ReportsProgress, [ReportsNext]_reportVars
      PROVE  ReportsProgress'
  <2>1. ASSUME NEW a \in Analysts, Search(a) \/ Close(a)
        PROVE  ReportsProgress'
    <3>1. UNCHANGED <<status, deleted, scans, moves, turns>>
      BY <2>1 DEF Search, FindGroups, ListCodes, FindInsight, CreateInsight, Close
    <3>2. /\ study'[a].pc \in {"groups", "find", "create", "idle"}
          /\ \A b \in Analysts : b # a => study'[b] = study[b]
      BY <1>2, <2>1, SearchLearns
    <3>3. ~IsCounting(a)'
      BY <3>2, AfterIs DEF IsCounting
    <3> QED
      BY <1>2, <3>1, <3>2, <3>3, OthersKeepProgress
  <2>2. CASE UNCHANGED reportVars
    BY <1>2, <2>2 DEF reportVars, ReportsProgress, SnapshotsAddUp, Progress, IsCounting, CheckedIn,
                      Rowed, Alive, Uncounted
  <2> QED
    BY <1>2, <2>1, <2>2, WritesKeepProgress, ReportKeepsProgress, ReportsAssumption
       DEF ReportsNext, WritesOnly
<1>3. ReportsProgress => SnapshotsAddUp
  BY DEF ReportsProgress
<1> QED
  BY <1>1, <1>2, <1>3, ReportsTypeCorrect, PTL DEF ReportsSpec
-----------------------------------------------------------------------------
(***************************************************************************)
(* Support tickets and SOS reports.                                        *)
(***************************************************************************)

Duties == {AtRest} \union Replying \union Answering \union Rewriting

LEMMA DutyShape ==
  ASSUME CaseTypeOK, NEW a \in Clerks
  PROVE  /\ desk[a] \in Duties
         /\ desk[a].pc = "reply" => desk[a] \in Replying
         /\ desk[a].pc = "answer" => desk[a] \in Answering
         /\ desk[a].pc = "rewrite" => desk[a] \in Rewriting
<1>1. desk[a] \in Duties
  BY DEF CaseTypeOK, Duties
<1> QED
  BY <1>1 DEF Duties, AtRest, Replying, Answering, Rewriting

\* What Handles does to the workers, one by one.
LEMMA HandlesOne ==
  ASSUME CaseTypeOK, NEW a \in Clerks, NEW r, Handles(a, r)
  PROVE  /\ desk'[a] = r
         /\ \A b \in Clerks : b # a => desk'[b] = desk[b]
  BY DEF CaseTypeOK, Handles

LEMMA HandlesType ==
  ASSUME CaseTypeOK, NEW a \in Clerks, NEW r \in Duties, Handles(a, r)
  PROVE  desk' \in [Clerks -> {AtRest} \union Replying \union Answering \union Rewriting]
  BY DEF CaseTypeOK, Handles, Duties

LEMMA EnterType ==
  ASSUME CaseTypeOK, NEW c \in Cases, NEW s \in Entered, Enter(c, s)
  PROVE  /\ case' \in [Cases -> Entered \union {Unopened, Gone}]
         /\ entry' \in [Cases -> Entered \union {Unopened}]
         /\ disputed' \subseteq Cases
  BY DEF CaseTypeOK, Enter

LEMMA DefaultEntered == \A c \in Cases : Default(c) \in Entered
  BY DEF Default, Entered

\* Opening a case, loading a row, and the end of a request: one write at most, of one case.
Minor(a) ==
  \/ \E t \in Tickets : OpenTicket(a, t)
  \/ \E c \in Reports, s \in Entered : OpenReport(a, c, s)
  \/ \E t \in Tickets, s \in Answers, plain \in BOOLEAN : LoadTicket(a, t, s, plain)
  \/ \E c \in Cases, s \in Answers \union {ClosedStatus} : LoadToEnter(a, c, s)
  \/ \E c \in Cases : LoadToRewrite(a, c)
  \/ Save(a) \/ Leave(a)

LEMMA MinorTyped == ASSUME CaseTypeOK, NEW a \in Clerks, Minor(a) PROVE CaseTypeOK'
<1>1. ASSUME NEW t \in Tickets, OpenTicket(a, t)
      PROVE  CaseTypeOK'
  <2>1. t \in Cases
    BY DEF Cases
  <2> QED
    BY <1>1, <2>1, EnterType, DefaultEntered DEF OpenTicket, CaseTypeOK
<1>2. ASSUME NEW c \in Reports, NEW s \in Entered, OpenReport(a, c, s)
      PROVE  CaseTypeOK'
  <2>1. c \in Cases
    BY DEF Cases
  <2> QED
    BY <1>2, <2>1, EnterType DEF OpenReport, CaseTypeOK
<1>3. ASSUME NEW t \in Tickets, NEW s \in Answers, NEW plain \in BOOLEAN, LoadTicket(a, t, s, plain)
      PROVE  CaseTypeOK'
  <2>1. [pc |-> "reply", case |-> t, status |-> s, plain |-> plain] \in Duties
    BY DEF Duties, Replying
  <2> QED
    BY <1>3, <2>1, HandlesType DEF LoadTicket, CaseTypeOK
<1>4. ASSUME NEW c \in Cases, NEW s \in Answers \union {ClosedStatus}, LoadToEnter(a, c, s)
      PROVE  CaseTypeOK'
  <2>1. [pc |-> "rewrite", case |-> c, status |-> s, entered |-> TRUE] \in Duties
    BY DEF Duties, Rewriting, Entered, ClosedStatus
  <2> QED
    BY <1>4, <2>1, HandlesType DEF LoadToEnter, CaseTypeOK
<1>5. ASSUME NEW c \in Cases, LoadToRewrite(a, c)
      PROVE  CaseTypeOK'
  <2>1. [pc |-> "rewrite", case |-> c, status |-> case[c], entered |-> FALSE] \in Duties
    BY <1>5 DEF LoadToRewrite, IsRow, Duties, Rewriting
  <2> QED
    BY <1>5, <2>1, HandlesType DEF LoadToRewrite, CaseTypeOK
<1>6. CASE Save(a)
  <2>1. desk[a].case \in Cases /\ desk[a].status \in Entered
    BY <1>6, DutyShape DEF Save, Rewriting
  <2>2. desk' \in [Clerks -> {AtRest} \union Replying \union Answering \union Rewriting]
    BY <1>6, HandlesType DEF Save, Duties
  <2>3. CASE desk[a].entered
    BY <1>6, <2>1, <2>2, <2>3, EnterType DEF Save, CaseTypeOK
  <2>4. CASE ~desk[a].entered
    BY <1>6, <2>1, <2>2, <2>4 DEF Save, CaseTypeOK
  <2> QED
    BY <2>3, <2>4
<1>7. CASE Leave(a)
  BY <1>7, HandlesType DEF Leave, CaseTypeOK, Duties
<1> QED
  BY <1>1, <1>2, <1>3, <1>4, <1>5, <1>6, <1>7 DEF Minor

LEMMA CaseTypeStep == CaseTypeOK /\ [CaseNext]_caseVars => CaseTypeOK'
<1> SUFFICES ASSUME CaseTypeOK, [CaseNext]_caseVars PROVE CaseTypeOK'
  OBVIOUS
<1>1. ASSUME NEW a \in Clerks, Reply(a)
      PROVE  CaseTypeOK'
  <2>1. PICK t \in Tickets : t = desk[a].case
    BY <1>1, DutyShape DEF Reply, Replying
  <2>2. desk[a].status \in Answers
    BY <1>1, DutyShape DEF Reply, Replying
  <2>3. [pc |-> "answer", case |-> t, status |-> desk[a].status] \in Duties
    BY <2>2 DEF Duties, Answering
  <2>4. \E r \in Duties : Handles(a, r)
    BY <1>1, <2>1, <2>3 DEF Reply, Duties
  <2> QED
    BY <1>1, <2>1, <2>4, HandlesType DEF Reply, CaseTypeOK
<1>2. ASSUME NEW a \in Clerks, Answer(a)
      PROVE  CaseTypeOK'
  <2>1. desk[a].case \in Tickets /\ desk[a].case \in Cases /\ desk[a].status \in Entered
    BY <1>2, DutyShape DEF Answer, Answering, Cases, Entered
  <2>2. desk' \in [Clerks -> {AtRest} \union Replying \union Answering \union Rewriting]
    BY <1>2, HandlesType DEF Answer, Duties
  <2> QED
    BY <1>2, <2>1, <2>2, EnterType DEF Answer, CaseTypeOK
<1>3. ASSUME NEW a \in Clerks, NEW t \in Tickets, NEW to \in (Tickets \ {t}) \union {Gone},
             TakeReply(a, t, to)
      PROVE  CaseTypeOK'
  <2>1. replies' \in [Tickets -> Nat]
    BY <1>3 DEF TakeReply, CaseTypeOK
  <2> QED
    BY <1>3, <2>1 DEF TakeReply, CaseTypeOK, Cases
<1>4. ASSUME NEW a \in Clerks, NEW c \in Cases, DeleteCase(a, c)
      PROVE  CaseTypeOK'
  BY <1>4 DEF DeleteCase, CaseTypeOK
<1>5. CASE UNCHANGED caseVars
  BY <1>5 DEF caseVars, CaseTypeOK
<1> QED
  BY <1>1, <1>2, <1>3, <1>4, <1>5, MinorTyped DEF CaseNext, Minor

LEMMA CaseInitTyped == CaseInit => CaseTypeOK
  BY DEF CaseInit, CaseTypeOK

\* Types of the rows and of what the workers hold, whatever statuses staff enter.
THEOREM CaseTypeCorrect == CaseSpec => []CaseTypeOK
  BY CaseInitTyped, CaseTypeStep, PTL DEF CaseSpec
-----------------------------------------------------------------------------
(***************************************************************************)
(* What was entered last.                                                  *)
(***************************************************************************)

\* Nobody new holds a row as it was.
NoNewHolders ==
  \A c \in Cases : \A b \in Holders(c)' : b \in Holders(c) /\ desk'[b] = desk[b]

LEMMA NoneNew ==
  ASSUME CaseTypeOK, NEW a \in Clerks, NEW r, Handles(a, r), r.pc = "rewrite" => r.entered
  PROVE  NoNewHolders
  BY HandlesOne DEF NoNewHolders, Holders

LEMMA NoneNewAtAll == desk' = desk => NoNewHolders
  BY DEF NoNewHolders, Holders

LEMMA EnterAgrees ==
  ASSUME CaseTypeOK, HoldersAgree, NoNewHolders, NEW c \in Cases, NEW s, Enter(c, s)
  PROVE  HoldersAgree'
<1> SUFFICES ASSUME NEW d \in Cases, entry'[d] # Unopened, d \notin disputed'
             PROVE  /\ case'[d] = entry'[d]
                    /\ \A b \in Holders(d)' : desk'[b].status = entry'[d]
  BY DEF HoldersAgree
<1>1. CASE d = c
  <2>1. Holders(c) = {}
    BY <1>1 DEF Enter
  <2> QED
    BY <1>1, <2>1 DEF Enter, CaseTypeOK, NoNewHolders
<1>2. CASE d # c
  <2>1. case'[d] = case[d] /\ entry'[d] = entry[d] /\ d \notin disputed
    BY <1>2 DEF Enter, CaseTypeOK
  <2> QED
    BY <2>1 DEF HoldersAgree, NoNewHolders
<1> QED
  BY <1>1, <1>2

LEMMA SameAgrees ==
  ASSUME CaseTypeOK, HoldersAgree, NoNewHolders, UNCHANGED <<case, entry, disputed>>
  PROVE  HoldersAgree'
  BY DEF HoldersAgree, NoNewHolders

LEMMA HoldersStep == CaseTypeOK /\ HoldersAgree /\ [CaseNext]_caseVars => HoldersAgree'
<1> SUFFICES ASSUME CaseTypeOK, HoldersAgree, [CaseNext]_caseVars PROVE HoldersAgree'
  OBVIOUS
<1>1. ASSUME NEW a \in Clerks, NEW t \in Tickets, OpenTicket(a, t)
      PROVE  HoldersAgree'
  BY <1>1, NoneNewAtAll, EnterAgrees DEF OpenTicket, Cases
<1>2. ASSUME NEW a \in Clerks, NEW c \in Reports, NEW s \in Entered, OpenReport(a, c, s)
      PROVE  HoldersAgree'
  BY <1>2, NoneNewAtAll, EnterAgrees DEF OpenReport, Cases
<1>3. ASSUME NEW a \in Clerks, NEW t \in Tickets, NEW s \in Answers, NEW plain \in BOOLEAN,
             LoadTicket(a, t, s, plain)
      PROVE  HoldersAgree'
  BY <1>3, NoneNew, SameAgrees DEF LoadTicket
<1>4. ASSUME NEW a \in Clerks, NEW c \in Cases, NEW s \in Answers \union {ClosedStatus},
             LoadToEnter(a, c, s)
      PROVE  HoldersAgree'
  BY <1>4, NoneNew, SameAgrees DEF LoadToEnter
<1>5. ASSUME NEW a \in Clerks, NEW c \in Cases, LoadToRewrite(a, c)
      PROVE  HoldersAgree'
  <2>1. /\ desk'[a] = [pc |-> "rewrite", case |-> c, status |-> case[c], entered |-> FALSE]
        /\ \A b \in Clerks : b # a => desk'[b] = desk[b]
        /\ UNCHANGED <<case, entry, disputed>>
    BY <1>5, HandlesOne DEF LoadToRewrite
  <2> SUFFICES ASSUME NEW d \in Cases, entry[d] # Unopened, d \notin disputed, NEW b \in Holders(d)'
               PROVE  desk'[b].status = entry[d]
    BY <2>1 DEF HoldersAgree
  <2>2. CASE b = a
    BY <2>1, <2>2 DEF HoldersAgree, Holders
  <2>3. CASE b # a
    BY <2>1, <2>3 DEF HoldersAgree, Holders
  <2> QED
    BY <2>2, <2>3
<1>6. ASSUME NEW a \in Clerks, Save(a)
      PROVE  HoldersAgree'
  <2>1. NoNewHolders
    BY <1>6, NoneNew DEF Save, AtRest
  <2>2. PICK c \in Cases : c = desk[a].case
    BY <1>6, DutyShape DEF Save, Rewriting
  <2>3. CASE desk[a].entered
    BY <1>6, <2>1, <2>2, <2>3, EnterAgrees DEF Save
  <2>4. CASE ~desk[a].entered
    <3>1. /\ case'[c] = desk[a].status /\ \A d \in Cases : d # c => case'[d] = case[d]
          /\ entry' = entry /\ disputed' = disputed
      BY <1>6, <2>2, <2>4 DEF Save, CaseTypeOK
    <3>2. a \in Holders(c)
      BY <1>6, <2>2, <2>4 DEF Save, Holders
    <3> QED
      BY <2>1, <3>1, <3>2 DEF HoldersAgree, NoNewHolders
  <2> QED
    BY <2>3, <2>4
<1>7. ASSUME NEW a \in Clerks, Leave(a)
      PROVE  HoldersAgree'
  BY <1>7, NoneNew, SameAgrees DEF Leave, AtRest
<1>8. ASSUME NEW a \in Clerks, Reply(a)
      PROVE  HoldersAgree'
  <2>1. \E r : Handles(a, r) /\ (r.pc = "rewrite" => r.entered)
    BY <1>8 DEF Reply, AtRest
  <2> QED
    BY <1>8, <2>1, NoneNew, SameAgrees DEF Reply
<1>9. ASSUME NEW a \in Clerks, Answer(a)
      PROVE  HoldersAgree'
  <2>1. NoNewHolders
    BY <1>9, NoneNew DEF Answer, AtRest
  <2>2. desk[a].case \in Cases
    BY <1>9, DutyShape DEF Answer, Answering, Cases
  <2> QED
    BY <1>9, <2>1, <2>2, EnterAgrees DEF Answer
<1>10. ASSUME NEW a \in Clerks, NEW t \in Tickets, NEW to, TakeReply(a, t, to)
       PROVE  HoldersAgree'
  BY <1>10, NoneNewAtAll, SameAgrees DEF TakeReply
<1>11. ASSUME NEW a \in Clerks, NEW c \in Cases, DeleteCase(a, c)
       PROVE  HoldersAgree'
  <2>1. NoNewHolders
    BY <1>11, NoneNewAtAll DEF DeleteCase
  <2>2. /\ entry'[c] = Unopened /\ disputed' = disputed
        /\ \A d \in Cases : d # c => case'[d] = case[d] /\ entry'[d] = entry[d]
    BY <1>11 DEF DeleteCase, CaseTypeOK
  <2> QED
    BY <2>1, <2>2 DEF HoldersAgree, NoNewHolders
<1>12. CASE UNCHANGED caseVars
  BY <1>12, NoneNewAtAll, SameAgrees DEF caseVars
<1> QED
  BY <1>1, <1>2, <1>3, <1>4, <1>5, <1>6, <1>7, <1>8, <1>9, <1>10, <1>11, <1>12 DEF CaseNext

\* Of the statuses of tickets and reports: what was entered last stands, unless a REST write
\* of something else held the row then.
THEOREM AnswersAlwaysStand == CaseSpec => []AnswersStand
<1>1. CaseInit => HoldersAgree
  BY DEF CaseInit, HoldersAgree
<1>2. HoldersAgree => AnswersStand
  BY DEF HoldersAgree, AnswersStand
<1> QED
  BY <1>1, <1>2, HoldersStep, CaseTypeCorrect, PTL DEF CaseSpec
-----------------------------------------------------------------------------
(***************************************************************************)
(* Replies and the statuses that come with them.                           *)
(***************************************************************************)

LEMMA PendingSizes ==
  \A t : Pending(t) \subseteq Clerks /\ IsFiniteSet(Clerks)
  BY CaseDeskAssumption DEF Pending

LEMMA NoNewPending ==
  ASSUME CaseTypeOK, NEW a \in Clerks, NEW r, Handles(a, r), r.pc # "answer", NEW t
  PROVE  Pending(t)' \subseteq Pending(t) \ {a}
  BY HandlesOne DEF Pending

LEMMA RepliesStep ==
  CaseTypeOK /\ RepliesPayAnswers /\ [CaseNext]_caseVars => RepliesPayAnswers'
<1> SUFFICES ASSUME CaseTypeOK, RepliesPayAnswers, [CaseNext]_caseVars,
                    NEW t \in Tickets, t \notin removed'
             PROVE  answers'[t] + Cardinality(Pending(t)') <= replies'[t]
  BY DEF RepliesPayAnswers
<1> DEFINE Paid == answers'[t] + Cardinality(Pending(t)') <= replies'[t]
<1>1. /\ answers[t] \in Nat /\ replies[t] \in Nat /\ IsFiniteSet(Clerks)
      /\ Pending(t) \subseteq Clerks /\ Cardinality(Pending(t)) \in Nat
  BY PendingSizes, NoneMore DEF CaseTypeOK
<1>2. t \notin removed => answers[t] + Cardinality(Pending(t)) <= replies[t]
  BY DEF RepliesPayAnswers
<1>3. ASSUME t \notin removed, Pending(t)' \subseteq Pending(t), answers'[t] = answers[t],
             replies'[t] \in Nat, replies'[t] >= replies[t]
      PROVE  Paid
  <2>1. /\ Cardinality(Pending(t)') \in Nat
        /\ Cardinality(Pending(t)') <= Cardinality(Pending(t))
    BY <1>1, <1>3, NoneMore
  <2> QED
    BY <1>1, <1>2, <1>3, <2>1
<1>4. ASSUME NEW a \in Clerks, Minor(a)
      PROVE  Paid
  <2>1. UNCHANGED <<answers, replies, removed>>
    BY <1>4 DEF Minor, OpenTicket, OpenReport, LoadTicket, LoadToEnter, LoadToRewrite, Save, Leave
  <2>2. desk' = desk => Pending(t)' \subseteq Pending(t)
    BY DEF Pending
  <2>3. Pending(t)' \subseteq Pending(t)
    <3>1. ASSUME NEW r, Handles(a, r), r.pc # "answer"
          PROVE  Pending(t)' \subseteq Pending(t)
      BY <3>1, NoNewPending
    <3>2. CASE \/ \E u \in Tickets : OpenTicket(a, u)
               \/ \E c \in Reports, s \in Entered : OpenReport(a, c, s)
      BY <2>2, <3>2 DEF OpenTicket, OpenReport
    <3>3. ASSUME NEW u \in Tickets, NEW s, NEW plain, LoadTicket(a, u, s, plain)
          PROVE  Pending(t)' \subseteq Pending(t)
      BY <3>1, <3>3 DEF LoadTicket
    <3>4. ASSUME NEW c \in Cases, NEW s, LoadToEnter(a, c, s)
          PROVE  Pending(t)' \subseteq Pending(t)
      BY <3>1, <3>4 DEF LoadToEnter
    <3>5. ASSUME NEW c \in Cases, LoadToRewrite(a, c)
          PROVE  Pending(t)' \subseteq Pending(t)
      BY <3>1, <3>5 DEF LoadToRewrite
    <3>6. CASE Save(a) \/ Leave(a)
      BY <3>1, <3>6 DEF Save, Leave, AtRest
    <3> QED
      BY <1>4, <3>2, <3>3, <3>4, <3>5, <3>6 DEF Minor
  <2> QED
    BY <1>1, <1>3, <2>1, <2>3
<1>5. ASSUME NEW a \in Clerks, Reply(a)
      PROVE  Paid
  <2>1. PICK u \in Tickets : u = desk[a].case
    BY <1>5, DutyShape DEF Reply, Replying
  <2>2. UNCHANGED <<answers, removed>>
    BY <1>5 DEF Reply
  <2>3. CASE u = t
    <3>1. replies'[t] = replies[t] + 1
      BY <1>5, <2>1, <2>3 DEF Reply, CaseTypeOK
    <3>2. \E r : Handles(a, r)
      BY <1>5 DEF Reply
    <3>3. Pending(t)' \subseteq Pending(t) \union {a}
      BY <3>2, HandlesOne DEF Pending
    <3>4. /\ Cardinality(Pending(t)') \in Nat
          /\ Cardinality(Pending(t)') <= Cardinality(Pending(t)) + 1
      BY <1>1, <3>3, OneMore
    <3> QED
      BY <1>1, <1>2, <2>2, <3>1, <3>4
  <2>4. CASE u # t
    <3>1. replies'[t] = replies[t]
      BY <1>5, <2>1, <2>4 DEF Reply, CaseTypeOK
    <3>2. \E r : Handles(a, r) /\ (r.pc = "answer" => r.case = u)
      BY <1>5, <2>1 DEF Reply, AtRest
    <3>3. Pending(t)' \subseteq Pending(t)
      BY <2>4, <3>2, HandlesOne DEF Pending
    <3> QED
      BY <1>1, <1>3, <2>2, <3>1, <3>3
  <2> QED
    BY <2>3, <2>4
<1>6. ASSUME NEW a \in Clerks, Answer(a)
      PROVE  Paid
  <2>1. PICK u \in Tickets : u = desk[a].case
    BY <1>6, DutyShape DEF Answer, Answering
  <2>2. UNCHANGED <<replies, removed>>
    BY <1>6 DEF Answer
  <2>3. Pending(t)' \subseteq Pending(t) \ {a}
    BY <1>6, NoNewPending DEF Answer, AtRest
  <2>4. CASE u = t
    <3>1. a \in Pending(t)
      BY <1>6, <2>1, <2>4 DEF Answer, Pending
    <3>2. answers'[t] = answers[t] + 1
      BY <1>6, <2>1, <2>4 DEF Answer, CaseTypeOK
    <3>3. /\ Cardinality(Pending(t)') \in Nat
          /\ Cardinality(Pending(t)') + 1 <= Cardinality(Pending(t))
      BY <1>1, <2>3, <3>1, OneLess
    <3> QED
      BY <1>1, <1>2, <2>2, <3>2, <3>3
  <2>5. CASE u # t
    <3>1. answers'[t] = answers[t]
      BY <1>6, <2>1, <2>5 DEF Answer, CaseTypeOK
    <3> QED
      BY <1>1, <1>3, <2>2, <2>3, <3>1
  <2> QED
    BY <2>4, <2>5
<1>7. ASSUME NEW a \in Clerks, NEW u \in Tickets, NEW to, TakeReply(a, u, to)
      PROVE  Paid
  <2>1. u # t /\ t \notin removed /\ Pending(t)' = Pending(t)
    BY <1>7 DEF TakeReply, Pending
  <2>2. answers'[t] = answers[t] /\ replies'[t] \in {replies[t], replies[t] + 1}
    BY <1>7, <2>1 DEF TakeReply, CaseTypeOK
  <2> QED
    BY <1>1, <1>3, <2>1, <2>2
<1>8. ASSUME NEW a \in Clerks, NEW c \in Cases, DeleteCase(a, c)
      PROVE  Paid
  <2>1. c # t /\ t \notin removed /\ Pending(t)' = Pending(t)
    BY <1>8 DEF DeleteCase, Pending
  <2>2. answers'[t] = answers[t] /\ replies'[t] = replies[t]
    BY <1>8, <2>1 DEF DeleteCase, CaseTypeOK
  <2> QED
    BY <1>1, <1>3, <2>1, <2>2
<1>9. CASE UNCHANGED caseVars
  BY <1>1, <1>3, <1>9 DEF caseVars, Pending
<1> QED
  BY <1>4, <1>5, <1>6, <1>7, <1>8, <1>9 DEF CaseNext, Minor

\* Of support_admin and SupportTicketViewSet.reply: the status that comes with a reply is
\* never there without it.
THEOREM AnswersAlwaysHaveReplies == CaseSpec => []AnswersHaveReplies
<1>1. CaseInit => RepliesPayAnswers
  <2> SUFFICES ASSUME CaseInit, NEW t \in Tickets
               PROVE  answers[t] + Cardinality(Pending(t)) <= replies[t]
    BY DEF RepliesPayAnswers
  <2>1. Pending(t) = {}
    BY DEF CaseInit, Pending, AtRest
  <2>2. Cardinality(Pending(t)) = 0
    BY <2>1, FS_EmptySet
  <2> QED
    BY <2>2 DEF CaseInit
<1>2. CaseTypeOK /\ RepliesPayAnswers => AnswersHaveReplies
  <2> SUFFICES ASSUME CaseTypeOK, RepliesPayAnswers, NEW t \in Tickets, t \notin removed
               PROVE  answers[t] <= replies[t]
    BY DEF AnswersHaveReplies
  <2>1. Cardinality(Pending(t)) \in Nat /\ answers[t] \in Nat /\ replies[t] \in Nat
    BY PendingSizes, NoneMore DEF CaseTypeOK
  <2> QED
    BY <2>1 DEF RepliesPayAnswers
<1> QED
  BY <1>1, <1>2, RepliesStep, CaseTypeCorrect, PTL DEF CaseSpec
-----------------------------------------------------------------------------
(***************************************************************************)
(* Messages.                                                               *)
(***************************************************************************)

Jobs == {Resting} \union Listing \union Between \union AtMail \union Editing \union Holding

LEMMA JobShape ==
  ASSUME MessagesTypeOK, NEW s \in Senders
  PROVE  /\ job[s] \in Jobs
         /\ job[s].pc = "list" => job[s] \in Listing
         /\ job[s].pc = "next" => job[s] \in Between
         /\ job[s].pc \in {"queued", "answered", "count"} => job[s] \in AtMail
         /\ job[s].pc = "broadcast" => job[s] \in Editing
         /\ job[s].pc = "diploma" => job[s] \in Holding
<1>1. job[s] \in Jobs
  BY DEF MessagesTypeOK, Jobs
<1> QED
  BY <1>1 DEF Jobs, Resting, Listing, Between, AtMail, Editing, Holding

\* What Does does to the workers, one by one.
LEMMA DoesOne ==
  ASSUME MessagesTypeOK, NEW s \in Senders, NEW j, Does(s, j)
  PROVE  /\ job'[s] = j
         /\ \A v \in Senders : v # s => job'[v] = job[v]
  BY DEF MessagesTypeOK, Does

LEMMA DoesType ==
  ASSUME MessagesTypeOK, NEW s \in Senders, NEW j \in Jobs, Does(s, j)
  PROVE  job' \in [Senders -> {Resting} \union Listing \union Between \union AtMail
                                \union Editing \union Holding]
  BY DEF MessagesTypeOK, Does, Jobs

\* A list that was loaded, and the end of the work on an e-mail.
LEMMA SendingTyped ==
  ASSUME NEW task \in Broadcasts \union {"diplomas", "single"}, NEW list \in SUBSET Mails,
         NEW counts \in [Diplomas -> Nat]
  PROVE  Sending(task, list, counts) \in Between
  BY DEF Sending, Between

LEMMA OnwardTyped == ASSUME NEW j \in AtMail PROVE Onward(j) \in Between
  BY DEF Onward, Between, AtMail

LEMMA DoneTyped ==
  ASSUME NEW j \in AtMail
  PROVE  /\ Done(j) \in Jobs
         /\ Done(j).pc \in {"next", "count"}
         /\ Done(j).todo = j.todo /\ Done(j).list = j.list /\ Done(j).task = j.task
         /\ Done(j).counts = j.counts
         /\ Done(j).pc = "count" => Done(j).mail = j.mail
<1>1. CASE j.task = "diplomas"
  <2>1. Done(j) = [j EXCEPT !.pc = "count", !.answer = "queued"]
    BY <1>1 DEF Done
  <2>2. /\ Done(j) \in AtMail /\ Done(j).pc = "count" /\ Done(j).mail = j.mail
        /\ Done(j).todo = j.todo /\ Done(j).list = j.list /\ Done(j).task = j.task
        /\ Done(j).counts = j.counts
    BY <2>1 DEF AtMail
  <2> QED
    BY <2>2 DEF Jobs
<1>2. CASE j.task # "diplomas"
  <2>1. Done(j) = Onward(j)
    BY <1>2 DEF Done
  <2> QED
    BY <2>1, OnwardTyped DEF Onward, Jobs
<1> QED
  BY <1>1, <1>2

LEMMA AddressedAreMails ==
  /\ \A b \in Broadcasts : {b} \X (Audience[b] \intersect reachable) \subseteq Mails
  /\ \A x \in Letters \union Diplomas : <<x, Addressee[x]>> \in Mails
<1>1. ASSUME NEW b \in Broadcasts
      PROVE  {b} \X (Audience[b] \intersect reachable) \subseteq Mails
  <2>1. {b} \X (Audience[b] \intersect reachable) \subseteq {b} \X Audience[b]
    OBVIOUS
  <2>2. {b} \X Audience[b] \subseteq Mails
    BY DEF Mails
  <2> QED
    BY <2>1, <2>2
<1>2. ASSUME NEW x \in Letters \union Diplomas
      PROVE  <<x, Addressee[x]>> \in Mails
  BY DEF Mails
<1> QED
  BY <1>1, <1>2

\* A row goes from queued to another status.
LEMMA RowMoves ==
  ASSUME NEW f \in [LogStatuses -> Nat], NEW l \in {"sent", "failed", "mocked"}, f["queued"] > 0,
         NEW g, g = MoveRow(f, l)
  PROVE  /\ g \in [LogStatuses -> Nat]
         /\ g["queued"] = f["queued"] - 1
         /\ g["sent"] = IF l = "sent" THEN f["sent"] + 1 ELSE f["sent"]
         /\ g["failed"] = IF l = "failed" THEN f["failed"] + 1 ELSE f["failed"]
         /\ g["mocked"] = IF l = "mocked" THEN f["mocked"] + 1 ELSE f["mocked"]
<1>1. g = [f EXCEPT !["queued"] = @ - 1, ![l] = @ + 1]
  BY DEF MoveRow
<1>2. g["queued"] = f["queued"] - 1
  BY <1>1 DEF LogStatuses
<1>3. g[l] = f[l] + 1
  BY <1>1 DEF LogStatuses
<1>4. \A k \in LogStatuses \ {l, "queued"} : g[k] = f[k]
  BY <1>1
<1>5. g \in [LogStatuses -> Nat]
  BY <1>1, <1>2, <1>3, <1>4 DEF LogStatuses
<1> QED
  BY <1>2, <1>3, <1>4, <1>5 DEF LogStatuses

\* What Logged does to the rows of the e-mail in hand, and that it leaves all others alone.
LEMMA LoggedOne ==
  ASSUME MessagesTypeOK, NEW s \in Senders, NEW l \in {"sent", "failed", "mocked"},
         NEW m \in Mails, job[s].mail = m, logs[m]["queued"] > 0, Logged(s, l)
  PROVE  /\ logs' \in [Mails -> [LogStatuses -> Nat]]
         /\ \A n \in Mails : n # m => logs'[n] = logs[n]
         /\ logs'[m]["queued"] = logs[m]["queued"] - 1
         /\ logs'[m]["sent"] = IF l = "sent" THEN logs[m]["sent"] + 1 ELSE logs[m]["sent"]
         /\ logs'[m]["failed"] = IF l = "failed" THEN logs[m]["failed"] + 1 ELSE logs[m]["failed"]
         /\ logs'[m]["mocked"] = IF l = "mocked" THEN logs[m]["mocked"] + 1 ELSE logs[m]["mocked"]
<1>1. logs \in [Mails -> [LogStatuses -> Nat]] /\ logs[m] \in [LogStatuses -> Nat]
  BY DEF MessagesTypeOK
<1>2. logs' = [logs EXCEPT ![m] = MoveRow(logs[m], l)]
  BY DEF Logged
<1>3. PICK g : g = MoveRow(logs[m], l)
  OBVIOUS
<1>4. /\ g \in [LogStatuses -> Nat]
      /\ g["queued"] = logs[m]["queued"] - 1
      /\ g["sent"] = IF l = "sent" THEN logs[m]["sent"] + 1 ELSE logs[m]["sent"]
      /\ g["failed"] = IF l = "failed" THEN logs[m]["failed"] + 1 ELSE logs[m]["failed"]
      /\ g["mocked"] = IF l = "mocked" THEN logs[m]["mocked"] + 1 ELSE logs[m]["mocked"]
  BY <1>1, <1>3, RowMoves
<1>5. /\ logs'[m] = g /\ \A n \in Mails : n # m => logs'[n] = logs[n]
      /\ logs' \in [Mails -> [LogStatuses -> Nat]]
  BY <1>1, <1>2, <1>3, <1>4
<1> QED
  BY <1>4, <1>5

\* Another row, queued.
LEMMA QueuedOne ==
  ASSUME MessagesTypeOK, NEW m \in Mails, logs' = [logs EXCEPT ![m] = NewRow(@)]
  PROVE  /\ logs' \in [Mails -> [LogStatuses -> Nat]]
         /\ \A n \in Mails : n # m => logs'[n] = logs[n]
         /\ logs'[m]["queued"] = logs[m]["queued"] + 1
         /\ \A l \in {"sent", "failed", "mocked"} : logs'[m][l] = logs[m][l]
<1>1. logs \in [Mails -> [LogStatuses -> Nat]] /\ logs[m] \in [LogStatuses -> Nat]
  BY DEF MessagesTypeOK
<1>2. PICK g : g = NewRow(logs[m])
  OBVIOUS
<1>3. /\ g \in [LogStatuses -> Nat]
      /\ g["queued"] = logs[m]["queued"] + 1
      /\ \A l \in {"sent", "failed", "mocked"} : g[l] = logs[m][l]
  BY <1>1, <1>2 DEF NewRow, LogStatuses
<1>4. /\ logs'[m] = g /\ \A n \in Mails : n # m => logs'[n] = logs[n]
      /\ logs' \in [Mails -> [LogStatuses -> Nat]]
  BY <1>1, <1>2, <1>3
<1> QED
  BY <1>3, <1>4

LEMMA AtItSizes ==
  \A m : AtIt(m) \subseteq Senders /\ IsFiniteSet(Senders)
  BY MessagesAssumption DEF AtIt

LEMMA InHandIsQueued ==
  ASSUME MessagesTypeOK, QueuedAreCut, NEW s \in Senders, job[s].pc \in {"queued", "answered"}
  PROVE  /\ job[s].mail \in Mails /\ job[s] \in AtMail
         /\ logs[job[s].mail]["queued"] > 0
<1>1. PICK m \in Mails : m = job[s].mail
  BY JobShape DEF AtMail
<1>2. s \in AtIt(m)
  BY <1>1 DEF AtIt
<1>3. Cardinality(AtIt(m)) \in Nat /\ Cardinality(AtIt(m) \ {s}) \in Nat
      /\ Cardinality(AtIt(m) \ {s}) + 1 <= Cardinality(AtIt(m))
  BY <1>2, AtItSizes, OneLess
<1>4. cut[m] \in Nat /\ logs[m]["queued"] = Cardinality(AtIt(m)) + cut[m]
  BY DEF MessagesTypeOK, QueuedAreCut
<1> QED
  BY <1>1, <1>3, <1>4, JobShape

\* Steps about the list, and requests that are asked for.
Quiet(s) ==
  \/ LoadList(s) \/ Finish(s) \/ SaveBroadcast(s) \/ SaveDiploma(s) \/ Count(s)
  \/ Ask(s)

LEMMA ComposeTyped ==
  ASSUME MessagesTypeOK, NEW s \in Senders, NEW b \in Broadcasts, NEW channel \in Channels,
         NEW now \in BOOLEAN, Compose(s, b, channel, now)
  PROVE  MessagesTypeOK'
<1>1. [pc |-> "list", task |-> b] \in Jobs
  BY DEF Jobs, Listing
<1>2. job' \in [Senders -> {Resting} \union Listing \union Between \union AtMail
                            \union Editing \union Holding]
  BY <1>1, DoesType DEF Compose, MessagesTypeOK
<1>3. broadcast' \in [Broadcasts -> [status: Present \union {"none", "gone"}, channel: Channels]]
  BY DEF Compose, MessagesTypeOK, Present
<1>4. requests' \in Nat
  BY DEF Compose, Asked, MessagesTypeOK
<1> QED
  BY <1>2, <1>3, <1>4 DEF Compose, MessagesTypeOK

LEMMA BroadcastStatusTyped ==
  ASSUME MessagesTypeOK, NEW b \in Broadcasts, NEW x \in Present \union {"gone"}
  PROVE  [broadcast EXCEPT ![b].status = x]
           \in [Broadcasts -> [status: Present \union {"none", "gone"}, channel: Channels]]
  BY DEF MessagesTypeOK

LEMMA AskTyped ==
  ASSUME MessagesTypeOK, NEW s \in Senders, Ask(s)
  PROVE  MessagesTypeOK'
<1> DEFINE Kind == {Resting} \union Listing \union Between \union AtMail \union Editing \union Holding
<1>1. ASSUME NEW b \in Broadcasts, NEW channel \in Channels, NEW now \in BOOLEAN,
             Compose(s, b, channel, now)
      PROVE  MessagesTypeOK'
  BY <1>1, ComposeTyped
<1>2. ASSUME NEW b \in Broadcasts, Send(s, b)
      PROVE  MessagesTypeOK'
  <2>1. [pc |-> "list", task |-> b] \in Jobs
    BY DEF Jobs, Listing
  <2>2. job' \in [Senders -> Kind]
    BY <1>2, <2>1, DoesType DEF Send
  <2> QED
    BY <1>2, <2>2 DEF Send, Asked, MessagesTypeOK
<1>3. ASSUME NEW b \in Broadcasts, DeleteBroadcast(s, b)
      PROVE  MessagesTypeOK'
  BY <1>3, BroadcastStatusTyped DEF DeleteBroadcast, MessagesTypeOK
<1>4. ASSUME NEW b \in Broadcasts, NEW x \in Present, LoadBroadcast(s, b, x)
      PROVE  MessagesTypeOK'
  <2>1. [pc |-> "broadcast", task |-> b, status |-> x, entered |-> x # broadcast[b].status] \in Jobs
    BY DEF Jobs, Editing
  <2>2. job' \in [Senders -> Kind]
    BY <1>4, <2>1, DoesType DEF LoadBroadcast
  <2> QED
    BY <1>4, <2>2 DEF LoadBroadcast, Asked, MessagesTypeOK
<1>5. ASSUME NEW m \in Mails, Write(s, m) \/ Resend(s, m)
      PROVE  MessagesTypeOK'
  <2>1. Sending("single", {m}, [d \in Diplomas |-> 0]) \in Jobs
    BY SendingTyped DEF Jobs
  <2>2. job' \in [Senders -> Kind]
    BY <1>5, <2>1, DoesType DEF Write, Resend
  <2>3. begun' \in [Mails -> Nat]
    BY <1>5 DEF Write, Resend, Begun, MessagesTypeOK
  <2> QED
    BY <1>5, <2>2, <2>3 DEF Write, Resend, Asked, MessagesTypeOK
<1>6. ASSUME NEW D \in SUBSET Diplomas, SendDiplomas(s, D)
      PROVE  MessagesTypeOK'
  <2> DEFINE list == {<<d, Addressee[d]>> : d \in {c \in D : Addressee[c] \in reachable}}
  <2>1. list \subseteq Mails
    BY AddressedAreMails
  <2>2. Does(s, Sending("diplomas", list, sentCount)) /\ Begun(list) /\ Asked
    BY <1>6 DEF SendDiplomas
  <2> HIDE DEF list
  <2>3. Sending("diplomas", list, sentCount) \in Jobs
    BY <2>1, SendingTyped DEF Jobs, MessagesTypeOK
  <2>4. job' \in [Senders -> Kind]
    BY <2>2, <2>3, DoesType
  <2>5. begun' \in [Mails -> Nat] /\ requests' \in Nat
    BY <2>2 DEF Begun, Asked, MessagesTypeOK
  <2> QED
    BY <1>6, <2>4, <2>5 DEF SendDiplomas, MessagesTypeOK
<1>7. ASSUME NEW d \in Diplomas, LoadDiploma(s, d)
      PROVE  MessagesTypeOK'
  <2>1. [pc |-> "diploma", diploma |-> d, count |-> sentCount[d]] \in Jobs
    BY DEF Jobs, Holding, MessagesTypeOK
  <2>2. job' \in [Senders -> Kind]
    BY <1>7, <2>1, DoesType DEF LoadDiploma
  <2> QED
    BY <1>7, <2>2 DEF LoadDiploma, Asked, MessagesTypeOK
<1> QED
  BY <1>1, <1>2, <1>3, <1>4, <1>5, <1>6, <1>7 DEF Ask

LEMMA WorkTyped ==
  ASSUME MessagesTypeOK, QueuedAreCut, NEW s \in Senders, Work(s)
  PROVE  MessagesTypeOK'
<1> DEFINE Kind == {Resting} \union Listing \union Between \union AtMail \union Editing \union Holding
<1>1. CASE LoadList(s)
  <2>1. PICK b \in Broadcasts : b = job[s].task
    BY <1>1, JobShape DEF LoadList, Listing
  <2> DEFINE list == IF broadcast[b].channel = "email"
                       THEN {b} \X (Audience[b] \intersect reachable) ELSE {}
  <2>2. list \subseteq Mails
    BY AddressedAreMails
  <2>3. Does(s, Sending(b, list, [d \in Diplomas |-> 0])) /\ Begun(list)
    BY <1>1, <2>1 DEF LoadList
  <2> HIDE DEF list
  <2>4. Sending(b, list, [d \in Diplomas |-> 0]) \in Jobs
    BY <2>2, SendingTyped DEF Jobs
  <2>5. job' \in [Senders -> Kind]
    BY <2>3, <2>4, DoesType
  <2>6. begun' \in [Mails -> Nat]
    BY <2>3 DEF Begun, MessagesTypeOK
  <2>7. notices' \subseteq Broadcasts
    BY <1>1, <2>1 DEF LoadList, MessagesTypeOK
  <2> QED
    BY <1>1, <2>5, <2>6, <2>7 DEF LoadList, MessagesTypeOK
<1>2. CASE Finish(s)
  <2>1. job' \in [Senders -> Kind]
    BY <1>2, DoesType DEF Finish, Jobs
  <2>2. job[s].list \in SUBSET Mails
    BY <1>2, JobShape DEF Finish, Between
  <2>3. CASE job[s].task \in Broadcasts /\ broadcast[job[s].task].status \in Present
    <3>1. broadcast' \in [Broadcasts -> [status: Present \union {"none", "gone"}, channel: Channels]]
      <4>1. broadcast' = [broadcast EXCEPT ![job[s].task].status = "sent"]
        BY <1>2, <2>3 DEF Finish, SentStatus
      <4> QED
        BY <2>3, <4>1, BroadcastStatusTyped DEF Present
    <3>2. reached' \in [Broadcasts -> SUBSET (SUBSET Mails)]
      BY <1>2, <2>2, <2>3 DEF Finish, MessagesTypeOK
    <3> QED
      BY <1>2, <2>1, <2>3, <3>1, <3>2 DEF Finish, MessagesTypeOK
  <2>4. CASE ~(job[s].task \in Broadcasts /\ broadcast[job[s].task].status \in Present)
    BY <1>2, <2>1, <2>4 DEF Finish, MessagesTypeOK
  <2> QED
    BY <2>3, <2>4
<1>3. CASE SaveBroadcast(s)
  <2>1. job[s].task \in Broadcasts /\ job[s].status \in Present
    BY <1>3, JobShape DEF SaveBroadcast, Editing
  <2>2. job' \in [Senders -> Kind]
    BY <1>3, DoesType DEF SaveBroadcast, Jobs
  <2>3. broadcast' \in [Broadcasts -> [status: Present \union {"none", "gone"}, channel: Channels]]
    BY <1>3, <2>1, BroadcastStatusTyped DEF SaveBroadcast
  <2> QED
    BY <1>3, <2>1, <2>2, <2>3 DEF SaveBroadcast, MessagesTypeOK
<1>4. CASE SaveDiploma(s)
  <2>1. job[s].count \in Nat
    BY <1>4, JobShape DEF SaveDiploma, Holding
  <2>2. job' \in [Senders -> Kind]
    BY <1>4, DoesType DEF SaveDiploma, Jobs
  <2> QED
    BY <1>4, <2>1, <2>2 DEF SaveDiploma, MessagesTypeOK
<1>5. CASE Queue(s)
  <2>1. job[s] \in Between
    BY <1>5, JobShape DEF Queue
  <2>2. PICK m \in job[s].todo :
          /\ logs' = [logs EXCEPT ![m] = NewRow(@)]
          /\ Does(s, [pc |-> "queued", task |-> job[s].task, list |-> job[s].list,
                      todo |-> job[s].todo \ {m}, counts |-> job[s].counts,
                      mail |-> m, answer |-> "queued"])
    BY <1>5 DEF Queue
  <2>3. [pc |-> "queued", task |-> job[s].task, list |-> job[s].list,
         todo |-> job[s].todo \ {m}, counts |-> job[s].counts,
         mail |-> m, answer |-> "queued"] \in Jobs
    BY <2>1 DEF Between, AtMail, Jobs
  <2>4. job' \in [Senders -> Kind]
    BY <2>2, <2>3, DoesType
  <2>5. m \in Mails
    BY <2>1 DEF Between
  <2>6. logs' \in [Mails -> [LogStatuses -> Nat]]
    BY <2>2, <2>5, QueuedOne
  <2> QED
    BY <1>5, <2>4, <2>6 DEF Queue, MessagesTypeOK
<1>6. CASE Mock(s) \/ Record(s)
  <2>1. /\ job[s] \in AtMail /\ job[s].mail \in Mails /\ logs[job[s].mail]["queued"] > 0
    BY <1>6, InHandIsQueued DEF Mock, Record
  <2>2. Done(job[s]) \in Jobs
    BY <2>1, DoneTyped
  <2>3. job' \in [Senders -> Kind]
    BY <1>6, <2>2, DoesType DEF Mock, Record
  <2>4. CASE Mock(s)
    BY <2>1, <2>3, <2>4, LoggedOne DEF Mock, MessagesTypeOK
  <2>5. CASE Record(s) /\ job[s].answer \in {"sent", "failed"}
    BY <2>1, <2>3, <2>5, LoggedOne DEF Record, MessagesTypeOK
  <2>6. Record(s) => job[s].answer \in {"sent", "failed"}
    BY <2>1 DEF Record, AtMail
  <2> QED
    BY <1>6, <2>4, <2>5, <2>6
<1>7. CASE HandOver(s)
  <2>1. job[s] \in AtMail
    BY <1>7, JobShape DEF HandOver
  <2>2. PICK answer \in {"sent", "failed"} :
          Does(s, [job[s] EXCEPT !.pc = "answered", !.answer = answer])
    BY <1>7 DEF HandOver
  <2>3. [job[s] EXCEPT !.pc = "answered", !.answer = answer] \in Jobs
    BY <2>1 DEF AtMail, Jobs
  <2>4. job' \in [Senders -> Kind]
    BY <2>2, <2>3, DoesType
  <2>5. taken' \in [Mails -> Nat]
    BY <1>7, <2>1 DEF HandOver, AtMail, MessagesTypeOK
  <2> QED
    BY <1>7, <2>4, <2>5 DEF HandOver, MessagesTypeOK
<1>8. CASE Count(s)
  <2>1. job[s] \in AtMail
    BY <1>8, JobShape DEF Count
  <2>2. Onward(job[s]) \in Jobs
    BY <2>1, OnwardTyped DEF Jobs
  <2>3. job' \in [Senders -> Kind]
    BY <1>8, <2>2, DoesType DEF Count
  <2>4. sentCount' \in [Diplomas -> Nat]
    <3>1. CASE job[s].mail[1] \in Diplomas
      BY <1>8, <2>1, <3>1 DEF Count, AtMail, MessagesTypeOK
    <3>2. CASE job[s].mail[1] \notin Diplomas
      BY <1>8, <3>2 DEF Count, MessagesTypeOK
    <3> QED
      BY <3>1, <3>2
  <2> QED
    BY <1>8, <2>3, <2>4 DEF Count, MessagesTypeOK
<1> QED
  BY <1>1, <1>2, <1>3, <1>4, <1>5, <1>6, <1>7, <1>8 DEF Work

\* Steps about the list, and requests that are asked for, leave the rows and whoever is at
\* an e-mail alone.
LEMMA QuietElsewhere ==
  ASSUME MessagesTypeOK, NEW s \in Senders, Quiet(s)
  PROVE  /\ UNCHANGED <<logs, taken, cut>>
         /\ \A v \in Senders : v # s => job'[v] = job[v]
         /\ \/ job'[s] = job[s]
            \/ /\ job[s].pc \notin {"queued", "answered"}
               /\ job'[s].pc \notin {"queued", "answered"}
<1> DEFINE Alone == /\ \A v \in Senders : v # s => job'[v] = job[v]
                    /\ \/ job'[s] = job[s]
                       \/ /\ job[s].pc \notin {"queued", "answered"}
                          /\ job'[s].pc \notin {"queued", "answered"}
<1>1. UNCHANGED <<logs, taken, cut>>
  BY DEF Quiet, Ask, LoadList, Finish, SaveBroadcast, SaveDiploma, Count, Compose, Send,
         DeleteBroadcast, LoadBroadcast, Write, Resend, SendDiplomas, LoadDiploma
<1>2. ASSUME NEW j, Does(s, j), job[s].pc \notin {"queued", "answered"},
             j.pc \notin {"queued", "answered"}
      PROVE  Alone
  BY <1>2, DoesOne
<1>3. ASSUME NEW task, NEW list, NEW counts, Does(s, Sending(task, list, counts)),
             job[s].pc \notin {"queued", "answered"}
      PROVE  Alone
  BY <1>2, <1>3 DEF Sending
<1>4. CASE LoadList(s)
  BY <1>3, <1>4 DEF LoadList
<1>5. CASE Finish(s) \/ SaveBroadcast(s) \/ SaveDiploma(s)
  BY <1>2, <1>5 DEF Finish, SaveBroadcast, SaveDiploma, Resting
<1>6. CASE Count(s)
  BY <1>2, <1>6 DEF Count, Onward
<1>7. ASSUME NEW b \in Broadcasts, NEW channel, NEW now \in BOOLEAN, Compose(s, b, channel, now)
      PROVE  Alone
  <2>1. job' = job \/ Does(s, [pc |-> "list", task |-> b])
    BY <1>7 DEF Compose
  <2> QED
    BY <1>2, <1>7, <2>1 DEF Compose, Resting
<1>8. ASSUME NEW b \in Broadcasts, Send(s, b) \/ DeleteBroadcast(s, b)
      PROVE  Alone
  BY <1>2, <1>8 DEF Send, DeleteBroadcast, Resting
<1>9. ASSUME NEW b \in Broadcasts, NEW x, LoadBroadcast(s, b, x)
      PROVE  Alone
  BY <1>2, <1>9 DEF LoadBroadcast, Resting
<1>10. ASSUME NEW m \in Mails, Write(s, m) \/ Resend(s, m)
       PROVE  Alone
  BY <1>3, <1>10 DEF Write, Resend, Resting
<1>11. ASSUME NEW D, SendDiplomas(s, D)
       PROVE  Alone
  BY <1>3, <1>11 DEF SendDiplomas, Resting
<1>12. ASSUME NEW d \in Diplomas, LoadDiploma(s, d)
       PROVE  Alone
  BY <1>2, <1>12 DEF LoadDiploma, Resting
<1> QED
  BY <1>1, <1>4, <1>5, <1>6, <1>7, <1>8, <1>9, <1>10, <1>11, <1>12 DEF Quiet, Ask

\* Whoever is at an e-mail, what the server said of it, and who has it in hand.
LEMMA QuietAtIt ==
  ASSUME MessagesTypeOK, NEW s \in Senders, Quiet(s), NEW m
  PROVE  /\ AtIt(m)' = AtIt(m) /\ Unanswered(m)' = Unanswered(m) /\ Confirmed(m)' = Confirmed(m)
         /\ UNCHANGED <<logs, taken, cut>>
  BY QuietElsewhere DEF AtIt, Unanswered, Confirmed

\* A step from one e-mail to the next, with what it does to the rows of both.
LEMMA QueueDoes ==
  ASSUME MessagesTypeOK, NEW s \in Senders, Queue(s)
  PROVE  \E m \in Mails :
           /\ m \in job[s].todo
           /\ logs' = [logs EXCEPT ![m] = NewRow(@)]
           /\ job'[s].pc = "queued" /\ job'[s].mail = m
           /\ job'[s].todo = job[s].todo \ {m} /\ job'[s].list = job[s].list
           /\ job'[s].task = job[s].task /\ job'[s].counts = job[s].counts
           /\ \A v \in Senders : v # s => job'[v] = job[v]
<1>1. job[s] \in Between
  BY JobShape DEF Queue
<1>2. PICK m \in job[s].todo :
        /\ logs' = [logs EXCEPT ![m] = NewRow(@)]
        /\ Does(s, [pc |-> "queued", task |-> job[s].task, list |-> job[s].list,
                    todo |-> job[s].todo \ {m}, counts |-> job[s].counts,
                    mail |-> m, answer |-> "queued"])
  BY DEF Queue
<1>3. m \in Mails
  BY <1>1 DEF Between
<1>4. /\ job'[s] = [pc |-> "queued", task |-> job[s].task, list |-> job[s].list,
                    todo |-> job[s].todo \ {m}, counts |-> job[s].counts,
                    mail |-> m, answer |-> "queued"]
      /\ \A v \in Senders : v # s => job'[v] = job[v]
  BY <1>2, DoesOne
<1>5. /\ job'[s].pc = "queued" /\ job'[s].mail = m
      /\ job'[s].todo = job[s].todo \ {m} /\ job'[s].list = job[s].list
      /\ job'[s].task = job[s].task /\ job'[s].counts = job[s].counts
  BY <1>4
<1> QED
  BY <1>2, <1>3, <1>4, <1>5

\* The row of the e-mail in hand gets its status, and the worker goes on.
LEMMA RowGetsStatus ==
  ASSUME MessagesTypeOK, QueuedAreCut, NEW s \in Senders, Mock(s) \/ Record(s)
  PROVE  \E l \in {"sent", "failed", "mocked"} :
           /\ job[s].mail \in Mails /\ logs[job[s].mail]["queued"] > 0
           /\ Logged(s, l)
           /\ l = "sent" <=> job[s].pc = "answered" /\ job[s].answer = "sent"
           /\ l = "mocked" <=> job[s].pc = "queued"
           /\ job'[s] = Done(job[s]) /\ job'[s].pc \in {"next", "count"}
           /\ \A v \in Senders : v # s => job'[v] = job[v]
           /\ UNCHANGED <<taken, cut>>
<1>1. /\ job[s].mail \in Mails /\ logs[job[s].mail]["queued"] > 0 /\ job[s] \in AtMail
      /\ Does(s, Done(job[s])) /\ UNCHANGED <<taken, cut>>
  BY InHandIsQueued DEF Mock, Record
<1>2. /\ job'[s] = Done(job[s]) /\ job'[s].pc \in {"next", "count"}
      /\ \A v \in Senders : v # s => job'[v] = job[v]
  BY <1>1, DoesOne, DoneTyped
<1>3. CASE Mock(s)
  BY <1>1, <1>2, <1>3 DEF Mock
<1>4. CASE Record(s)
  <2>1. job[s].pc = "answered" /\ job[s].answer \in {"sent", "failed"} /\ Logged(s, job[s].answer)
    BY <1>1, <1>4 DEF Record, AtMail
  <2> QED
    BY <1>1, <1>2, <2>1
<1> QED
  BY <1>3, <1>4

LEMMA HandOverDoes ==
  ASSUME MessagesTypeOK, NEW s \in Senders, HandOver(s)
  PROVE  \E m \in Mails, answer \in {"sent", "failed"} :
           /\ job[s].mail = m /\ job[s].pc = "queued"
           /\ job'[s].pc = "answered" /\ job'[s].mail = m /\ job'[s].answer = answer
           /\ job'[s].todo = job[s].todo /\ job'[s].list = job[s].list
           /\ job'[s].task = job[s].task /\ job'[s].counts = job[s].counts
           /\ \A v \in Senders : v # s => job'[v] = job[v]
           /\ \A n \in Mails : n # m => taken'[n] = taken[n]
           /\ taken'[m] = taken[m] + 1 \/ (answer = "failed" /\ taken'[m] = taken[m])
           /\ UNCHANGED <<logs, cut>>
<1>1. job[s] \in AtMail /\ job[s].pc = "queued" /\ UNCHANGED <<logs, cut>>
  BY JobShape DEF HandOver
<1>2. PICK m \in Mails : m = job[s].mail
  BY <1>1 DEF AtMail
<1>3. PICK answer \in {"sent", "failed"} :
        /\ Does(s, [job[s] EXCEPT !.pc = "answered", !.answer = answer])
        /\ \/ taken' = [taken EXCEPT ![job[s].mail] = @ + 1]
           \/ answer = "failed" /\ UNCHANGED taken
  BY DEF HandOver
<1>4. job'[s] = [job[s] EXCEPT !.pc = "answered", !.answer = answer]
  BY <1>3, DoesOne
<1>5. /\ job'[s].pc = "answered" /\ job'[s].mail = m /\ job'[s].answer = answer
      /\ job'[s].todo = job[s].todo /\ job'[s].list = job[s].list
      /\ job'[s].task = job[s].task /\ job'[s].counts = job[s].counts
  BY <1>1, <1>2, <1>4 DEF AtMail
<1>6. \A v \in Senders : v # s => job'[v] = job[v]
  BY <1>3, DoesOne
<1>7. /\ \A n \in Mails : n # m => taken'[n] = taken[n]
      /\ taken'[m] = taken[m] + 1 \/ (answer = "failed" /\ taken'[m] = taken[m])
  BY <1>2, <1>3 DEF MessagesTypeOK
<1> QED
  BY <1>1, <1>2, <1>5, <1>6, <1>7

LEMMA DieDoes ==
  ASSUME MessagesTypeOK, NEW s \in Senders, Die(s)
  PROVE  /\ job'[s] = Resting /\ \A v \in Senders : v # s => job'[v] = job[v]
         /\ UNCHANGED <<logs, taken>>
         /\ job[s].pc \notin {"queued", "answered"} => cut' = cut
         /\ job[s].pc \in {"queued", "answered"} =>
              /\ job[s].mail \in Mails
              /\ cut' = [cut EXCEPT ![job[s].mail] = @ + 1]
  BY DoesOne, JobShape DEF Die, AtMail

\* A step of Messages, by what it is about.
LEMMA MessagesCases ==
  ASSUME [MessagesNext]_mailVars
  PROVE  \/ \E s \in Senders : \/ Quiet(s) \/ Queue(s) \/ Mock(s) \/ Record(s)
                               \/ HandOver(s) \/ Die(s)
         \/ \E p \in Movers : EditAddress(p)
         \/ UNCHANGED mailVars
  BY DEF MessagesNext, Work, Quiet

LEMMA MessagesInitTyped == MessagesInit => MessagesTypeOK
  BY DEF MessagesInit, MessagesTypeOK, Present, Channels

LEMMA MessagesTypeStep ==
  MessagesTypeOK /\ QueuedAreCut /\ [MessagesNext]_mailVars => MessagesTypeOK'
<1> SUFFICES ASSUME MessagesTypeOK, QueuedAreCut, [MessagesNext]_mailVars PROVE MessagesTypeOK'
  OBVIOUS
<1>1. ASSUME NEW s \in Senders, Die(s)
      PROVE  MessagesTypeOK'
  <2>1. job' \in [Senders -> {Resting} \union Listing \union Between \union AtMail
                              \union Editing \union Holding]
    BY <1>1, DoesType DEF Die, Jobs
  <2>2. cut' \in [Mails -> Nat]
    <3>1. cut \in [Mails -> Nat]
      BY DEF MessagesTypeOK
    <3>2. CASE job[s].pc \in {"queued", "answered"}
      <4>1. PICK m \in Mails : cut' = [cut EXCEPT ![m] = @ + 1]
        BY <1>1, <3>2, DieDoes
      <4> QED
        BY <3>1, <4>1
    <3>3. CASE job[s].pc \notin {"queued", "answered"}
      BY <1>1, <3>1, <3>3, DieDoes
    <3> QED
      BY <3>2, <3>3
  <2> QED
    BY <1>1, <2>1, <2>2 DEF Die, MessagesTypeOK
<1>2. ASSUME NEW p \in Movers, EditAddress(p)
      PROVE  MessagesTypeOK'
  BY <1>2, MessagesAssumption DEF EditAddress, MessagesTypeOK
<1>3. CASE UNCHANGED mailVars
  BY <1>3 DEF mailVars, MessagesTypeOK
<1> QED
  BY <1>1, <1>2, <1>3, WorkTyped, AskTyped DEF MessagesNext

LEMMA QueuedStep ==
  MessagesTypeOK /\ QueuedAreCut /\ [MessagesNext]_mailVars => QueuedAreCut'
<1> SUFFICES ASSUME MessagesTypeOK, QueuedAreCut, [MessagesNext]_mailVars, NEW m \in Mails
             PROVE  logs'[m]["queued"] = Cardinality(AtIt(m)') + cut'[m]
  BY DEF QueuedAreCut
<1> DEFINE Goal == logs'[m]["queued"] = Cardinality(AtIt(m)') + cut'[m]
<1>1. /\ logs[m]["queued"] = Cardinality(AtIt(m)) + cut[m]
      /\ cut[m] \in Nat /\ logs[m]["queued"] \in Nat /\ Cardinality(AtIt(m)) \in Nat
      /\ IsFiniteSet(AtIt(m))
  <2>1. IsFiniteSet(AtIt(m))
    BY AtItSizes, FS_Subset
  <2> QED
    BY <2>1, Sizes DEF QueuedAreCut, MessagesTypeOK, LogStatuses
<1>2. ASSUME AtIt(m)' = AtIt(m), logs'[m]["queued"] = logs[m]["queued"], cut'[m] = cut[m]
      PROVE  Goal
  BY <1>1, <1>2
<1>3. ASSUME NEW s \in AtIt(m), AtIt(m)' = AtIt(m) \ {s}
      PROVE  Cardinality(AtIt(m)') = Cardinality(AtIt(m)) - 1
  BY <1>1, <1>3, FS_RemoveElement
<1>4. ASSUME NEW s \in Senders, Quiet(s)
      PROVE  Goal
  BY <1>2, <1>4, QuietAtIt
<1>5. ASSUME NEW s \in Senders, Queue(s)
      PROVE  Goal
  <2>1. PICK n \in Mails :
          /\ logs' = [logs EXCEPT ![n] = NewRow(@)]
          /\ job'[s].pc = "queued" /\ job'[s].mail = n
          /\ \A v \in Senders : v # s => job'[v] = job[v]
    BY <1>5, QueueDoes
  <2>2. job[s].pc = "next" /\ cut' = cut
    BY <1>5 DEF Queue
  <2>3. CASE n = m
    <3>1. logs'[m]["queued"] = logs[m]["queued"] + 1
      BY <2>1, <2>3, QueuedOne
    <3>2. AtIt(m)' = AtIt(m) \union {s} /\ s \notin AtIt(m)
      BY <2>1, <2>2, <2>3 DEF AtIt
    <3>3. Cardinality(AtIt(m)') = Cardinality(AtIt(m)) + 1
      BY <1>1, <3>2, FS_AddElement
    <3> QED
      BY <1>1, <2>2, <3>1, <3>3
  <2>4. CASE n # m
    <3>1. logs'[m] = logs[m]
      BY <2>1, <2>4, QueuedOne
    <3>2. AtIt(m)' = AtIt(m)
      BY <2>1, <2>2, <2>4 DEF AtIt
    <3> QED
      BY <1>2, <2>2, <3>1, <3>2
  <2> QED
    BY <2>3, <2>4
<1>6. ASSUME NEW s \in Senders, Mock(s) \/ Record(s)
      PROVE  Goal
  <2>1. PICK l \in {"sent", "failed", "mocked"} :
           /\ job[s].mail \in Mails /\ logs[job[s].mail]["queued"] > 0
           /\ Logged(s, l)
           /\ job'[s].pc \in {"next", "count"}
           /\ \A v \in Senders : v # s => job'[v] = job[v]
           /\ cut' = cut
    BY <1>6, RowGetsStatus
  <2>2. job[s].pc \in {"queued", "answered"}
    BY <1>6 DEF Mock, Record
  <2>3. CASE job[s].mail = m
    <3>1. logs'[m]["queued"] = logs[m]["queued"] - 1
      BY <2>1, <2>3, LoggedOne
    <3>2. AtIt(m)' = AtIt(m) \ {s} /\ s \in AtIt(m)
      BY <2>1, <2>2, <2>3 DEF AtIt
    <3>3. Cardinality(AtIt(m)') = Cardinality(AtIt(m)) - 1
      BY <1>3, <3>2
    <3> QED
      BY <1>1, <2>1, <3>1, <3>3
  <2>4. CASE job[s].mail # m
    <3>1. logs'[m] = logs[m]
      BY <2>1, <2>4, LoggedOne
    <3>2. AtIt(m)' = AtIt(m)
      BY <2>1, <2>2, <2>4 DEF AtIt
    <3> QED
      BY <1>2, <2>1, <3>1, <3>2
  <2> QED
    BY <2>3, <2>4
<1>7. ASSUME NEW s \in Senders, HandOver(s)
      PROVE  Goal
  <2>1. /\ job[s].pc = "queued" /\ job'[s].pc = "answered" /\ job'[s].mail = job[s].mail
        /\ \A v \in Senders : v # s => job'[v] = job[v]
        /\ UNCHANGED <<logs, cut>>
    BY <1>7, HandOverDoes
  <2>2. AtIt(m)' = AtIt(m)
    BY <2>1 DEF AtIt
  <2> QED
    BY <1>2, <2>1, <2>2
<1>8. ASSUME NEW s \in Senders, Die(s)
      PROVE  Goal
  <2>1. job'[s].pc = "rest" /\ (\A v \in Senders : v # s => job'[v] = job[v]) /\ logs' = logs
    BY <1>8, DieDoes DEF Resting
  <2>2. CASE job[s].pc \in {"queued", "answered"} /\ job[s].mail = m
    <3>1. AtIt(m)' = AtIt(m) \ {s} /\ s \in AtIt(m)
      BY <2>1, <2>2 DEF AtIt
    <3>2. cut'[m] = cut[m] + 1
      BY <1>8, <2>2, DieDoes DEF MessagesTypeOK
    <3>3. Cardinality(AtIt(m)') = Cardinality(AtIt(m)) - 1
      BY <1>3, <3>1
    <3> QED
      BY <1>1, <2>1, <3>2, <3>3
  <2>3. CASE ~(job[s].pc \in {"queued", "answered"} /\ job[s].mail = m)
    <3>1. AtIt(m)' = AtIt(m)
      BY <2>1, <2>3 DEF AtIt
    <3>2. cut'[m] = cut[m]
      BY <1>8, <2>3, DieDoes DEF MessagesTypeOK
    <3> QED
      BY <1>2, <2>1, <3>1, <3>2
  <2> QED
    BY <2>2, <2>3
<1>9. ASSUME UNCHANGED <<job, logs, cut>>
      PROVE  Goal
  BY <1>2, <1>9 DEF AtIt
<1>10. CASE \E p \in Movers : EditAddress(p)
  BY <1>9, <1>10 DEF EditAddress
<1>11. CASE UNCHANGED mailVars
  BY <1>9, <1>11 DEF mailVars
<1> QED
  BY <1>4, <1>5, <1>6, <1>7, <1>8, <1>10, <1>11, MessagesCases

LEMMA QueuedInit == MessagesInit => QueuedAreCut
<1> SUFFICES ASSUME MessagesInit, NEW m \in Mails
             PROVE  logs[m]["queued"] = Cardinality(AtIt(m)) + cut[m]
  BY DEF QueuedAreCut
<1>1. AtIt(m) = {}
  BY DEF MessagesInit, AtIt, Resting
<1>2. Cardinality(AtIt(m)) = 0
  BY <1>1, FS_EmptySet
<1> QED
  BY <1>2 DEF MessagesInit, LogStatuses

\* Types of the rows and of what the workers hold; the number of rows that are queued is
\* never negative, as they are those the workers are at, or died over.
THEOREM MessagesTypeCorrect == MessagesSpec => [](MessagesTypeOK /\ QueuedAreCut)
<1>1. MessagesInit => MessagesTypeOK /\ QueuedAreCut
  BY MessagesInitTyped, QueuedInit
<1>2. MessagesTypeOK /\ QueuedAreCut /\ [MessagesNext]_mailVars => (MessagesTypeOK /\ QueuedAreCut)'
  BY MessagesTypeStep, QueuedStep
<1> QED
  BY <1>1, <1>2, PTL DEF MessagesSpec
-----------------------------------------------------------------------------
(***************************************************************************)
(* What the log says and what the mail server took.                        *)
(***************************************************************************)

LEMMA AnswerSizes ==
  \A m : /\ Unanswered(m) \subseteq Senders /\ Confirmed(m) \subseteq Senders
         /\ IsFiniteSet(Senders)
  BY MessagesAssumption DEF Unanswered, Confirmed

LEMMA AnswersStep ==
  MessagesTypeOK /\ QueuedAreCut /\ AnswersAreTrue /\ [MessagesNext]_mailVars => AnswersAreTrue'
<1> SUFFICES ASSUME MessagesTypeOK, QueuedAreCut, AnswersAreTrue, [MessagesNext]_mailVars,
                    NEW m \in Mails
             PROVE  /\ logs'[m]["sent"] + Cardinality(Confirmed(m)') <= taken'[m]
                    /\ taken'[m] + Cardinality(Unanswered(m)')
                         <= logs'[m]["sent"] + logs'[m]["failed"] + logs'[m]["queued"]
  BY DEF AnswersAreTrue
<1> DEFINE C == Cardinality(Confirmed(m))
           U == Cardinality(Unanswered(m))
           Goal == /\ logs'[m]["sent"] + Cardinality(Confirmed(m)') <= taken'[m]
                   /\ taken'[m] + Cardinality(Unanswered(m)')
                         <= logs'[m]["sent"] + logs'[m]["failed"] + logs'[m]["queued"]
<1>1. /\ logs[m]["sent"] \in Nat /\ logs[m]["failed"] \in Nat /\ logs[m]["queued"] \in Nat
      /\ taken[m] \in Nat /\ C \in Nat /\ U \in Nat
      /\ logs[m]["sent"] + C <= taken[m]
      /\ taken[m] + U <= logs[m]["sent"] + logs[m]["failed"] + logs[m]["queued"]
      /\ Unanswered(m) \subseteq Senders /\ Confirmed(m) \subseteq Senders /\ IsFiniteSet(Senders)
  BY AnswerSizes, NoneMore DEF AnswersAreTrue, MessagesTypeOK, LogStatuses
<1>2. ASSUME Confirmed(m)' \subseteq Confirmed(m), Unanswered(m)' \subseteq Unanswered(m),
             logs'[m] = logs[m], taken'[m] = taken[m]
      PROVE  Goal
  <2>1. /\ Cardinality(Confirmed(m)') \in Nat /\ Cardinality(Confirmed(m)') <= C
        /\ Cardinality(Unanswered(m)') \in Nat /\ Cardinality(Unanswered(m)') <= U
    BY <1>1, <1>2, NoneMore
  <2> QED
    BY <1>1, <1>2, <2>1
<1>3. ASSUME NEW s \in Senders, Quiet(s)
      PROVE  Goal
  BY <1>2, <1>3, QuietAtIt
<1>4. ASSUME NEW s \in Senders, Queue(s)
      PROVE  Goal
  <2>1. PICK n \in Mails :
          /\ logs' = [logs EXCEPT ![n] = NewRow(@)]
          /\ job'[s].pc = "queued" /\ job'[s].mail = n
          /\ \A v \in Senders : v # s => job'[v] = job[v]
    BY <1>4, QueueDoes
  <2>2. taken' = taken
    BY <1>4 DEF Queue
  <2>3. Confirmed(m)' \subseteq Confirmed(m)
    BY <2>1 DEF Confirmed
  <2>4. CASE n = m
    <3>1. /\ logs'[m]["queued"] = logs[m]["queued"] + 1
          /\ logs'[m]["sent"] = logs[m]["sent"] /\ logs'[m]["failed"] = logs[m]["failed"]
      BY <2>1, <2>4, QueuedOne
    <3>2. Unanswered(m)' \subseteq Unanswered(m) \union {s}
      BY <2>1 DEF Unanswered
    <3>3. /\ Cardinality(Confirmed(m)') \in Nat /\ Cardinality(Confirmed(m)') <= C
      BY <1>1, <2>3, NoneMore
    <3>4. /\ Cardinality(Unanswered(m)') \in Nat /\ Cardinality(Unanswered(m)') <= U + 1
      BY <1>1, <3>2, OneMore
    <3> QED
      BY <1>1, <2>2, <3>1, <3>3, <3>4
  <2>5. CASE n # m
    <3>1. logs'[m] = logs[m]
      BY <2>1, <2>5, QueuedOne
    <3>2. Unanswered(m)' \subseteq Unanswered(m)
      BY <2>1, <2>5 DEF Unanswered
    <3> QED
      BY <1>2, <2>2, <2>3, <3>1, <3>2
  <2> QED
    BY <2>4, <2>5
<1>5. ASSUME NEW s \in Senders, Mock(s) \/ Record(s)
      PROVE  Goal
  <2>1. PICK l \in {"sent", "failed", "mocked"} :
           /\ job[s].mail \in Mails /\ logs[job[s].mail]["queued"] > 0
           /\ Logged(s, l)
           /\ l = "sent" <=> job[s].pc = "answered" /\ job[s].answer = "sent"
           /\ l = "mocked" <=> job[s].pc = "queued"
           /\ job'[s].pc \in {"next", "count"}
           /\ \A v \in Senders : v # s => job'[v] = job[v]
           /\ taken' = taken
    BY <1>5, RowGetsStatus
  <2>2. Confirmed(m)' \subseteq Confirmed(m) /\ Unanswered(m)' \subseteq Unanswered(m)
    BY <2>1 DEF Confirmed, Unanswered
  <2>3. CASE job[s].mail # m
    <3>1. logs'[m] = logs[m]
      BY <2>1, <2>3, LoggedOne
    <3> QED
      BY <1>2, <2>1, <2>2, <3>1
  <2>4. CASE job[s].mail = m
    <3>1. /\ logs'[m]["queued"] = logs[m]["queued"] - 1
          /\ logs'[m]["sent"] = IF l = "sent" THEN logs[m]["sent"] + 1 ELSE logs[m]["sent"]
          /\ logs'[m]["failed"] = IF l = "failed" THEN logs[m]["failed"] + 1 ELSE logs[m]["failed"]
      BY <2>1, <2>4, LoggedOne
    <3>2. /\ Cardinality(Confirmed(m)') \in Nat /\ Cardinality(Confirmed(m)') <= C
          /\ Cardinality(Unanswered(m)') \in Nat /\ Cardinality(Unanswered(m)') <= U
      BY <1>1, <2>2, NoneMore
    <3>3. l = "sent" => Cardinality(Confirmed(m)') + 1 <= C
      <4>1. l = "sent" => s \in Confirmed(m) /\ Confirmed(m)' \subseteq Confirmed(m) \ {s}
        BY <2>1, <2>4 DEF Confirmed
      <4> QED
        BY <1>1, <4>1, OneLess
    <3>4. l = "mocked" => Cardinality(Unanswered(m)') + 1 <= U
      <4>1. l = "mocked" => s \in Unanswered(m) /\ Unanswered(m)' \subseteq Unanswered(m) \ {s}
        BY <2>1, <2>4 DEF Unanswered
      <4> QED
        BY <1>1, <4>1, OneLess
    <3> QED
      BY <1>1, <2>1, <3>1, <3>2, <3>3, <3>4
  <2> QED
    BY <2>3, <2>4
<1>6. ASSUME NEW s \in Senders, HandOver(s)
      PROVE  Goal
  <2>1. PICK n \in Mails, answer \in {"sent", "failed"} :
           /\ job[s].mail = n /\ job[s].pc = "queued"
           /\ job'[s].pc = "answered" /\ job'[s].mail = n /\ job'[s].answer = answer
           /\ \A v \in Senders : v # s => job'[v] = job[v]
           /\ \A k \in Mails : k # n => taken'[k] = taken[k]
           /\ taken'[n] = taken[n] + 1 \/ (answer = "failed" /\ taken'[n] = taken[n])
           /\ logs' = logs
    BY <1>6, HandOverDoes
  <2>2. CASE n # m
    <3>1. Confirmed(m)' \subseteq Confirmed(m) /\ Unanswered(m)' \subseteq Unanswered(m)
      BY <2>1, <2>2 DEF Confirmed, Unanswered
    <3> QED
      BY <1>2, <2>1, <2>2, <3>1
  <2>3. CASE n = m
    <3>1. s \in Unanswered(m) /\ Unanswered(m)' \subseteq Unanswered(m) \ {s}
      BY <2>1, <2>3 DEF Unanswered
    <3>2. Cardinality(Unanswered(m)') \in Nat /\ Cardinality(Unanswered(m)') + 1 <= U
      BY <1>1, <3>1, OneLess
    <3>3. Confirmed(m)' \subseteq Confirmed(m) \union {s}
      BY <2>1 DEF Confirmed
    <3>4. answer = "failed" => Confirmed(m)' \subseteq Confirmed(m)
      BY <2>1 DEF Confirmed
    <3>5. /\ Cardinality(Confirmed(m)') \in Nat /\ Cardinality(Confirmed(m)') <= C + 1
      BY <1>1, <3>3, OneMore
    <3>6. answer = "failed" => Cardinality(Confirmed(m)') <= C
      BY <1>1, <3>4, NoneMore
    <3> QED
      BY <1>1, <2>1, <2>3, <3>2, <3>5, <3>6
  <2> QED
    BY <2>2, <2>3
<1>7. ASSUME NEW s \in Senders, Die(s)
      PROVE  Goal
  <2>1. job'[s].pc = "rest" /\ (\A v \in Senders : v # s => job'[v] = job[v])
        /\ UNCHANGED <<logs, taken>>
    BY <1>7, DieDoes DEF Resting
  <2>2. Confirmed(m)' \subseteq Confirmed(m) /\ Unanswered(m)' \subseteq Unanswered(m)
    BY <2>1 DEF Confirmed, Unanswered
  <2> QED
    BY <1>2, <2>1, <2>2
<1>8. ASSUME UNCHANGED <<job, logs, taken>>
      PROVE  Goal
  BY <1>2, <1>8 DEF Confirmed, Unanswered
<1>9. CASE \E p \in Movers : EditAddress(p)
  BY <1>8, <1>9 DEF EditAddress
<1>10. CASE UNCHANGED mailVars
  BY <1>8, <1>10 DEF mailVars
<1> QED
  BY <1>3, <1>4, <1>5, <1>6, <1>7, <1>9, <1>10, MessagesCases

\* Of send_event_email: whatever the server refuses or forgets to answer, and wherever a
\* worker dies, the log calls sent only what was taken, and misses nothing that was.
THEOREM LogsAlwaysTrue == MessagesSpec => []LogsTellTheTruth
<1>1. MessagesInit => AnswersAreTrue
  <2> SUFFICES ASSUME MessagesInit, NEW m \in Mails
               PROVE  /\ logs[m]["sent"] + Cardinality(Confirmed(m)) <= taken[m]
                      /\ taken[m] + Cardinality(Unanswered(m))
                           <= logs[m]["sent"] + logs[m]["failed"] + logs[m]["queued"]
    BY DEF AnswersAreTrue
  <2>1. Confirmed(m) = {} /\ Unanswered(m) = {}
    BY DEF MessagesInit, Confirmed, Unanswered, Resting
  <2>2. Cardinality(Confirmed(m)) = 0 /\ Cardinality(Unanswered(m)) = 0
    BY <2>1, FS_EmptySet
  <2> QED
    BY <2>2 DEF MessagesInit, LogStatuses
<1>2. MessagesTypeOK /\ QueuedAreCut /\ AnswersAreTrue => LogsTellTheTruth
  <2> SUFFICES ASSUME MessagesTypeOK, QueuedAreCut, AnswersAreTrue, NEW m \in Mails
               PROVE  /\ logs[m]["sent"] <= taken[m]
                      /\ taken[m] <= logs[m]["sent"] + logs[m]["failed"] + logs[m]["queued"]
    BY DEF LogsTellTheTruth
  <2>1. Cardinality(Confirmed(m)) \in Nat /\ Cardinality(Unanswered(m)) \in Nat
    BY AnswerSizes, NoneMore
  <2>2. /\ logs[m]["sent"] \in Nat /\ logs[m]["failed"] \in Nat /\ logs[m]["queued"] \in Nat
        /\ taken[m] \in Nat
    BY DEF MessagesTypeOK, LogStatuses
  <2> QED
    BY <2>1, <2>2 DEF AnswersAreTrue
<1> QED
  BY <1>1, <1>2, AnswersStep, MessagesTypeCorrect, PTL DEF MessagesSpec
-----------------------------------------------------------------------------
(***************************************************************************)
(* How many copies of an e-mail there are.                                 *)
(***************************************************************************)

LEMMA RowsTyped == ASSUME MessagesTypeOK, NEW m \in Mails PROVE Rows(m) \in Nat
  BY DEF MessagesTypeOK, LogStatuses, Rows

\* A new row is one row more, of that e-mail.
LEMMA QueueAddsRow ==
  ASSUME MessagesTypeOK, NEW n \in Mails, logs' = [logs EXCEPT ![n] = NewRow(@)], NEW m \in Mails
  PROVE  Rows(m)' = IF m = n THEN Rows(m) + 1 ELSE Rows(m)
<1>1. \A l \in LogStatuses : logs[m][l] \in Nat
  BY DEF MessagesTypeOK
<1>2. CASE m = n
  <2>1. /\ logs'[m]["queued"] = logs[m]["queued"] + 1
        /\ \A l \in {"sent", "failed", "mocked"} : logs'[m][l] = logs[m][l]
    BY <1>2, QueuedOne
  <2> QED
    BY <1>1, <1>2, <2>1 DEF Rows, LogStatuses
<1>3. CASE m # n
  <2>1. logs'[m] = logs[m]
    BY <1>3, QueuedOne
  <2> QED
    BY <1>3, <2>1 DEF Rows
<1> QED
  BY <1>2, <1>3

\* A row that gets its status stays a row.
LEMMA StatusKeepsRows ==
  ASSUME MessagesTypeOK, QueuedAreCut, NEW s \in Senders, Mock(s) \/ Record(s), NEW m \in Mails
  PROVE  Rows(m)' = Rows(m)
<1>1. \A l \in LogStatuses : logs[m][l] \in Nat
  BY DEF MessagesTypeOK
<1>2. PICK l \in {"sent", "failed", "mocked"} :
        job[s].mail \in Mails /\ logs[job[s].mail]["queued"] > 0 /\ Logged(s, l)
  BY RowGetsStatus
<1>3. CASE m = job[s].mail
  <2>1. /\ logs'[m]["queued"] = logs[m]["queued"] - 1
        /\ logs'[m]["sent"] = IF l = "sent" THEN logs[m]["sent"] + 1 ELSE logs[m]["sent"]
        /\ logs'[m]["failed"] = IF l = "failed" THEN logs[m]["failed"] + 1 ELSE logs[m]["failed"]
        /\ logs'[m]["mocked"] = IF l = "mocked" THEN logs[m]["mocked"] + 1 ELSE logs[m]["mocked"]
    BY <1>2, <1>3, LoggedOne
  <2> QED
    BY <1>1, <2>1 DEF Rows, LogStatuses
<1>4. CASE m # job[s].mail
  <2>1. logs'[m] = logs[m]
    BY <1>2, <1>4, LoggedOne
  <2> QED
    BY <2>1 DEF Rows
<1> QED
  BY <1>3, <1>4

\* No step takes a row away.
LEMMA RowsGrow ==
  ASSUME MessagesTypeOK, QueuedAreCut, [MessagesNext]_mailVars, NEW m \in Mails
  PROVE  Rows(m) \in Nat /\ Rows(m)' \in Nat /\ Rows(m) <= Rows(m)'
<1>1. Rows(m) \in Nat
  BY RowsTyped
<1>2. ASSUME NEW s \in Senders, Queue(s)
      PROVE  Rows(m)' \in {Rows(m), Rows(m) + 1}
  <2>1. PICK n \in Mails : logs' = [logs EXCEPT ![n] = NewRow(@)]
    BY <1>2, QueueDoes
  <2> QED
    BY <2>1, QueueAddsRow
<1>3. ASSUME logs' = logs
      PROVE  Rows(m)' = Rows(m)
  BY <1>3 DEF Rows
<1>4. ASSUME NEW s \in Senders, Quiet(s) \/ HandOver(s) \/ Die(s)
      PROVE  Rows(m)' = Rows(m)
  BY <1>3, <1>4, QuietElsewhere, HandOverDoes, DieDoes
<1>5. CASE (\E p \in Movers : EditAddress(p)) \/ UNCHANGED mailVars
  BY <1>1, <1>3, <1>5 DEF EditAddress, mailVars
<1> QED
  BY <1>1, <1>2, <1>4, <1>5, StatusKeepsRows, MessagesCases

\* A quiet step loads a list, and then the worker had none before, or it begins nothing.
LEMMA QuietBegins ==
  ASSUME MessagesTypeOK, NEW s \in Senders, Quiet(s)
  PROVE  \/ /\ begun' = begun
            /\ job'[s].pc \in Mailing =>
                 job[s].pc \in Mailing /\ job'[s].todo = job[s].todo
         \/ \E list \in SUBSET Mails :
              /\ begun' = [m \in Mails |-> IF m \in list THEN begun[m] + 1 ELSE begun[m]]
              /\ job[s].pc \notin Mailing
              /\ job'[s].pc = "next" /\ job'[s].todo = list
<1> DEFINE Starts == \E list \in SUBSET Mails :
                       /\ begun' = [m \in Mails |-> IF m \in list THEN begun[m] + 1 ELSE begun[m]]
                       /\ job[s].pc \notin Mailing
                       /\ job'[s].pc = "next" /\ job'[s].todo = list
           Goes == /\ begun' = begun
                   /\ job'[s].pc \in Mailing =>
                        job[s].pc \in Mailing /\ job'[s].todo = job[s].todo
<1>1. ASSUME NEW task, NEW list \in SUBSET Mails, NEW counts, job[s].pc \notin Mailing,
             Begun(list), Does(s, Sending(task, list, counts))
      PROVE  Starts
  <2>1. job'[s] = Sending(task, list, counts)
    BY <1>1, DoesOne
  <2> QED
    BY <1>1, <2>1 DEF Sending, Begun
<1>2. ASSUME NEW j, Does(s, j), j.pc \notin Mailing, begun' = begun
      PROVE  Goes
  BY <1>2, DoesOne
<1>3. CASE LoadList(s)
  <2>1. PICK b \in Broadcasts : b = job[s].task
    BY <1>3, JobShape DEF LoadList, Listing
  <2>2. PICK list : list = IF broadcast[b].channel = "email"
                             THEN {b} \X (Audience[b] \intersect reachable) ELSE {}
    OBVIOUS
  <2>3. list \in SUBSET Mails
    BY <2>2, AddressedAreMails
  <2>4. Begun(list) /\ Does(s, Sending(b, list, [d \in Diplomas |-> 0])) /\ job[s].pc \notin Mailing
    BY <1>3, <2>1, <2>2 DEF LoadList, Mailing
  <2> QED
    BY <1>1, <2>3, <2>4
<1>4. CASE Finish(s) \/ SaveBroadcast(s) \/ SaveDiploma(s)
  BY <1>2, <1>4 DEF Finish, SaveBroadcast, SaveDiploma, Resting, Mailing
<1>5. CASE Count(s)
  <2>1. begun' = begun /\ job[s].pc = "count" /\ job'[s] = Onward(job[s])
    BY <1>5, DoesOne DEF Count
  <2> QED
    BY <2>1 DEF Onward, Mailing
<1>6. ASSUME NEW b \in Broadcasts, NEW channel, NEW now \in BOOLEAN, Compose(s, b, channel, now)
      PROVE  Goes
  <2>1. (job' = job \/ Does(s, [pc |-> "list", task |-> b])) /\ begun' = begun /\ job[s].pc = "rest"
    BY <1>6 DEF Compose, Resting
  <2> QED
    BY <1>2, <2>1 DEF Mailing
<1>7. ASSUME NEW b \in Broadcasts, Send(s, b) \/ DeleteBroadcast(s, b)
      PROVE  Goes
  <2>1. (job' = job \/ Does(s, [pc |-> "list", task |-> b])) /\ begun' = begun /\ job[s].pc = "rest"
    BY <1>7 DEF Send, DeleteBroadcast, Resting
  <2> QED
    BY <1>2, <2>1 DEF Mailing
<1>8. ASSUME NEW b \in Broadcasts, NEW x, LoadBroadcast(s, b, x)
      PROVE  Goes
  BY <1>2, <1>8 DEF LoadBroadcast, Mailing
<1>9. ASSUME NEW m \in Mails, Write(s, m) \/ Resend(s, m)
      PROVE  Starts
  <2>1. job[s].pc \notin Mailing /\ {m} \in SUBSET Mails
    BY <1>9 DEF Write, Resend, Resting, Mailing
  <2> QED
    BY <1>1, <1>9, <2>1 DEF Write, Resend
<1>10. ASSUME NEW D \in SUBSET Diplomas, SendDiplomas(s, D)
       PROVE  Starts
  <2>1. PICK list : list = {<<d, Addressee[d]>> : d \in {c \in D : Addressee[c] \in reachable}}
    OBVIOUS
  <2>2. list \in SUBSET Mails
    BY <2>1, AddressedAreMails
  <2>3. job[s].pc \notin Mailing /\ Begun(list) /\ Does(s, Sending("diplomas", list, sentCount))
    BY <1>10, <2>1 DEF SendDiplomas, Resting, Mailing
  <2> QED
    BY <1>1, <2>2, <2>3
<1>11. ASSUME NEW d \in Diplomas, LoadDiploma(s, d)
       PROVE  Goes
  BY <1>2, <1>11 DEF LoadDiploma, Mailing
<1> QED
  BY <1>3, <1>4, <1>5, <1>6, <1>7, <1>8, <1>9, <1>10, <1>11 DEF Quiet, Ask

\* What is still due of an e-mail is due to workers.
LEMMA DueSizes == \A m : Due(m) \subseteq Senders /\ IsFiniteSet(Senders)
  BY MessagesAssumption DEF Due

LEMMA CopiesStep ==
  MessagesTypeOK /\ QueuedAreCut /\ CopiesAndDue /\ [MessagesNext]_mailVars => CopiesAndDue'
<1> SUFFICES ASSUME MessagesTypeOK, QueuedAreCut, CopiesAndDue, [MessagesNext]_mailVars,
                    NEW m \in Mails
             PROVE  Rows(m)' + Cardinality(Due(m)') <= begun'[m]
  BY DEF CopiesAndDue
<1> DEFINE Goal == Rows(m)' + Cardinality(Due(m)') <= begun'[m]
<1>1. /\ Rows(m) \in Nat /\ Cardinality(Due(m)) \in Nat /\ begun[m] \in Nat
      /\ Rows(m) + Cardinality(Due(m)) <= begun[m]
      /\ Due(m) \subseteq Senders /\ IsFiniteSet(Senders)
  BY RowsTyped, DueSizes, NoneMore DEF CopiesAndDue, MessagesTypeOK
<1>2. ASSUME Rows(m)' = Rows(m), begun'[m] = begun[m], Due(m)' \subseteq Due(m)
      PROVE  Goal
  <2>1. Cardinality(Due(m)') \in Nat /\ Cardinality(Due(m)') <= Cardinality(Due(m))
    BY <1>1, <1>2, NoneMore
  <2> QED
    BY <1>1, <1>2, <2>1
<1>3. ASSUME NEW s \in Senders, Quiet(s)
      PROVE  Goal
  <2>1. logs' = logs /\ \A v \in Senders : v # s => job'[v] = job[v]
    BY <1>3, QuietElsewhere
  <2>2. Rows(m)' = Rows(m)
    BY <2>1 DEF Rows
  <2>3. CASE /\ begun' = begun
             /\ job'[s].pc \in Mailing => job[s].pc \in Mailing /\ job'[s].todo = job[s].todo
    <3>1. Due(m)' \subseteq Due(m)
      BY <2>1, <2>3 DEF Due
    <3> QED
      BY <1>2, <2>2, <2>3, <3>1
  <2>4. ASSUME NEW list \in SUBSET Mails,
               begun' = [n \in Mails |-> IF n \in list THEN begun[n] + 1 ELSE begun[n]],
               job[s].pc \notin Mailing, job'[s].pc = "next", job'[s].todo = list
        PROVE  Goal
    <3>1. CASE m \in list
      <4>1. Due(m)' \subseteq Due(m) \union {s}
        BY <2>1 DEF Due
      <4>2. Cardinality(Due(m)') \in Nat /\ Cardinality(Due(m)') <= Cardinality(Due(m)) + 1
        BY <1>1, <4>1, OneMore
      <4>3. begun'[m] = begun[m] + 1
        BY <2>4, <3>1
      <4> QED
        BY <1>1, <2>2, <4>2, <4>3
    <3>2. CASE m \notin list
      <4>1. Due(m)' \subseteq Due(m) /\ begun'[m] = begun[m]
        BY <2>1, <2>4, <3>2 DEF Due
      <4> QED
        BY <1>2, <2>2, <4>1
    <3> QED
      BY <3>1, <3>2
  <2> QED
    BY <1>3, <2>3, <2>4, QuietBegins
<1>4. ASSUME NEW s \in Senders, Queue(s)
      PROVE  Goal
  <2>1. PICK n \in Mails :
          /\ n \in job[s].todo /\ logs' = [logs EXCEPT ![n] = NewRow(@)]
          /\ job'[s].pc = "queued" /\ job'[s].todo = job[s].todo \ {n}
          /\ \A v \in Senders : v # s => job'[v] = job[v]
    BY <1>4, QueueDoes
  <2>2. begun' = begun /\ job[s].pc = "next"
    BY <1>4 DEF Queue
  <2>3. CASE n = m
    <3>1. s \in Due(m) /\ Due(m)' \subseteq Due(m) \ {s}
      BY <2>1, <2>2, <2>3 DEF Due, Mailing
    <3>2. Cardinality(Due(m)') \in Nat /\ Cardinality(Due(m)') + 1 <= Cardinality(Due(m))
      BY <1>1, <3>1, OneLess
    <3>3. Rows(m)' = Rows(m) + 1
      BY <2>1, <2>3, QueueAddsRow
    <3> QED
      BY <1>1, <2>2, <3>2, <3>3
  <2>4. CASE n # m
    <3>1. Due(m)' \subseteq Due(m)
      BY <2>1, <2>2, <2>4 DEF Due, Mailing
    <3>2. Rows(m)' = Rows(m)
      BY <2>1, <2>4, QueueAddsRow
    <3> QED
      BY <1>2, <2>2, <3>1, <3>2
  <2> QED
    BY <2>3, <2>4
<1>5. ASSUME NEW s \in Senders, Mock(s) \/ Record(s)
      PROVE  Goal
  <2>1. job'[s] = Done(job[s]) /\ \A v \in Senders : v # s => job'[v] = job[v]
    BY <1>5, RowGetsStatus
  <2>2. job[s] \in AtMail /\ job[s].pc \in Mailing /\ begun' = begun
    BY <1>5, JobShape DEF Mock, Record, Mailing
  <2>3. Due(m)' \subseteq Due(m)
    BY <2>1, <2>2, DoneTyped DEF Due
  <2> QED
    BY <1>2, <1>5, <2>2, <2>3, StatusKeepsRows
<1>6. ASSUME NEW s \in Senders, HandOver(s)
      PROVE  Goal
  <2>1. /\ job[s].pc = "queued" /\ job'[s].pc = "answered" /\ job'[s].todo = job[s].todo
        /\ \A v \in Senders : v # s => job'[v] = job[v]
        /\ logs' = logs
    BY <1>6, HandOverDoes
  <2>2. begun' = begun /\ Rows(m)' = Rows(m)
    BY <1>6, <2>1 DEF HandOver, Rows
  <2>3. Due(m)' \subseteq Due(m)
    BY <2>1 DEF Due, Mailing
  <2> QED
    BY <1>2, <2>2, <2>3
<1>7. ASSUME NEW s \in Senders, Die(s)
      PROVE  Goal
  <2>1. job'[s].pc = "rest" /\ (\A v \in Senders : v # s => job'[v] = job[v]) /\ logs' = logs
    BY <1>7, DieDoes DEF Resting
  <2>2. begun' = begun /\ Rows(m)' = Rows(m) /\ Due(m)' \subseteq Due(m)
    BY <1>7, <2>1 DEF Die, Rows, Due, Mailing
  <2> QED
    BY <1>2, <2>2
<1>8. ASSUME UNCHANGED <<job, logs, begun>>
      PROVE  Goal
  BY <1>2, <1>8 DEF Rows, Due
<1>9. CASE \E p \in Movers : EditAddress(p)
  BY <1>8, <1>9 DEF EditAddress
<1>10. CASE UNCHANGED mailVars
  BY <1>8, <1>10 DEF mailVars
<1> QED
  BY <1>3, <1>4, <1>5, <1>6, <1>7, <1>9, <1>10, MessagesCases

\* However many workers send the same broadcast, resend and die: an e-mail has at most one
\* row for each sending that had it on its list.
THEOREM CopiesAlwaysBounded == MessagesSpec => []CopiesAreBounded
<1>1. MessagesInit => CopiesAndDue
  <2> SUFFICES ASSUME MessagesInit, NEW m \in Mails
               PROVE  Rows(m) + Cardinality(Due(m)) <= begun[m]
    BY DEF CopiesAndDue
  <2>1. Due(m) = {}
    BY DEF MessagesInit, Due, Resting, Mailing
  <2>2. Cardinality(Due(m)) = 0
    BY <2>1, FS_EmptySet
  <2> QED
    BY <2>2 DEF MessagesInit, LogStatuses, Rows
<1>2. MessagesTypeOK /\ CopiesAndDue => CopiesAreBounded
  <2> SUFFICES ASSUME MessagesTypeOK, CopiesAndDue, NEW m \in Mails
               PROVE  Rows(m) <= begun[m]
    BY DEF CopiesAreBounded
  <2>1. Rows(m) \in Nat /\ Cardinality(Due(m)) \in Nat /\ begun[m] \in Nat
    BY RowsTyped, DueSizes, NoneMore DEF MessagesTypeOK
  <2> QED
    BY <2>1 DEF CopiesAndDue
<1> QED
  BY <1>1, <1>2, CopiesStep, MessagesTypeCorrect, PTL DEF MessagesSpec
-----------------------------------------------------------------------------
(***************************************************************************)
(* The counters of the certificates.                                       *)
(***************************************************************************)

LEMMA CopiesGrow ==
  ASSUME MessagesTypeOK, QueuedAreCut, [MessagesNext]_mailVars, NEW d \in Diplomas
  PROVE  Copies(d) \in Nat /\ Copies(d)' \in Nat /\ Copies(d) <= Copies(d)'
  BY RowsGrow, AddressedAreMails DEF Copies

\* A worker that does nothing holds nothing it should not.
LEMMA StaysBacked ==
  ASSUME MessagesTypeOK, QueuedAreCut, [MessagesNext]_mailVars,
         NEW v \in Senders, HeldIsBacked(v), job'[v] = job[v]
  PROVE  HeldIsBacked(v)'
<1>1. \A d \in Diplomas : Copies(d) \in Nat /\ Copies(d)' \in Nat /\ Copies(d) <= Copies(d)'
  BY CopiesGrow
<1>2. job[v].pc = "diploma" => job[v].diploma \in Diplomas /\ job[v].count \in Nat
  BY JobShape DEF Holding
<1>3. job[v].pc \in Mailing => job[v].counts \in [Diplomas -> Nat]
  BY JobShape DEF Between, AtMail, Mailing
<1>4. job[v].pc = "diploma" => job[v].count <= Copies(job[v].diploma)'
  BY <1>1, <1>2 DEF HeldIsBacked
<1>5. job[v].pc \in Mailing /\ job[v].task = "diplomas" =>
        /\ job[v].todo \subseteq {<<d, Addressee[d]>> : d \in Diplomas}
        /\ \A d \in Diplomas : job[v].counts[d] <= Copies(d)'
  BY <1>1, <1>3 DEF HeldIsBacked
<1>6. job[v].pc \in {"queued", "answered", "count"} /\ job[v].task = "diplomas" =>
        \E d \in Diplomas : job[v].mail = <<d, Addressee[d]>> /\ job[v].counts[d] < Copies(d)'
  <2> SUFFICES ASSUME job[v].pc \in {"queued", "answered", "count"}, job[v].task = "diplomas"
               PROVE  \E d \in Diplomas : job[v].mail = <<d, Addressee[d]>>
                                          /\ job[v].counts[d] < Copies(d)'
    OBVIOUS
  <2>1. PICK d \in Diplomas : job[v].mail = <<d, Addressee[d]>> /\ job[v].counts[d] < Copies(d)
    BY DEF HeldIsBacked
  <2>2. job[v].counts[d] \in Nat
    BY <1>3 DEF Mailing
  <2> QED
    BY <1>1, <2>1, <2>2
<1> QED
  BY <1>4, <1>5, <1>6 DEF HeldIsBacked, Copies

\* Nor does one that holds neither certificates nor counters.
LEMMA NothingToBack ==
  ASSUME NEW v, NEW pc, job'[v].pc = pc, pc # "diploma", pc # "count",
         pc \in Mailing => job'[v].task # "diplomas"
  PROVE  HeldIsBacked(v)'
  BY DEF HeldIsBacked, Mailing

LEMMA QuietBacked ==
  ASSUME MessagesTypeOK, QueuedAreCut, CountersAreBacked, [MessagesNext]_mailVars,
         NEW s \in Senders, Quiet(s)
  PROVE  HeldIsBacked(s)' /\ \A d \in Diplomas : sentCount'[d] <= Copies(d)'
<1> DEFINE Backed == \A d \in Diplomas : sentCount'[d] <= Copies(d)'
<1>1. \A d \in Diplomas : /\ Copies(d) \in Nat /\ Copies(d)' \in Nat /\ Copies(d) <= Copies(d)'
                          /\ sentCount[d] \in Nat /\ sentCount[d] <= Copies(d)
  BY CopiesGrow DEF CountersAreBacked, MessagesTypeOK
<1>2. ASSUME sentCount' = sentCount
      PROVE  Backed
  BY <1>1, <1>2
<1>3. ASSUME NEW j, Does(s, j), j.pc \notin Mailing \union {"diploma"}
      PROVE  HeldIsBacked(s)'
  <2>1. job'[s] = j
    BY <1>3, DoesOne
  <2> QED
    BY <1>3, <2>1, NothingToBack DEF Mailing
<1>4. ASSUME NEW task, NEW list, NEW counts, Does(s, Sending(task, list, counts)), task # "diplomas"
      PROVE  HeldIsBacked(s)'
  <2>1. job'[s].pc = "next" /\ job'[s].task = task
    BY <1>4, DoesOne DEF Sending
  <2> QED
    BY <1>4, <2>1, NothingToBack
<1>5. HeldIsBacked(s)
  BY DEF CountersAreBacked
<1>6. CASE LoadList(s)
  <2>1. job[s].task \in Broadcasts /\ sentCount' = sentCount
    BY <1>6, JobShape DEF LoadList, Listing
  <2>2. job[s].task # "diplomas"
    BY <2>1, MessagesAssumption
  <2> QED
    BY <1>2, <1>4, <1>6, <2>1, <2>2 DEF LoadList
<1>7. CASE Finish(s) \/ SaveBroadcast(s)
  <2>1. Does(s, Resting) /\ sentCount' = sentCount
    BY <1>7 DEF Finish, SaveBroadcast
  <2> QED
    BY <1>2, <1>3, <2>1 DEF Resting, Mailing
<1>8. CASE SaveDiploma(s)
  <2>1. /\ job[s].diploma \in Diplomas /\ job[s].count \in Nat
        /\ job[s].count <= Copies(job[s].diploma)
    BY <1>5, <1>8, JobShape DEF SaveDiploma, Holding, HeldIsBacked
  <2>2. sentCount' = [sentCount EXCEPT ![job[s].diploma] = job[s].count] /\ Does(s, Resting)
    BY <1>8 DEF SaveDiploma
  <2>3. \A d \in Diplomas : sentCount'[d] = IF d = job[s].diploma THEN job[s].count ELSE sentCount[d]
    BY <2>2 DEF MessagesTypeOK
  <2>4. Backed
    BY <1>1, <2>1, <2>3
  <2> QED
    BY <1>3, <2>2, <2>4 DEF Resting, Mailing
<1>9. CASE Count(s)
  <2>1. job[s].pc = "count" /\ job[s].task = "diplomas" /\ job[s] \in AtMail
    BY <1>5, <1>9, JobShape DEF Count, HeldIsBacked
  <2>2. PICK d \in Diplomas : job[s].mail = <<d, Addressee[d]>> /\ job[s].counts[d] < Copies(d)
    BY <1>5, <2>1 DEF HeldIsBacked
  <2>3. job[s].counts \in [Diplomas -> Nat]
    BY <2>1 DEF AtMail
  <2>4. job[s].mail[1] = d
    BY <2>2
  <2>5. sentCount' = [sentCount EXCEPT ![d] = job[s].counts[d] + 1] /\ Does(s, Onward(job[s]))
    BY <1>9, <2>4 DEF Count
  <2>6. \A e \in Diplomas : sentCount'[e] = IF e = d THEN job[s].counts[d] + 1 ELSE sentCount[e]
    BY <2>5 DEF MessagesTypeOK
  <2>7. Backed
    BY <1>1, <2>2, <2>3, <2>6
  <2>8. job'[s] = Onward(job[s])
    BY <2>5, DoesOne
  <2>9. /\ job'[s].pc = "next" /\ job'[s].task = "diplomas"
        /\ job'[s].todo = job[s].todo /\ job'[s].counts = job[s].counts
    BY <2>1, <2>8 DEF Onward
  <2>10. /\ job[s].todo \subseteq {<<e, Addressee[e]>> : e \in Diplomas}
         /\ \A e \in Diplomas : job[s].counts[e] <= Copies(e)
    BY <1>5, <2>1 DEF HeldIsBacked, Mailing
  <2>11. \A e \in Diplomas : job'[s].counts[e] <= Copies(e)'
    BY <1>1, <2>3, <2>9, <2>10
  <2> QED
    BY <2>7, <2>9, <2>10, <2>11 DEF HeldIsBacked
<1>10. ASSUME NEW b \in Broadcasts, NEW channel, NEW now \in BOOLEAN, Compose(s, b, channel, now)
       PROVE  HeldIsBacked(s)' /\ Backed
  <2>1. (job' = job \/ Does(s, [pc |-> "list", task |-> b])) /\ sentCount' = sentCount
    BY <1>10 DEF Compose
  <2> QED
    BY <1>2, <1>3, <1>5, <2>1, StaysBacked DEF Mailing
<1>11. ASSUME NEW b \in Broadcasts, Send(s, b) \/ DeleteBroadcast(s, b)
       PROVE  HeldIsBacked(s)' /\ Backed
  <2>1. (job' = job \/ Does(s, [pc |-> "list", task |-> b])) /\ sentCount' = sentCount
    BY <1>11 DEF Send, DeleteBroadcast
  <2> QED
    BY <1>2, <1>3, <1>5, <2>1, StaysBacked DEF Mailing
<1>12. ASSUME NEW b \in Broadcasts, NEW x, LoadBroadcast(s, b, x)
       PROVE  HeldIsBacked(s)' /\ Backed
  BY <1>2, <1>3, <1>12 DEF LoadBroadcast, Mailing
<1>13. ASSUME NEW m \in Mails, Write(s, m) \/ Resend(s, m)
       PROVE  HeldIsBacked(s)' /\ Backed
  BY <1>2, <1>4, <1>13 DEF Write, Resend
<1>14. ASSUME NEW D \in SUBSET Diplomas, SendDiplomas(s, D)
       PROVE  HeldIsBacked(s)' /\ Backed
  <2>1. PICK list : list = {<<d, Addressee[d]>> : d \in {c \in D : Addressee[c] \in reachable}}
    OBVIOUS
  <2>2. list \subseteq {<<d, Addressee[d]>> : d \in Diplomas}
    BY <2>1
  <2>3. Does(s, Sending("diplomas", list, sentCount)) /\ sentCount' = sentCount
    BY <1>14, <2>1 DEF SendDiplomas
  <2>4. /\ job'[s].pc = "next" /\ job'[s].task = "diplomas"
        /\ job'[s].todo = list /\ job'[s].counts = sentCount
    BY <2>3, DoesOne DEF Sending
  <2>5. \A d \in Diplomas : job'[s].counts[d] <= Copies(d)'
    BY <1>1, <2>4
  <2> QED
    BY <1>2, <2>2, <2>3, <2>4, <2>5 DEF HeldIsBacked
<1>15. ASSUME NEW d \in Diplomas, LoadDiploma(s, d)
       PROVE  HeldIsBacked(s)' /\ Backed
  <2>1. sentCount' = sentCount /\ Does(s, [pc |-> "diploma", diploma |-> d, count |-> sentCount[d]])
    BY <1>15 DEF LoadDiploma
  <2>2. job'[s] = [pc |-> "diploma", diploma |-> d, count |-> sentCount[d]]
    BY <2>1, DoesOne
  <2>3. job'[s].pc = "diploma" /\ job'[s].diploma = d /\ job'[s].count = sentCount[d]
    BY <2>2
  <2>4. job'[s].count <= Copies(d)'
    BY <1>1, <2>3
  <2> QED
    BY <1>2, <2>1, <2>3, <2>4 DEF HeldIsBacked, Copies, Mailing
<1> QED
  BY <1>6, <1>7, <1>8, <1>9, <1>10, <1>11, <1>12, <1>13, <1>14, <1>15 DEF Quiet, Ask

LEMMA AtMailBacked ==
  ASSUME MessagesTypeOK, QueuedAreCut, CountersAreBacked, [MessagesNext]_mailVars,
         NEW s \in Senders, Queue(s) \/ Mock(s) \/ Record(s) \/ HandOver(s)
  PROVE  HeldIsBacked(s)'
<1>1. /\ HeldIsBacked(s) /\ job[s].pc \in {"next", "queued", "answered"}
      /\ job[s].pc \in Mailing /\ job[s].counts \in [Diplomas -> Nat]
  BY JobShape DEF CountersAreBacked, Queue, Mock, Record, HandOver, Between, AtMail, Mailing
<1>2. \A d \in Diplomas : Copies(d) \in Nat /\ Copies(d)' \in Nat /\ Copies(d) <= Copies(d)'
  BY CopiesGrow
<1>3. ASSUME NEW pc, job'[s].pc = pc, pc \in Mailing,
             job'[s].task = job[s].task, job'[s].todo \subseteq job[s].todo,
             job'[s].counts = job[s].counts,
             pc = "count" => job[s].task = "diplomas",
             pc # "next" /\ job[s].task = "diplomas" =>
               \E d \in Diplomas : job'[s].mail = <<d, Addressee[d]>> /\ job[s].counts[d] < Copies(d)'
      PROVE  HeldIsBacked(s)'
  <2>1. job[s].task = "diplomas" =>
          /\ job'[s].todo \subseteq {<<d, Addressee[d]>> : d \in Diplomas}
          /\ \A d \in Diplomas : job'[s].counts[d] <= Copies(d)'
    BY <1>1, <1>2, <1>3 DEF HeldIsBacked
  <2> QED
    BY <1>3, <2>1 DEF HeldIsBacked, Mailing
<1>4. CASE Queue(s)
  <2>1. PICK m \in Mails :
           /\ m \in job[s].todo
           /\ logs' = [logs EXCEPT ![m] = NewRow(@)]
           /\ job'[s].pc = "queued" /\ job'[s].mail = m
           /\ job'[s].todo = job[s].todo \ {m}
           /\ job'[s].task = job[s].task /\ job'[s].counts = job[s].counts
    BY <1>4, QueueDoes
  <2>2. ASSUME job[s].task = "diplomas"
        PROVE  \E d \in Diplomas : job'[s].mail = <<d, Addressee[d]>> /\ job[s].counts[d] < Copies(d)'
    <3>1. PICK d \in Diplomas : m = <<d, Addressee[d]>>
      BY <1>1, <2>1, <2>2 DEF HeldIsBacked
    <3>2. Copies(d)' = Copies(d) + 1
      BY <2>1, <3>1, QueueAddsRow DEF Copies
    <3>3. job[s].counts[d] <= Copies(d) /\ job[s].counts[d] \in Nat
      BY <1>1, <2>2 DEF HeldIsBacked
    <3> QED
      BY <1>2, <2>1, <3>1, <3>2, <3>3
  <2> QED
    BY <1>3, <2>1, <2>2 DEF Mailing
<1>5. ASSUME job[s].pc \in {"queued", "answered"}, job[s].task = "diplomas"
      PROVE  \E d \in Diplomas : job[s].mail = <<d, Addressee[d]>> /\ job[s].counts[d] < Copies(d)'
  <2>1. PICK d \in Diplomas : job[s].mail = <<d, Addressee[d]>> /\ job[s].counts[d] < Copies(d)
    BY <1>1, <1>5 DEF HeldIsBacked
  <2>2. job[s].counts[d] \in Nat
    BY <1>1
  <2> QED
    BY <1>2, <2>1, <2>2
<1>6. CASE Mock(s) \/ Record(s)
  <2>1. job'[s] = Done(job[s]) /\ job[s] \in AtMail /\ job[s].pc \in {"queued", "answered"}
    BY <1>6, RowGetsStatus, JobShape DEF Mock, Record
  <2>2. /\ job'[s].pc \in {"next", "count"} /\ job'[s].todo = job[s].todo
        /\ job'[s].task = job[s].task /\ job'[s].counts = job[s].counts
        /\ job'[s].pc = "count" => job'[s].mail = job[s].mail
    BY <2>1, DoneTyped
  <2>3. job'[s].pc = "count" => job[s].task = "diplomas"
    BY <2>1 DEF Done, Onward
  <2> QED
    BY <1>3, <1>5, <2>1, <2>2, <2>3 DEF Mailing
<1>7. CASE HandOver(s)
  <2>1. /\ job[s].pc = "queued" /\ job'[s].pc = "answered" /\ job'[s].mail = job[s].mail
        /\ job'[s].todo = job[s].todo
        /\ job'[s].task = job[s].task /\ job'[s].counts = job[s].counts
    BY <1>7, HandOverDoes
  <2> QED
    BY <1>3, <1>5, <2>1 DEF Mailing
<1> QED
  BY <1>4, <1>6, <1>7

LEMMA CountersStep ==
  MessagesTypeOK /\ QueuedAreCut /\ CountersAreBacked /\ [MessagesNext]_mailVars
    => CountersAreBacked'
<1> SUFFICES ASSUME MessagesTypeOK, QueuedAreCut, CountersAreBacked, [MessagesNext]_mailVars
             PROVE  CountersAreBacked'
  OBVIOUS
<1>1. ASSUME NEW s \in Senders, HeldIsBacked(s)', \A v \in Senders : v # s => job'[v] = job[v],
             \A d \in Diplomas : sentCount'[d] <= Copies(d)'
      PROVE  CountersAreBacked'
  <2>1. \A v \in Senders : HeldIsBacked(v)'
    BY <1>1, StaysBacked DEF CountersAreBacked
  <2> QED
    BY <1>1, <2>1 DEF CountersAreBacked
<1>2. ASSUME sentCount' = sentCount, NEW d \in Diplomas
      PROVE  sentCount'[d] <= Copies(d)'
  BY <1>2, CopiesGrow DEF CountersAreBacked, MessagesTypeOK
<1>3. ASSUME NEW s \in Senders, Quiet(s)
      PROVE  CountersAreBacked'
  BY <1>1, <1>3, QuietBacked, QuietElsewhere
<1>4. ASSUME NEW s \in Senders, Queue(s) \/ Mock(s) \/ Record(s) \/ HandOver(s)
      PROVE  CountersAreBacked'
  <2>1. sentCount' = sentCount
    BY <1>4 DEF Queue, Mock, Record, HandOver
  <2>2. \A v \in Senders : v # s => job'[v] = job[v]
    BY <1>4, QueueDoes, RowGetsStatus, HandOverDoes
  <2> QED
    BY <1>1, <1>2, <1>4, <2>1, <2>2, AtMailBacked
<1>5. ASSUME NEW s \in Senders, Die(s)
      PROVE  CountersAreBacked'
  <2>1. job'[s].pc = "rest" /\ (\A v \in Senders : v # s => job'[v] = job[v]) /\ sentCount' = sentCount
    BY <1>5, DieDoes DEF Die, Resting
  <2>2. HeldIsBacked(s)'
    BY <2>1, NothingToBack DEF Mailing
  <2> QED
    BY <1>1, <1>2, <2>1, <2>2
<1>6. CASE (\E p \in Movers : EditAddress(p)) \/ UNCHANGED mailVars
  <2>1. job' = job /\ sentCount' = sentCount
    BY <1>6 DEF EditAddress, mailVars
  <2>2. \A v \in Senders : HeldIsBacked(v)'
    BY <2>1, StaysBacked DEF CountersAreBacked
  <2> QED
    BY <1>2, <2>1, <2>2 DEF CountersAreBacked
<1> QED
  BY <1>3, <1>4, <1>5, <1>6, MessagesCases

\* sent_count, written from a copy that may be old, never counts an e-mail that has no row.
THEOREM CountsAlwaysBacked == MessagesSpec => []CountsAreBacked
<1>1. MessagesInit => CountersAreBacked
  <2> SUFFICES ASSUME MessagesInit PROVE CountersAreBacked
    OBVIOUS
  <2>1. \A d \in Diplomas : sentCount[d] = 0 /\ Copies(d) = 0
    <3> SUFFICES ASSUME NEW d \in Diplomas PROVE sentCount[d] = 0 /\ Copies(d) = 0
      OBVIOUS
    <3>1. <<d, Addressee[d]>> \in Mails
      BY AddressedAreMails
    <3> QED
      BY <3>1 DEF MessagesInit, LogStatuses, Rows, Copies
  <2>2. \A s \in Senders : HeldIsBacked(s)
    BY DEF MessagesInit, HeldIsBacked, Resting, Mailing
  <2> QED
    BY <2>1, <2>2 DEF CountersAreBacked
<1>2. CountersAreBacked => CountsAreBacked
  BY DEF CountersAreBacked, CountsAreBacked, Copies
<1> QED
  BY <1>1, <1>2, CountersStep, MessagesTypeCorrect, PTL DEF MessagesSpec
-----------------------------------------------------------------------------
(***************************************************************************)
(* What it means that a broadcast was sent.                                *)
(***************************************************************************)

\* What a worker holds fits the broadcasts.
Fits(s) == RowsWritten(s) /\ TaskExists(s) /\ HeldIsTrue(s)

\* What a step may do to the broadcasts that others have in hand.
Honours ==
  /\ notices \subseteq notices'
  /\ \A b \in Broadcasts : broadcast[b].status # "none" =>
       /\ broadcast'[b].status # "none"
       /\ broadcast'[b].channel = broadcast[b].channel
       /\ b \in byHand \/ Complete(b) => b \in byHand' \/ Complete(b)'

LEMMA KeepsComplete ==
  ASSUME MessagesTypeOK, QueuedAreCut, [MessagesNext]_mailVars, NEW b \in Broadcasts,
         Complete(b), reached'[b] = reached[b], broadcast'[b].channel = broadcast[b].channel,
         notices \subseteq notices'
  PROVE  Complete(b)'
<1>1. \A m \in UNION reached[b] : Rows(m)' > 0
  <2> SUFFICES ASSUME NEW m \in UNION reached[b] PROVE Rows(m)' > 0
    OBVIOUS
  <2>1. m \in Mails
    BY DEF MessagesTypeOK
  <2>2. Rows(m) > 0
    BY DEF Complete
  <2> QED
    BY <2>1, <2>2, RowsGrow
<1> QED
  BY <1>1 DEF Complete

\* Other workers are not affected.
LEMMA StaysFit ==
  ASSUME MessagesTypeOK, QueuedAreCut, SendingsProgress, [MessagesNext]_mailVars, Honours,
         NEW v \in Senders, job'[v] = job[v]
  PROVE  Fits(v)'
<1>1. RowsWritten(v) /\ TaskExists(v) /\ HeldIsTrue(v)
  BY DEF SendingsProgress
<1>2. RowsWritten(v)'
  <2> SUFFICES ASSUME job[v].pc \in Mailing
               PROVE  /\ \A m \in job[v].list \ job[v].todo : Rows(m)' > 0
                      /\ job[v].task \in Broadcasts /\ broadcast'[job[v].task].channel = "push"
                           => job[v].task \in notices'
    BY DEF RowsWritten
  <2>1. job[v].list \subseteq Mails
    BY JobShape DEF Between, AtMail, Mailing
  <2>2. \A m \in job[v].list \ job[v].todo : Rows(m) > 0
    BY <1>1 DEF RowsWritten
  <2>3. \A m \in job[v].list \ job[v].todo : Rows(m)' > 0
    BY <2>1, <2>2, RowsGrow
  <2>4. job[v].task \in Broadcasts => broadcast[job[v].task].status # "none"
    BY <1>1 DEF TaskExists
  <2>5. ASSUME job[v].task \in Broadcasts, broadcast'[job[v].task].channel = "push"
        PROVE  job[v].task \in notices'
    <3>1. broadcast[job[v].task].channel = "push"
      BY <2>4, <2>5 DEF Honours
    <3> QED
      BY <1>1, <2>5, <3>1 DEF RowsWritten, Honours
  <2> QED
    BY <2>3, <2>5
<1>3. TaskExists(v)'
  BY <1>1 DEF TaskExists, Honours
<1>4. HeldIsTrue(v)'
  <2> SUFFICES ASSUME job[v].pc = "broadcast", job[v].status = "sent", ~job[v].entered
               PROVE  job[v].task \in byHand' \/ Complete(job[v].task)'
    BY DEF HeldIsTrue, Complete, Rows
  <2>1. PICK b \in Broadcasts : b = job[v].task
    BY JobShape DEF Editing
  <2>2. broadcast[b].status # "none" /\ (b \in byHand \/ Complete(b))
    BY <1>1, <2>1 DEF TaskExists, HeldIsTrue
  <2>3. b \in byHand' \/ Complete(b)'
    BY <2>2 DEF Honours
  <2> QED
    BY <2>1, <2>3 DEF Complete, Rows
<1> QED
  BY <1>2, <1>3, <1>4 DEF Fits

\* A worker that has no broadcast in hand and no list.
LEMMA IdleFits ==
  ASSUME NEW v, NEW pc, job'[v].pc = pc, pc \notin Mailing \union {"list", "broadcast"}
  PROVE  Fits(v)'
  BY DEF Fits, RowsWritten, TaskExists, HeldIsTrue, Mailing

\* The statuses, channels and histories of the broadcasts that a step does not write.
LEMMA KeepsBroadcasts ==
  ASSUME MessagesTypeOK, QueuedAreCut, SendingsProgress, [MessagesNext]_mailVars,
         broadcast' = broadcast, reached' = reached, byHand' = byHand, notices \subseteq notices'
  PROVE  /\ Honours
         /\ \A b \in Broadcasts \ byHand' : broadcast'[b].status = "sent" => Complete(b)'
<1>1. \A b \in Broadcasts : Complete(b) => Complete(b)'
  BY KeepsComplete
<1> QED
  BY <1>1 DEF Honours, SendingsProgress

LEMMA SetOneStatus ==
  ASSUME MessagesTypeOK, NEW b \in Broadcasts, NEW x,
         broadcast' = [broadcast EXCEPT ![b].status = x]
  PROVE  \A c \in Broadcasts : /\ broadcast'[c].channel = broadcast[c].channel
                               /\ broadcast'[c].status = IF c = b THEN x ELSE broadcast[c].status
<1>1. broadcast \in [Broadcasts -> [status: Present \union {"none", "gone"}, channel: Channels]]
  BY DEF MessagesTypeOK
<1> QED
  BY <1>1

\* Of the broadcasts, a step writes one at most.
LEMMA BroadcastsStep ==
  ASSUME MessagesTypeOK, QueuedAreCut, SendingsProgress, [MessagesNext]_mailVars
  PROVE  /\ Honours
         /\ \A b \in Broadcasts \ byHand' : broadcast'[b].status = "sent" => Complete(b)'
<1> DEFINE Goal == /\ Honours
                   /\ \A b \in Broadcasts \ byHand' : broadcast'[b].status = "sent" => Complete(b)'
<1>1. ASSUME broadcast' = broadcast, reached' = reached, byHand' = byHand, notices \subseteq notices'
      PROVE  Goal
  BY <1>1, KeepsBroadcasts
<1>2. \A b \in Broadcasts \ byHand : broadcast[b].status = "sent" => Complete(b)
  BY DEF SendingsProgress
<1>3. ASSUME NEW s \in Senders, NEW b \in Broadcasts, NEW channel \in Channels, NEW now \in BOOLEAN,
             Compose(s, b, channel, now)
      PROVE  Goal
  <2>1. /\ broadcast[b].status = "none" /\ UNCHANGED <<reached, byHand, notices>>
        /\ broadcast' = [broadcast EXCEPT ![b] = [status |-> "draft", channel |-> channel]]
    BY <1>3 DEF Compose
  <2>2. /\ broadcast'[b].status = "draft"
        /\ \A c \in Broadcasts : c # b => broadcast'[c] = broadcast[c]
    BY <2>1 DEF MessagesTypeOK
  <2>3. \A c \in Broadcasts : c # b /\ Complete(c) => Complete(c)'
    BY <2>1, <2>2, KeepsComplete
  <2> QED
    BY <1>2, <2>1, <2>2, <2>3 DEF Honours
<1>4. ASSUME NEW s \in Senders, Finish(s)
      PROVE  Goal
  <2>1. notices' = notices /\ job[s].pc = "next" /\ job[s].todo = {}
    BY <1>4 DEF Finish
  <2>2. CASE ~(job[s].task \in Broadcasts /\ broadcast[job[s].task].status \in Present)
    BY <1>1, <1>4, <2>1, <2>2 DEF Finish
  <2>3. CASE job[s].task \in Broadcasts /\ broadcast[job[s].task].status \in Present
    <3>1. PICK b \in Broadcasts : b = job[s].task
      BY <2>3
    <3>2. /\ broadcast' = [broadcast EXCEPT ![b].status = "sent"]
          /\ reached' = [reached EXCEPT ![b] = {job[s].list}]
          /\ byHand' = byHand \ {b}
      BY <1>4, <2>3, <3>1 DEF Finish, SentStatus
    <3>3. \A c \in Broadcasts : /\ broadcast'[c].channel = broadcast[c].channel
                                /\ broadcast'[c].status = IF c = b THEN "sent" ELSE broadcast[c].status
      BY <3>2, SetOneStatus
    <3>4. reached'[b] = {job[s].list} /\ \A c \in Broadcasts : c # b => reached'[c] = reached[c]
      BY <3>2 DEF MessagesTypeOK
    <3>5. \A c \in Broadcasts : c # b /\ Complete(c) => Complete(c)'
      BY <2>1, <3>3, <3>4, KeepsComplete
    <3>6. Complete(b)'
      <4>1. RowsWritten(s)
        BY DEF SendingsProgress
      <4>2. \A m \in job[s].list : Rows(m) > 0
        BY <2>1, <4>1 DEF RowsWritten, Mailing
      <4>3. job[s].list \subseteq Mails
        BY <2>1, JobShape DEF Between
      <4>4. \A m \in job[s].list : Rows(m)' > 0
        BY <4>2, <4>3, RowsGrow
      <4>5. broadcast[b].channel = "push" => b \in notices
        BY <2>1, <3>1, <4>1 DEF RowsWritten, Mailing
      <4>6. UNION reached'[b] = job[s].list
        BY <3>4
      <4> QED
        BY <2>1, <3>3, <3>4, <4>4, <4>5, <4>6 DEF Complete
    <3> QED
      BY <1>2, <2>1, <3>2, <3>3, <3>5, <3>6 DEF Honours
  <2> QED
    BY <2>2, <2>3
<1>5. ASSUME NEW s \in Senders, SaveBroadcast(s)
      PROVE  Goal
  <2>1. PICK b \in Broadcasts : b = job[s].task
    BY <1>5, JobShape DEF SaveBroadcast, Editing
  <2>2. /\ job[s].pc = "broadcast" /\ job[s].status \in Present /\ job[s].entered \in BOOLEAN
    BY <1>5, JobShape DEF SaveBroadcast, Editing
  <2>3. /\ broadcast' = [broadcast EXCEPT ![b].status = job[s].status]
        /\ byHand' = IF job[s].entered /\ job[s].status = "sent" THEN byHand \union {b} ELSE byHand
        /\ reached' = reached /\ notices' = notices
    BY <1>5, <2>1 DEF SaveBroadcast
  <2>4. \A c \in Broadcasts : /\ broadcast'[c].channel = broadcast[c].channel
                              /\ broadcast'[c].status = IF c = b THEN job[s].status ELSE broadcast[c].status
    BY <2>3, SetOneStatus
  <2>5. \A c \in Broadcasts : Complete(c) => Complete(c)'
    BY <2>3, <2>4, KeepsComplete
  <2>6. job[s].status = "sent" => b \in byHand' \/ Complete(b)'
    <3>1. CASE job[s].entered
      BY <2>3, <3>1
    <3>2. CASE ~job[s].entered
      <4>1. HeldIsTrue(s)
        BY DEF SendingsProgress
      <4>2. job[s].status = "sent" => b \in byHand \/ Complete(b)
        BY <2>1, <2>2, <3>2, <4>1 DEF HeldIsTrue
      <4> QED
        BY <2>3, <2>5, <4>2
    <3> QED
      BY <3>1, <3>2
  <2>7. byHand \subseteq byHand'
    BY <2>3
  <2> QED
    BY <1>2, <2>2, <2>3, <2>4, <2>5, <2>6, <2>7 DEF Honours, Present
<1>6. ASSUME NEW s \in Senders, NEW b \in Broadcasts, DeleteBroadcast(s, b)
      PROVE  Goal
  <2>1. /\ broadcast' = [broadcast EXCEPT ![b].status = "gone"]
        /\ UNCHANGED <<reached, byHand, notices>>
    BY <1>6 DEF DeleteBroadcast
  <2>2. \A c \in Broadcasts : /\ broadcast'[c].channel = broadcast[c].channel
                              /\ broadcast'[c].status = IF c = b THEN "gone" ELSE broadcast[c].status
    BY <2>1, SetOneStatus
  <2>3. \A c \in Broadcasts : Complete(c) => Complete(c)'
    BY <2>1, <2>2, KeepsComplete
  <2> QED
    BY <1>2, <2>1, <2>2, <2>3 DEF Honours
<1>7. ASSUME NEW s \in Senders,
             \/ LoadList(s) \/ SaveDiploma(s) \/ Queue(s) \/ Mock(s) \/ HandOver(s)
             \/ Record(s) \/ Count(s) \/ Die(s)
      PROVE  Goal
  <2>1. UNCHANGED <<broadcast, reached, byHand>> /\ notices \subseteq notices'
    BY <1>7 DEF LoadList, SaveDiploma, Queue, Mock, HandOver, Record, Count, Die
  <2> QED
    BY <1>1, <2>1
<1>8. ASSUME NEW s \in Senders, NEW b \in Broadcasts, NEW x, Send(s, b) \/ LoadBroadcast(s, b, x)
      PROVE  Goal
  BY <1>1, <1>8 DEF Send, LoadBroadcast
<1>9. ASSUME NEW s \in Senders, NEW m, NEW D, NEW d,
             Write(s, m) \/ Resend(s, m) \/ SendDiplomas(s, D) \/ LoadDiploma(s, d)
      PROVE  Goal
  BY <1>1, <1>9 DEF Write, Resend, SendDiplomas, LoadDiploma
<1>10. CASE (\E p \in Movers : EditAddress(p)) \/ UNCHANGED mailVars
  BY <1>1, <1>10 DEF EditAddress, mailVars
<1> QED
  BY <1>3, <1>4, <1>5, <1>6, <1>7, <1>8, <1>9, <1>10 DEF MessagesNext, Work, Ask

\* A worker that moves.
LEMMA QuietFits ==
  ASSUME MessagesTypeOK, QueuedAreCut, SendingsProgress, [MessagesNext]_mailVars, Honours,
         NEW s \in Senders, Quiet(s)
  PROVE  Fits(s)'
<1>1. Fits(s)
  BY DEF SendingsProgress, Fits
<1>2. ASSUME NEW j, NEW pc, Does(s, j), j.pc = pc, pc \notin Mailing \union {"list", "broadcast"}
      PROVE  Fits(s)'
  <2>1. job'[s].pc = pc
    BY <1>2, DoesOne
  <2> QED
    BY <1>2, <2>1, IdleFits
<1>3. ASSUME NEW b \in Broadcasts, Does(s, [pc |-> "list", task |-> b]), broadcast'[b].status # "none"
      PROVE  Fits(s)'
  <2>1. job'[s].pc = "list" /\ job'[s].task = b
    BY <1>3, DoesOne
  <2> QED
    BY <1>3, <2>1 DEF Fits, RowsWritten, TaskExists, HeldIsTrue, Mailing
<1>4. ASSUME NEW task, NEW list, NEW counts, Does(s, Sending(task, list, counts)),
             task \in Broadcasts =>
               /\ broadcast'[task].status # "none"
               /\ broadcast'[task].channel = "push" => task \in notices'
      PROVE  Fits(s)'
  <2>1. job'[s].pc = "next" /\ job'[s].task = task /\ job'[s].list = list /\ job'[s].todo = list
    BY <1>4, DoesOne DEF Sending
  <2> QED
    BY <1>4, <2>1 DEF Fits, RowsWritten, TaskExists, HeldIsTrue, Mailing
<1>5. CASE LoadList(s)
  <2>1. PICK b \in Broadcasts : b = job[s].task
    BY <1>5, JobShape DEF LoadList, Listing
  <2>2. broadcast[b].status # "none" /\ broadcast' = broadcast
    BY <1>1, <1>5, <2>1 DEF LoadList, Fits, TaskExists
  <2>3. broadcast'[b].channel = "push" => b \in notices'
    BY <1>5, <2>1, <2>2 DEF LoadList
  <2> QED
    BY <1>4, <1>5, <2>1, <2>2, <2>3 DEF LoadList
<1>6. CASE Finish(s) \/ SaveBroadcast(s) \/ SaveDiploma(s)
  <2>1. Does(s, Resting)
    BY <1>6 DEF Finish, SaveBroadcast, SaveDiploma
  <2> QED
    BY <1>2, <2>1 DEF Resting, Mailing
<1>7. CASE Count(s)
  <2>1. job[s].pc = "count" /\ job'[s] = Onward(job[s]) /\ UNCHANGED <<broadcast, notices, logs>>
    BY <1>7, DoesOne DEF Count
  <2>2. /\ job'[s].pc = "next" /\ job'[s].task = job[s].task
        /\ job'[s].list = job[s].list /\ job'[s].todo = job[s].todo
    BY <2>1 DEF Onward
  <2> QED
    BY <1>1, <2>1, <2>2 DEF Fits, RowsWritten, TaskExists, HeldIsTrue, Mailing, Rows
<1>8. ASSUME NEW b \in Broadcasts, NEW channel \in Channels, NEW now \in BOOLEAN,
             Compose(s, b, channel, now)
      PROVE  Fits(s)'
  <2>1. broadcast'[b].status = "draft"
    BY <1>8 DEF Compose, MessagesTypeOK
  <2>2. job' = job \/ Does(s, [pc |-> "list", task |-> b])
    BY <1>8 DEF Compose
  <2> QED
    BY <1>3, <2>1, <2>2, StaysFit
<1>9. ASSUME NEW b \in Broadcasts, Send(s, b) \/ DeleteBroadcast(s, b)
      PROVE  Fits(s)'
  <2>1. CASE Send(s, b)
    <3>1. broadcast'[b].status # "none" /\ Does(s, [pc |-> "list", task |-> b])
      BY <2>1 DEF Send, Present
    <3> QED
      BY <1>3, <3>1
  <2>2. CASE DeleteBroadcast(s, b)
    BY <2>2, StaysFit DEF DeleteBroadcast
  <2> QED
    BY <1>9, <2>1, <2>2
<1>10. ASSUME NEW b \in Broadcasts, NEW x \in Present, LoadBroadcast(s, b, x)
       PROVE  Fits(s)'
  <2>1. /\ broadcast[b].status \in Present /\ UNCHANGED <<broadcast, reached, notices, byHand, logs>>
        /\ Does(s, [pc |-> "broadcast", task |-> b, status |-> x, entered |-> x # broadcast[b].status])
    BY <1>10 DEF LoadBroadcast
  <2>2. job'[s] = [pc |-> "broadcast", task |-> b, status |-> x, entered |-> x # broadcast[b].status]
    BY <2>1, DoesOne
  <2>3. job'[s].pc = "broadcast" /\ job'[s].task = b /\ job'[s].status = x
    BY <2>2
  <2>4. ~job'[s].entered => x = broadcast[b].status
    <3>1. CASE x = broadcast[b].status
      BY <3>1
    <3>2. CASE x # broadcast[b].status
      <4>1. (x # broadcast[b].status) = TRUE
        BY <3>2
      <4>2. job'[s] = [pc |-> "broadcast", task |-> b, status |-> x, entered |-> TRUE]
        BY <2>2, <4>1
      <4> QED
        BY <4>2
    <3> QED
      BY <3>1, <3>2
  <2>5. x = "sent" /\ x = broadcast[b].status => b \in byHand \/ Complete(b)
    BY DEF SendingsProgress
  <2>6. Complete(b) => Complete(b)'
    BY <2>1, KeepsComplete
  <2>7. HeldIsTrue(s)'
    <3> SUFFICES ASSUME job'[s].status = "sent", ~job'[s].entered
                 PROVE  b \in byHand' \/ Complete(b)'
      BY <2>3 DEF HeldIsTrue, Complete, Rows
    <3> QED
      BY <2>1, <2>3, <2>4, <2>5, <2>6
  <2> QED
    BY <2>1, <2>3, <2>7 DEF Fits, RowsWritten, TaskExists, Mailing, Present
<1>11. ASSUME NEW m \in Mails, Write(s, m) \/ Resend(s, m)
       PROVE  Fits(s)'
  <2>1. Does(s, Sending("single", {m}, [d \in Diplomas |-> 0])) /\ "single" \notin Broadcasts
    BY <1>11, MessagesAssumption DEF Write, Resend
  <2> QED
    BY <1>4, <2>1
<1>12. ASSUME NEW D, SendDiplomas(s, D)
       PROVE  Fits(s)'
  <2>1. PICK list : list = {<<d, Addressee[d]>> : d \in {c \in D : Addressee[c] \in reachable}}
    OBVIOUS
  <2>2. Does(s, Sending("diplomas", list, sentCount)) /\ "diplomas" \notin Broadcasts
    BY <1>12, <2>1, MessagesAssumption DEF SendDiplomas
  <2> QED
    BY <1>4, <2>2
<1>13. ASSUME NEW d \in Diplomas, LoadDiploma(s, d)
       PROVE  Fits(s)'
  BY <1>2, <1>13 DEF LoadDiploma, Mailing
<1> QED
  BY <1>5, <1>6, <1>7, <1>8, <1>9, <1>10, <1>11, <1>12, <1>13 DEF Quiet, Ask

LEMMA AtMailFits ==
  ASSUME MessagesTypeOK, QueuedAreCut, SendingsProgress, [MessagesNext]_mailVars,
         NEW s \in Senders, Queue(s) \/ Mock(s) \/ Record(s) \/ HandOver(s)
  PROVE  Fits(s)'
<1>1. /\ Fits(s) /\ job[s].pc \in Mailing /\ job[s].list \subseteq Mails
      /\ UNCHANGED <<broadcast, notices>>
  BY JobShape DEF SendingsProgress, Fits, Queue, Mock, Record, HandOver, Between, AtMail, Mailing
<1>2. ASSUME NEW pc, job'[s].pc = pc, pc \in Mailing,
             job'[s].task = job[s].task, job'[s].list = job[s].list,
             \A m \in job[s].todo \ job'[s].todo : Rows(m)' > 0
      PROVE  Fits(s)'
  <2>1. \A m \in job[s].list \ job[s].todo : Rows(m) > 0
    BY <1>1 DEF Fits, RowsWritten
  <2>2. \A m \in job[s].list \ job[s].todo : Rows(m)' > 0
    BY <1>1, <2>1, RowsGrow
  <2>3. \A m \in job'[s].list \ job'[s].todo : Rows(m)' > 0
    BY <1>2, <2>2
  <2>4. job[s].task \in Broadcasts =>
          /\ broadcast[job[s].task].status # "none"
          /\ broadcast[job[s].task].channel = "push" => job[s].task \in notices
    BY <1>1 DEF Fits, RowsWritten, TaskExists
  <2>5. RowsWritten(s)'
    BY <1>1, <1>2, <2>3, <2>4 DEF RowsWritten
  <2>6. TaskExists(s)'
    BY <1>1, <1>2, <2>4 DEF TaskExists
  <2>7. HeldIsTrue(s)'
    BY <1>2 DEF HeldIsTrue, Mailing
  <2> QED
    BY <2>5, <2>6, <2>7 DEF Fits
<1>3. CASE Queue(s)
  <2>1. PICK m \in Mails :
           /\ logs' = [logs EXCEPT ![m] = NewRow(@)]
           /\ job'[s].pc = "queued"
           /\ job'[s].todo = job[s].todo \ {m} /\ job'[s].list = job[s].list
           /\ job'[s].task = job[s].task
    BY <1>3, QueueDoes
  <2>2. Rows(m)' = Rows(m) + 1 /\ Rows(m) \in Nat
    BY <2>1, QueueAddsRow, RowsTyped
  <2> QED
    BY <1>2, <2>1, <2>2 DEF Mailing
<1>4. CASE Mock(s) \/ Record(s)
  <2>1. job'[s] = Done(job[s]) /\ job[s] \in AtMail
    BY <1>4, RowGetsStatus, JobShape DEF Mock, Record
  <2>2. /\ job'[s].pc \in {"next", "count"} /\ job'[s].todo = job[s].todo
        /\ job'[s].list = job[s].list /\ job'[s].task = job[s].task
    BY <2>1, DoneTyped
  <2> QED
    BY <1>2, <2>2 DEF Mailing
<1>5. CASE HandOver(s)
  <2>1. /\ job'[s].pc = "answered" /\ job'[s].todo = job[s].todo
        /\ job'[s].list = job[s].list /\ job'[s].task = job[s].task
    BY <1>5, HandOverDoes
  <2> QED
    BY <1>2, <2>1 DEF Mailing
<1> QED
  BY <1>3, <1>4, <1>5

LEMMA SendingsStep ==
  MessagesTypeOK /\ QueuedAreCut /\ SendingsProgress /\ [MessagesNext]_mailVars => SendingsProgress'
<1> SUFFICES ASSUME MessagesTypeOK, QueuedAreCut, SendingsProgress, [MessagesNext]_mailVars
             PROVE  SendingsProgress'
  OBVIOUS
<1>1. /\ Honours
      /\ \A b \in Broadcasts \ byHand' : broadcast'[b].status = "sent" => Complete(b)'
  BY BroadcastsStep
<1>2. \A v \in Senders : job'[v] = job[v] => Fits(v)'
  BY <1>1, StaysFit
<1>3. ASSUME NEW s \in Senders, Fits(s)', \A v \in Senders : v # s => job'[v] = job[v]
      PROVE  SendingsProgress'
  <2>1. \A v \in Senders : Fits(v)'
    BY <1>2, <1>3
  <2> QED
    BY <1>1, <2>1 DEF SendingsProgress, Fits
<1>4. ASSUME NEW s \in Senders, Quiet(s)
      PROVE  SendingsProgress'
  BY <1>1, <1>3, <1>4, QuietFits, QuietElsewhere
<1>5. ASSUME NEW s \in Senders, Queue(s) \/ Mock(s) \/ Record(s) \/ HandOver(s)
      PROVE  SendingsProgress'
  <2>1. \A v \in Senders : v # s => job'[v] = job[v]
    BY <1>5, QueueDoes, RowGetsStatus, HandOverDoes
  <2> QED
    BY <1>3, <1>5, <2>1, AtMailFits
<1>6. ASSUME NEW s \in Senders, Die(s)
      PROVE  SendingsProgress'
  <2>1. job'[s].pc = "rest" /\ \A v \in Senders : v # s => job'[v] = job[v]
    BY <1>6, DieDoes DEF Resting
  <2>2. Fits(s)'
    BY <2>1, IdleFits DEF Mailing
  <2> QED
    BY <1>3, <2>1, <2>2
<1>7. CASE (\E p \in Movers : EditAddress(p)) \/ UNCHANGED mailVars
  <2>1. \A v \in Senders : Fits(v)'
    BY <1>2, <1>7 DEF EditAddress, mailVars
  <2> QED
    BY <1>1, <2>1 DEF SendingsProgress, Fits
<1> QED
  BY <1>4, <1>5, <1>6, <1>7, MessagesCases

\* A broadcast that says it was sent went through a whole list, unless a REST write said
\* so: no worker that died half way, and no write of an older row, leaves it sent.
THEOREM SentAlwaysComplete == MessagesSpec => []SentIsComplete
<1>1. MessagesInit => SendingsProgress
  BY DEF MessagesInit, SendingsProgress, RowsWritten, TaskExists, HeldIsTrue, Resting, Mailing
<1>2. SendingsProgress => SentIsComplete
  BY DEF SendingsProgress, SentIsComplete, Complete
<1> QED
  BY <1>1, <1>2, SendingsStep, MessagesTypeCorrect, PTL DEF MessagesSpec
=============================================================================
