-------------------------- MODULE PointsLedgerProofs --------------------------
(***************************************************************************)
(* Theorems about PointsLedger, for every set of participants, badges and  *)
(* workers, and whatever points are awarded, taken and asked for.          *)
(***************************************************************************)
EXTENDS PointsLedger, FiniteSetTheorems, TLAPS

USE PointsAssumption

Request == {Idle} \union Calling \union Summed \union Listed \union Visiting

LEMMA RequestShape ==
  ASSUME TypeOK, NEW w \in Workers
  PROVE  /\ local[w].pc = "idle" <=> local[w] = Idle
         /\ local[w].pc = "inserted" => local[w] \in Calling
         /\ local[w].pc = "summed" => local[w] \in Summed
         /\ local[w].pc = "listed" => local[w] \in Listed
         /\ local[w].pc = "visiting" => local[w] \in Visiting
         /\ local[w].pc \in {"idle", "inserted", "summed", "listed", "visiting"}
  BY DEF TypeOK, Idle, Calling, Summed, Listed, Visiting

\* What Become does to the workers, one by one.
LEMMA BecomeOne ==
  ASSUME TypeOK, NEW w \in Workers, NEW l, Become(w, l)
  PROVE  /\ local'[w] = l
         /\ \A v \in Workers : v # w => local'[v] = local[v]
  BY DEF TypeOK, Become

LEMMA BecomeType ==
  ASSUME TypeOK, NEW w \in Workers, NEW l \in Request, Become(w, l)
  PROVE  local' \in [Workers -> Request]
  BY DEF TypeOK, Become, Request

\* What Commit does, participant by participant.
LEMMA CommitOne ==
  ASSUME TypeOK, NEW p \in Participants, NEW v \in Int, Commit(p, v)
  PROVE  /\ total' \in [Participants -> Int] /\ peak' \in [Participants -> Int]
         /\ total'[p] = total[p] + v /\ total'[p] <= peak'[p]
         /\ \A q \in Participants : q # p => total'[q] = total[q]
         /\ \A q \in Participants : q # p => peak'[q] = peak[q]
         /\ peak[p] <= peak'[p]
<1>1. total \in [Participants -> Int] /\ peak \in [Participants -> Int]
  BY DEF TypeOK
<1>2. /\ total' \in [Participants -> Int]
      /\ total'[p] = total[p] + v
      /\ \A q \in Participants : q # p => total'[q] = total[q]
  BY <1>1 DEF Commit
<1>3. CASE total[p] + v > peak[p]
  <2>1. /\ peak' \in [Participants -> Int]
        /\ peak'[p] = total[p] + v
        /\ \A q \in Participants : q # p => peak'[q] = peak[q]
    BY <1>1, <1>3 DEF Commit
  <2> QED
    BY <1>1, <1>2, <1>3, <2>1
<1>4. CASE ~(total[p] + v > peak[p])
  BY <1>1, <1>2, <1>4 DEF Commit
<1> QED
  BY <1>3, <1>4

LEMMA RestType ==
  ASSUME NEW todo \in SUBSET Participants
  PROVE  Rest(todo) \in Request
  BY DEF Rest, Request, Visiting

LEMMA VisibleType ==
  ASSUME TypeOK, NEW w \in Workers, local[w] \in Calling
  PROVE  Visible(w) \in Int
  BY DEF TypeOK, Visible, Calling

LEMMA TypeStep ==
  ASSUME TypeOK, [Next]_vars
  PROVE  TypeOK'
<1>1. ASSUME NEW w \in Workers, NEW l \in Request, Become(w, l),
             UNCHANGED <<total, badges, auto, peak, byHand>>, owed' \subseteq Participants
      PROVE  TypeOK'
  <2>1. local' \in [Workers -> Request]
    BY <1>1, BecomeType
  <2> QED
    BY <1>1, <2>1 DEF TypeOK, Request
<1>2. ASSUME NEW w \in Workers, NEW p \in Participants, NEW v \in Awards, AwardByHand(w, p, v)
      PROVE  TypeOK'
  <2>1. [pc |-> "inserted", who |-> p, atomic |-> FALSE, own |-> 0, todo |-> {}] \in Request
    BY DEF Calling, Request
  <2>2. local' \in [Workers -> Request]
    BY <1>2, <2>1, BecomeType DEF AwardByHand
  <2>3. total' \in [Participants -> Int] /\ peak' \in [Participants -> Int]
    BY <1>2, CommitOne DEF AwardByHand, PointsAssumption
  <2> QED
    BY <1>2, <2>2, <2>3 DEF TypeOK, AwardByHand, Request
<1>3. ASSUME NEW w \in Workers, NEW p \in Participants, NEW v \in Int,
             InsertInTransaction(w, p, v)
      PROVE  TypeOK'
  <2>1. [pc |-> "inserted", who |-> p, atomic |-> TRUE, own |-> v, todo |-> {}] \in Request
    BY DEF Calling, Request
  <2> QED
    BY <1>1, <1>3, <2>1 DEF TypeOK, InsertInTransaction
<1>4. ASSUME NEW w \in Workers, NEW p \in Participants, NEW v \in Awards, AwardByScan(w, p, v)
      PROVE  TypeOK'
  BY <1>3, <1>4 DEF AwardByScan, PointsAssumption
<1>5. ASSUME NEW w \in Workers, NEW p \in Participants, NEW v \in Penalties,
             AwardByViolation(w, p, v)
      PROVE  TypeOK'
  <2>1. -v \in Int
    BY DEF PointsAssumption
  <2> QED
    BY <1>3, <1>5, <2>1 DEF AwardByViolation
<1>6. ASSUME NEW w \in Workers, SumPoints(w)
      PROVE  TypeOK'
  <2>1. local[w] \in Calling
    BY <1>6, RequestShape DEF SumPoints
  <2>2. [pc |-> "summed", who |-> local[w].who, atomic |-> local[w].atomic,
         own |-> local[w].own, todo |-> local[w].todo, seen |-> Visible(w)] \in Request
    BY <2>1, VisibleType DEF Calling, Summed, Request
  <2> QED
    BY <1>1, <1>6, <2>2 DEF TypeOK, SumPoints
<1>7. ASSUME NEW w \in Workers, ListBadges(w)
      PROVE  TypeOK'
  <2>1. local[w] \in Summed
    BY <1>7, RequestShape DEF ListBadges
  <2>2. {b \in auto : Earns(local[w].seen, b)} \subseteq Badges
    BY DEF TypeOK
  <2>3. [pc |-> "listed", who |-> local[w].who, atomic |-> local[w].atomic,
         own |-> local[w].own, todo |-> local[w].todo,
         due |-> {b \in auto : Earns(local[w].seen, b)}] \in Request
    BY <2>1, <2>2 DEF Listed, Summed, Request
  <2> QED
    BY <1>1, <1>7, <2>3 DEF TypeOK, ListBadges
<1>8. ASSUME NEW w \in Workers, NEW b \in Badges, GiveOne(w, b)
      PROVE  TypeOK'
  <2>1. local[w] \in Listed
    BY <1>8, RequestShape DEF GiveOne
  <2>2. [local[w] EXCEPT !.due = @ \ {b}] \in Request
    BY <2>1 DEF Listed, Request
  <2>3. local' \in [Workers -> Request]
    BY <1>8, <2>2, BecomeType DEF GiveOne
  <2>4. badges' \in [Participants -> SUBSET Badges]
    BY <1>8 DEF TypeOK, GiveOne
  <2> QED
    BY <1>8, <2>3, <2>4 DEF TypeOK, GiveOne, Request
<1>9. ASSUME NEW w \in Workers, FinishCall(w)
      PROVE  TypeOK'
  <2>1. local[w].todo \in SUBSET Participants
    BY <1>9, RequestShape DEF FinishCall, Listed
  <2> QED
    BY <1>1, <1>9, <2>1, RestType DEF TypeOK, FinishCall
<1>10. ASSUME NEW w \in Workers, CommitAward(w)
       PROVE  TypeOK'
  <2>1. local[w] \in Listed
    BY <1>10, RequestShape DEF CommitAward
  <2>2. total' \in [Participants -> Int] /\ peak' \in [Participants -> Int]
    BY <1>10, <2>1, CommitOne DEF CommitAward, Listed
  <2>3. badges' \in [Participants -> SUBSET Badges]
    BY <1>10, <2>1 DEF TypeOK, CommitAward, Listed
  <2>4. local' \in [Workers -> Request]
    BY <1>10, BecomeType DEF CommitAward, Request
  <2> QED
    BY <1>10, <2>2, <2>3, <2>4 DEF TypeOK, CommitAward, Request
<1>11. ASSUME NEW w \in Workers, NEW b \in Badges, NEW scope \in SUBSET Participants,
              SaveAutoBadge(w, b, scope)
       PROVE  TypeOK'
  <2>1. local' \in [Workers -> Request]
    BY <1>11, BecomeType, RestType DEF SaveAutoBadge, Recipients
  <2> QED
    BY <1>11, <2>1 DEF TypeOK, SaveAutoBadge, Request
<1>12. ASSUME NEW w \in Workers, NEW p \in Participants, VisitParticipant(w, p)
       PROVE  TypeOK'
  <2>1. local[w] \in Visiting
    BY <1>12, RequestShape DEF VisitParticipant
  <2>2. [pc |-> "inserted", who |-> p, atomic |-> FALSE, own |-> 0,
         todo |-> local[w].todo \ {p}] \in Request
    BY <2>1 DEF Visiting, Calling, Request
  <2> QED
    BY <1>1, <1>12, <2>2 DEF TypeOK, VisitParticipant
<1>13. ASSUME NEW w \in Workers, NEW p \in Participants, NEW b \in Badges, GiveByHand(w, p, b)
       PROVE  TypeOK'
  BY <1>13 DEF TypeOK, GiveByHand
<1>14. ASSUME NEW w \in Workers, NEW b \in Badges, PatchBadge(w, b)
       PROVE  TypeOK'
  BY <1>14 DEF TypeOK, PatchBadge
<1>15. ASSUME NEW w \in Workers, NEW p \in Participants, NEW b \in Badges, RevokeBadge(w, p, b)
       PROVE  TypeOK'
  BY <1>15 DEF TypeOK, RevokeBadge
<1>16. ASSUME NEW w \in Workers, NEW p \in Participants, NEW v \in Awards, WritePoints(w, p, v)
       PROVE  TypeOK'
  <2>1. total' \in [Participants -> Int] /\ peak' \in [Participants -> Int]
    BY <1>16, CommitOne DEF WritePoints, PointsAssumption
  <2> QED
    BY <1>16, <2>1 DEF TypeOK, WritePoints
<1>17. ASSUME NEW w \in Workers, Abandon(w)
       PROVE  TypeOK'
  <2>1. LeftBehind(w) \subseteq Participants
    BY <1>17, RequestShape DEF Abandon, LeftBehind, Calling, Summed, Listed, Visiting
  <2> QED
    BY <1>1, <1>17, <2>1 DEF TypeOK, Abandon, Request
<1>18. CASE UNCHANGED vars
  BY <1>18 DEF TypeOK, vars
<1> QED
  BY <1>2, <1>4, <1>5, <1>6, <1>7, <1>8, <1>9, <1>10, <1>11, <1>12, <1>13, <1>14, <1>15,
     <1>16, <1>17, <1>18 DEF Next, Serve

\* Every variable keeps its type: a request holds what its stage has read, and badges
\* are given to participants only.
THEOREM PointsTypeCorrect == Spec => []TypeOK
<1>1. Init => TypeOK
  BY DEF Init, TypeOK
<1> QED
  BY <1>1, TypeStep, PTL DEF Spec
-----------------------------------------------------------------------------
(***************************************************************************)
(* What requests hold.                                                     *)
(***************************************************************************)

\* What is true of what one request holds.
OwnIsSmall(l) ==
  l.pc \in {"inserted", "summed", "listed"} =>
    /\ l.own <= MaxAward
    /\ ~l.atomic => l.own = 0
    /\ l.atomic => l.todo = {}

LEMMA OwnStep ==
  ASSUME TypeOK, OwnIsBounded, [Next]_vars
  PROVE  OwnIsBounded'
<1>1. ASSUME NEW w \in Workers, NEW l, Become(w, l), OwnIsSmall(l)
      PROVE  OwnIsBounded'
  BY <1>1, BecomeOne DEF OwnIsBounded, OwnIsSmall
<1>2. local' = local => OwnIsBounded'
  BY DEF OwnIsBounded
<1>3. OwnIsSmall(Idle) /\ \A todo : OwnIsSmall(Rest(todo))
  BY DEF OwnIsSmall, Idle, Rest
<1>4. ASSUME NEW w \in Workers, NEW p, NEW todo,
             Become(w, [pc |-> "inserted", who |-> p, atomic |-> FALSE, own |-> 0,
                        todo |-> todo])
      PROVE  OwnIsBounded'
  <2>1. OwnIsSmall([pc |-> "inserted", who |-> p, atomic |-> FALSE, own |-> 0, todo |-> todo])
    BY DEF OwnIsSmall, PointsAssumption
  <2> QED
    BY <1>1, <1>4, <2>1
<1>5. ASSUME NEW w \in Workers, NEW p, NEW v \in Int, v <= MaxAward,
             InsertInTransaction(w, p, v)
      PROVE  OwnIsBounded'
  <2>1. OwnIsSmall([pc |-> "inserted", who |-> p, atomic |-> TRUE, own |-> v, todo |-> {}])
    BY <1>5 DEF OwnIsSmall
  <2> QED
    BY <1>1, <1>5, <2>1 DEF InsertInTransaction
<1>6. ASSUME NEW w \in Workers, SumPoints(w)
      PROVE  OwnIsBounded'
  <2>1. OwnIsSmall([pc |-> "summed", who |-> local[w].who, atomic |-> local[w].atomic,
                    own |-> local[w].own, todo |-> local[w].todo, seen |-> Visible(w)])
    BY <1>6 DEF OwnIsSmall, OwnIsBounded, SumPoints
  <2> QED
    BY <1>1, <1>6, <2>1 DEF SumPoints
<1>7. ASSUME NEW w \in Workers, ListBadges(w)
      PROVE  OwnIsBounded'
  <2>1. OwnIsSmall([pc |-> "listed", who |-> local[w].who, atomic |-> local[w].atomic,
                    own |-> local[w].own, todo |-> local[w].todo,
                    due |-> {b \in auto : Earns(local[w].seen, b)}])
    BY <1>7 DEF OwnIsSmall, OwnIsBounded, ListBadges
  <2> QED
    BY <1>1, <1>7, <2>1 DEF ListBadges
<1>8. ASSUME NEW w \in Workers, NEW b \in Badges, GiveOne(w, b)
      PROVE  OwnIsBounded'
  <2>1. local[w] \in Listed /\ local[w].pc = "listed"
    BY <1>8, RequestShape DEF GiveOne
  <2>2. OwnIsSmall([local[w] EXCEPT !.due = @ \ {b}])
    BY <2>1 DEF OwnIsSmall, OwnIsBounded, Listed
  <2> QED
    BY <1>1, <1>8, <2>2 DEF GiveOne
<1>9. ASSUME NEW w \in Workers, FinishCall(w)
      PROVE  OwnIsBounded'
  BY <1>1, <1>3, <1>9 DEF FinishCall
<1>10. ASSUME NEW w \in Workers, CommitAward(w) \/ Abandon(w)
       PROVE  OwnIsBounded'
  BY <1>1, <1>3, <1>10 DEF CommitAward, Abandon
<1>11. ASSUME NEW w \in Workers, NEW b \in Badges, NEW scope \in SUBSET Participants,
              SaveAutoBadge(w, b, scope)
       PROVE  OwnIsBounded'
  BY <1>1, <1>3, <1>11 DEF SaveAutoBadge, Recipients
<1>12. ASSUME NEW w \in Workers, NEW p \in Participants, NEW v \in Awards,
              AwardByHand(w, p, v) \/ AwardByScan(w, p, v)
       PROVE  OwnIsBounded'
  BY <1>4, <1>5, <1>12 DEF AwardByHand, AwardByScan, PointsAssumption
<1>13. ASSUME NEW w \in Workers, NEW p \in Participants, NEW v \in Penalties,
              AwardByViolation(w, p, v)
       PROVE  OwnIsBounded'
  <2>1. -v \in Int /\ -v <= MaxAward
    BY DEF PointsAssumption
  <2> QED
    BY <1>5, <1>13, <2>1 DEF AwardByViolation
<1>14. ASSUME NEW w \in Workers, NEW p \in Participants, VisitParticipant(w, p)
       PROVE  OwnIsBounded'
  BY <1>4, <1>14 DEF VisitParticipant
<1>15. CASE UNCHANGED vars
  BY <1>2, <1>15 DEF vars
<1> QED
  BY <1>2, <1>6, <1>7, <1>8, <1>9, <1>10, <1>11, <1>12, <1>13, <1>14, <1>15
     DEF Next, Serve, GiveByHand, PatchBadge, RevokeBadge, WritePoints

LEMMA OwnAlways == Spec => []OwnIsBounded
<1>1. Init => OwnIsBounded
  BY DEF Init, OwnIsBounded, Idle
<1>2. TypeOK /\ OwnIsBounded /\ [Next]_vars => OwnIsBounded'
  BY OwnStep
<1> QED
  BY <1>1, <1>2, PointsTypeCorrect, PTL DEF Spec
-----------------------------------------------------------------------------
(***************************************************************************)
(* Badges that are given were earned.                                      *)
(***************************************************************************)

\* What a request may hold, given the highest totals.
SumIsEarned(l) ==
  /\ l.pc = "summed" => l.seen <= peak[l.who] + MaxAward
  /\ l.pc = "listed" =>
       \A b \in l.due : Required[b] = 0 \/ Required[b] <= peak[l.who] + MaxAward

TotalsBelowPeaks == \A p \in Participants : total[p] <= peak[p]

PeaksKept == \A p \in Participants : peak'[p] \in Int /\ peak[p] <= peak'[p]

\* The request of each worker is as before, or ends, or is one that may be held.
LEMMA HeldSums ==
  ASSUME TypeOK, SumsAreEarned, PeaksKept, TotalsBelowPeaks',
         NEW w \in Workers, NEW l, Become(w, l), SumIsEarned(l)'
  PROVE  SumsAreEarned'
<1> SUFFICES ASSUME NEW v \in Workers
             PROVE  SumIsEarned(local[v])'
  BY DEF SumsAreEarned, SumIsEarned, TotalsBelowPeaks
<1>1. CASE v = w
  BY <1>1, BecomeOne
<1>2. CASE v # w
  <2>1. local'[v] = local[v] /\ SumIsEarned(local[v])
    BY <1>2, BecomeOne DEF SumsAreEarned, SumIsEarned
  <2>2. ASSUME local[v].pc = "summed"
        PROVE  local[v].seen <= peak'[local[v].who] + MaxAward
    <3>1. local[v].who \in Participants /\ local[v].seen \in Int
      BY <2>2, RequestShape DEF Summed
    <3>2. /\ peak[local[v].who] \in Int /\ peak'[local[v].who] \in Int
          /\ peak[local[v].who] <= peak'[local[v].who] /\ MaxAward \in Nat
      BY <3>1 DEF TypeOK, PeaksKept, PointsAssumption
    <3> QED
      BY <2>1, <2>2, <3>1, <3>2 DEF SumIsEarned
  <2>3. ASSUME local[v].pc = "listed", NEW b \in local[v].due
        PROVE  Required[b] = 0 \/ Required[b] <= peak'[local[v].who] + MaxAward
    <3>1. local[v].who \in Participants /\ b \in Badges
      BY <2>3, RequestShape DEF Listed
    <3>2. /\ peak[local[v].who] \in Int /\ peak'[local[v].who] \in Int
          /\ peak[local[v].who] <= peak'[local[v].who] /\ MaxAward \in Nat
          /\ Required[b] \in Int
      BY <3>1 DEF TypeOK, PeaksKept, PointsAssumption
    <3> QED
      BY <2>1, <2>3, <3>1, <3>2 DEF SumIsEarned
  <2> QED
    BY <2>1, <2>2, <2>3 DEF SumIsEarned
<1> QED
  BY <1>1, <1>2

LEMMA SumsStep ==
  ASSUME TypeOK, OwnIsBounded, SumsAreEarned, [Next]_vars
  PROVE  SumsAreEarned' /\ PeaksKept
<1> DEFINE Good == SumsAreEarned' /\ PeaksKept
<1>1. ASSUME UNCHANGED <<total, peak>>
      PROVE  PeaksKept /\ TotalsBelowPeaks'
  BY <1>1 DEF TypeOK, PeaksKept, TotalsBelowPeaks, SumsAreEarned
<1>2. ASSUME UNCHANGED <<total, peak>>, NEW w \in Workers, NEW l, Become(w, l),
             l.pc \notin {"summed", "listed"}
      PROVE  Good
  BY <1>1, <1>2, HeldSums DEF SumIsEarned
<1>3. ASSUME NEW p \in Participants, NEW v \in Int, Commit(p, v)
      PROVE  PeaksKept /\ TotalsBelowPeaks'
  <2>1. ASSUME NEW q \in Participants
        PROVE  peak'[q] \in Int /\ peak[q] <= peak'[q] /\ total'[q] <= peak'[q]
    <3>1. peak[q] \in Int /\ peak'[q] \in Int /\ total[q] <= peak[q]
      BY <1>3, CommitOne DEF TypeOK, SumsAreEarned
    <3>2. CASE q = p
      BY <1>3, <3>1, <3>2, CommitOne
    <3>3. CASE q # p
      <4>1. total'[q] = total[q] /\ peak'[q] = peak[q]
        BY <1>3, <3>3, CommitOne
      <4> QED
        BY <3>1, <4>1
    <3> QED
      BY <3>2, <3>3
  <2> QED
    BY <2>1 DEF PeaksKept, TotalsBelowPeaks
<1>4. ASSUME NEW p \in Participants, NEW v \in Int, Commit(p, v), NEW w \in Workers, NEW l,
             Become(w, l), l.pc \notin {"summed", "listed"}
      PROVE  Good
  BY <1>3, <1>4, HeldSums DEF SumIsEarned
<1>5. ASSUME UNCHANGED <<total, peak, local>>
      PROVE  Good
  BY <1>1, <1>5 DEF SumsAreEarned
<1>6. ASSUME NEW w \in Workers, NEW p \in Participants, NEW v \in Awards, AwardByHand(w, p, v)
      PROVE  Good
  BY <1>4, <1>6 DEF AwardByHand, PointsAssumption
<1>7. ASSUME NEW w \in Workers, NEW p \in Participants, NEW v, InsertInTransaction(w, p, v)
      PROVE  Good
  BY <1>2, <1>7 DEF InsertInTransaction
<1>8. ASSUME NEW w \in Workers, SumPoints(w)
      PROVE  Good
  <2>1. local[w] \in Calling /\ local[w].own <= MaxAward
    BY <1>8, RequestShape DEF SumPoints, OwnIsBounded
  <2>2. PICK p \in Participants, own \in Int : p = local[w].who /\ own = local[w].own
    BY <2>1 DEF Calling
  <2>3. /\ total[p] \in Int /\ peak[p] \in Int /\ MaxAward \in Nat
        /\ total[p] <= peak[p] /\ own <= MaxAward
    BY <2>1, <2>2 DEF TypeOK, SumsAreEarned, PointsAssumption
  <2>4. total[p] + own <= peak[p] + MaxAward
    BY <2>3
  <2>5. Visible(w) <= peak[p] + MaxAward
    BY <2>2, <2>4 DEF Visible
  <2>6. UNCHANGED <<total, peak>>
    BY <1>8 DEF SumPoints
  <2> DEFINE l == [pc |-> "summed", who |-> local[w].who, atomic |-> local[w].atomic,
                   own |-> local[w].own, todo |-> local[w].todo, seen |-> Visible(w)]
  <2>7. /\ l.pc = "summed" /\ l.seen <= peak[p] + MaxAward /\ l.who = p
    BY <2>2, <2>5
  <2>8. Become(w, l)
    BY <1>8 DEF SumPoints
  <2> HIDE DEF l
  <2>9. PICK k : k = l
    OBVIOUS
  <2>10. SumIsEarned(k)' /\ Become(w, k)
    BY <2>6, <2>7, <2>8, <2>9 DEF SumIsEarned
  <2> QED
    BY <1>1, <2>6, <2>10, HeldSums
<1>9. ASSUME NEW w \in Workers, ListBadges(w)
      PROVE  Good
  <2>1. local[w] \in Summed /\ local[w].seen <= peak[local[w].who] + MaxAward
    BY <1>9, RequestShape DEF ListBadges, SumsAreEarned
  <2>2. PICK p \in Participants, seen \in Int : p = local[w].who /\ seen = local[w].seen
    BY <2>1 DEF Summed
  <2>3. peak[p] \in Int /\ MaxAward \in Nat /\ seen <= peak[p] + MaxAward
    BY <2>1, <2>2 DEF TypeOK, PointsAssumption
  <2>4. \A b \in {c \in auto : Earns(local[w].seen, c)} :
          Required[b] = 0 \/ Required[b] <= peak[p] + MaxAward
    BY <2>2, <2>3 DEF TypeOK, Earns, PointsAssumption
  <2>5. UNCHANGED <<total, peak>>
    BY <1>9 DEF ListBadges
  <2> DEFINE l == [pc |-> "listed", who |-> local[w].who, atomic |-> local[w].atomic,
                   own |-> local[w].own, todo |-> local[w].todo,
                   due |-> {b \in auto : Earns(local[w].seen, b)}]
  <2>6. /\ l.pc = "listed" /\ l.who = p
        /\ \A b \in l.due : Required[b] = 0 \/ Required[b] <= peak[p] + MaxAward
    BY <2>2, <2>4
  <2>7. Become(w, l)
    BY <1>9 DEF ListBadges
  <2> HIDE DEF l
  <2>8. PICK k : k = l
    OBVIOUS
  <2>9. SumIsEarned(k)' /\ Become(w, k)
    BY <2>5, <2>6, <2>7, <2>8 DEF SumIsEarned
  <2> QED
    BY <1>1, <2>5, <2>9, HeldSums
<1>10. ASSUME NEW w \in Workers, NEW b \in Badges, GiveOne(w, b)
       PROVE  Good
  <2>1. local[w] \in Listed /\ local[w].pc = "listed"
    BY <1>10, RequestShape DEF GiveOne
  <2>2. UNCHANGED <<total, peak>>
    BY <1>10 DEF GiveOne
  <2> DEFINE l == [local[w] EXCEPT !.due = @ \ {b}]
  <2>3. l.pc = "listed" /\ l.who = local[w].who /\ l.due = local[w].due \ {b}
    BY <2>1 DEF Listed
  <2>4. Become(w, l)
    BY <1>10 DEF GiveOne
  <2> HIDE DEF l
  <2>5. \A c \in l.due : Required[c] = 0 \/ Required[c] <= peak[l.who] + MaxAward
    BY <2>1, <2>3 DEF SumsAreEarned
  <2>6. PICK k : k = l
    OBVIOUS
  <2>7. SumIsEarned(k)' /\ Become(w, k)
    BY <2>2, <2>3, <2>4, <2>5, <2>6 DEF SumIsEarned
  <2> QED
    BY <1>1, <2>2, <2>7, HeldSums
<1>11. \A todo : Rest(todo).pc \notin {"summed", "listed"}
  BY DEF Rest, Idle
<1>12. ASSUME NEW w \in Workers, FinishCall(w)
       PROVE  Good
  BY <1>2, <1>11, <1>12 DEF FinishCall
<1>13. ASSUME NEW w \in Workers, CommitAward(w)
       PROVE  Good
  <2>1. local[w].who \in Participants /\ local[w].own \in Int
    BY <1>13, RequestShape DEF CommitAward, Listed
  <2> QED
    BY <1>4, <1>13, <2>1 DEF CommitAward, Idle
<1>14. ASSUME NEW w \in Workers, NEW b \in Badges, NEW scope \in SUBSET Participants,
              SaveAutoBadge(w, b, scope)
       PROVE  Good
  BY <1>2, <1>11, <1>14 DEF SaveAutoBadge
<1>15. ASSUME NEW w \in Workers, NEW p \in Participants, VisitParticipant(w, p)
       PROVE  Good
  BY <1>2, <1>15 DEF VisitParticipant
<1>16. ASSUME NEW w \in Workers, NEW p \in Participants, NEW v \in Awards, WritePoints(w, p, v)
       PROVE  Good
  <2>1. PeaksKept /\ TotalsBelowPeaks'
    BY <1>3, <1>16 DEF WritePoints, PointsAssumption
  <2>2. Become(w, local[w])
    BY <1>16 DEF WritePoints, TypeOK, Become
  <2>3. PICK k : k = local[w]
    OBVIOUS
  <2>4. Become(w, k) /\ SumIsEarned(k)'
    BY <1>16, <2>2, <2>3 DEF WritePoints, SumIsEarned, Idle
  <2> QED
    BY <2>1, <2>4, HeldSums
<1>17. ASSUME NEW w \in Workers, Abandon(w)
       PROVE  Good
  BY <1>2, <1>17 DEF Abandon, Idle
<1>18. CASE UNCHANGED vars
  BY <1>5, <1>18 DEF vars
<1> QED
  BY <1>5, <1>6, <1>7, <1>8, <1>9, <1>10, <1>12, <1>13, <1>14, <1>15, <1>16, <1>17, <1>18
     DEF Next, Serve, AwardByScan, AwardByViolation, GiveByHand, PatchBadge, RevokeBadge

\* What a badge p has must be.
Deserved(p, b) ==
  \/ <<p, b>> \in byHand
  \/ Required[b] = 0
  \/ peak[p] >= Required[b] - MaxAward

LEMMA EarnedStep ==
  ASSUME TypeOK, SumsAreEarned, PeaksKept, BadgesAreEarned, [Next]_vars
  PROVE  BadgesAreEarned'
<1> SUFFICES ASSUME NEW p \in Participants, NEW b \in badges'[p]
             PROVE  Deserved(p, b)'
  BY DEF BadgesAreEarned, Deserved
<1>1. /\ peak[p] \in Int /\ peak'[p] \in Int /\ peak[p] <= peak'[p] /\ MaxAward \in Nat
  BY DEF TypeOK, PeaksKept, PointsAssumption
<1>2. ASSUME b \in badges[p], <<p, b>> \in byHand => <<p, b>> \in byHand'
      PROVE  Deserved(p, b)'
  <2>1. Deserved(p, b) /\ b \in Badges
    BY <1>2 DEF TypeOK, BadgesAreEarned, Deserved
  <2>2. Required[b] \in Int
    BY <2>1 DEF PointsAssumption
  <2> QED
    BY <1>1, <1>2, <2>1, <2>2 DEF Deserved
<1>3. ASSUME NEW w \in Workers, local[w].pc = "listed", p = local[w].who, b \in local[w].due
      PROVE  Deserved(p, b)'
  <2>1. b \in Badges
    BY <1>3, RequestShape DEF Listed
  <2>2. Required[b] \in Int /\ (Required[b] = 0 \/ Required[b] <= peak[p] + MaxAward)
    BY <1>3, <2>1 DEF SumsAreEarned, PointsAssumption
  <2> QED
    BY <1>1, <2>2 DEF Deserved
<1>4. UNCHANGED <<badges, byHand>> => Deserved(p, b)'
  BY <1>2
<1>5. ASSUME NEW w \in Workers, NEW c \in Badges, GiveOne(w, c)
      PROVE  Deserved(p, b)'
  <2>1. \/ b \in badges[p]
        \/ p = local[w].who /\ b = c
    BY <1>5 DEF TypeOK, GiveOne
  <2> QED
    BY <1>2, <1>3, <1>5, <2>1 DEF GiveOne
<1>6. ASSUME NEW w \in Workers, CommitAward(w)
      PROVE  Deserved(p, b)'
  <2>1. \/ b \in badges[p]
        \/ p = local[w].who /\ b \in local[w].due
    BY <1>6 DEF TypeOK, CommitAward
  <2> QED
    BY <1>2, <1>3, <1>6, <2>1 DEF CommitAward
<1>7. ASSUME NEW w \in Workers, NEW q \in Participants, NEW c \in Badges, GiveByHand(w, q, c)
      PROVE  Deserved(p, b)'
  <2>1. \/ b \in badges[p]
        \/ p = q /\ b = c
    BY <1>7 DEF TypeOK, GiveByHand
  <2> QED
    BY <1>2, <1>7, <2>1 DEF GiveByHand, Deserved
<1>8. ASSUME NEW w \in Workers, NEW q \in Participants, NEW c \in Badges, RevokeBadge(w, q, c)
      PROVE  Deserved(p, b)'
  <2>1. b \in badges[p] /\ <<p, b>> # <<q, c>>
    BY <1>8 DEF TypeOK, RevokeBadge
  <2> QED
    BY <1>2, <1>8, <2>1 DEF RevokeBadge
<1>9. CASE UNCHANGED vars
  BY <1>4, <1>9 DEF vars
<1> QED
  BY <1>4, <1>5, <1>6, <1>7, <1>8, <1>9
     DEF Next, Serve, AwardByHand, AwardByScan, AwardByViolation, InsertInTransaction,
         SumPoints, ListBadges, FinishCall, SaveAutoBadge, VisitParticipant, PatchBadge,
         WritePoints, Abandon

\* Of apply_auto_badges: whoever has a badge nobody gave by hand once had the points it
\* asks for, but for one award, however transactions overlap.
THEOREM BadgesEarned == Spec => []BadgesAreEarned
<1>1. Init => SumsAreEarned /\ BadgesAreEarned
  BY DEF Init, SumsAreEarned, BadgesAreEarned, Idle
<1>2. /\ TypeOK /\ OwnIsBounded /\ SumsAreEarned /\ BadgesAreEarned /\ [Next]_vars
      => SumsAreEarned' /\ BadgesAreEarned'
  BY SumsStep, EarnedStep
<1> QED
  BY <1>1, <1>2, PointsTypeCorrect, OwnAlways, PTL DEF Spec
-----------------------------------------------------------------------------
(***************************************************************************)
(* Badges that are missing.                                                *)
(***************************************************************************)

\* MissesAreShort for one participant and one badge.
MissIsShort(p, b) ==
  p \notin owed /\ b \in auto =>
    \/ b \in badges[p]
    \/ \E w \in Workers : StillToGive(w, p, b)
    \/ Required[b] # 0 /\ Short(p, b)

LEMMA TimesMonotone ==
  ASSUME NEW m \in Nat, NEW i \in Nat, NEW j \in Nat, i <= j
  PROVE  m * i <= m * j /\ m * i \in Nat /\ m * j \in Nat
<1>1. m * (j - i) >= 0 /\ m * j = m * i + m * (j - i)
  OBVIOUS
<1> QED
  BY <1>1

LEMMA LookedFinite ==
  ASSUME NEW p \in Participants
  PROVE  IsFiniteSet(Looked(p)) /\ IsFiniteSet(Looked(p)')
<1>1. Looked(p) \subseteq Workers /\ Looked(p)' \subseteq Workers
  BY DEF Looked
<1> QED
  BY <1>1, FS_Subset DEF PointsAssumption

\* A set without w leaves room for one.
LEMMA OthersOnly ==
  ASSUME NEW w \in Workers, NEW S, S \subseteq Workers \ {w}
  PROVE  /\ IsFiniteSet(S) /\ Cardinality(S) \in Nat
         /\ Cardinality(S) <= Cardinality(Workers) - 1
         /\ MaxAward * Cardinality(S) <= MaxAward * (Cardinality(Workers) - 1)
         /\ MaxAward * Cardinality(S) \in Nat
         /\ MaxAward * (Cardinality(Workers) - 1) \in Nat
<1>1. IsFiniteSet(Workers) /\ Cardinality(Workers) \in Nat
  BY FS_CardinalityType DEF PointsAssumption
<1>2. /\ IsFiniteSet(Workers \ {w})
      /\ Cardinality(Workers \ {w}) = Cardinality(Workers) - 1
  BY <1>1, FS_RemoveElement
<1>3. IsFiniteSet(S) /\ Cardinality(S) <= Cardinality(Workers \ {w})
  BY <1>2, FS_Subset
<1>4. Cardinality(S) \in Nat /\ Cardinality(Workers \ {w}) \in Nat
  BY <1>2, <1>3, FS_CardinalityType
<1> QED
  BY <1>2, <1>3, <1>4, TimesMonotone DEF PointsAssumption

\* Workers that looked still do, with the same points.
SameLooks(p) ==
  /\ Looked(p)' = Looked(p)
  /\ \A x \in Looked(p) : local'[x].own = local[x].own

LEMMA SameShort ==
  ASSUME NEW p \in Participants, NEW b, SameLooks(p), total'[p] = total[p], Short(p, b)
  PROVE  Short(p, b)'
  BY DEF Short, SameLooks

\* A step of w that changes nothing about p and b but for what w holds.
LEMMA WorkerMoves ==
  ASSUME TypeOK, NEW p \in Participants, NEW b, MissIsShort(p, b),
         NEW w \in Workers, NEW l, Become(w, l),
         total'[p] = total[p], badges[p] \subseteq badges'[p],
         p \notin owed' /\ b \in auto' => p \notin owed /\ b \in auto,
         w \in Looked(p)' <=> w \in Looked(p),
         w \in Looked(p) => l.own = local[w].own,
         p \notin owed' /\ StillToGive(w, p, b) => StillToGive(w, p, b)' \/ b \in badges'[p]
  PROVE  MissIsShort(p, b)'
<1>1. /\ local'[w] = l
      /\ \A v \in Workers : v # w => local'[v] = local[v]
  BY BecomeOne
<1>2. \A v \in Workers : v # w => (StillToGive(v, p, b) => StillToGive(v, p, b)')
  BY <1>1 DEF StillToGive
<1>3. \A v \in Workers : v # w => (v \in Looked(p)' <=> v \in Looked(p))
  BY <1>1 DEF Looked
<1>4. Looked(p)' = Looked(p)
  <2>1. Looked(p) \subseteq Workers /\ Looked(p)' \subseteq Workers
    BY DEF Looked
  <2> QED
    BY <1>3, <2>1
<1>5. SameLooks(p)
  <2>1. Looked(p) \subseteq Workers
    BY DEF Looked
  <2> QED
    BY <1>1, <1>4, <2>1 DEF SameLooks
<1>6. Short(p, b) => Short(p, b)'
  BY <1>5, SameShort
<1> QED
  BY <1>2, <1>6 DEF MissIsShort

LEMMA NobodyMoves ==
  ASSUME NEW p \in Participants, NEW b, MissIsShort(p, b), local' = local,
         p \notin owed' /\ b \in auto' => p \notin owed /\ b \in auto,
         p \notin owed' => total'[p] = total[p] /\ badges[p] \subseteq badges'[p]
  PROVE  MissIsShort(p, b)'
<1>1. SameLooks(p)
  BY DEF SameLooks, Looked
<1>2. \A v \in Workers : StillToGive(v, p, b) => StillToGive(v, p, b)'
  BY DEF StillToGive
<1> QED
  BY <1>1, <1>2, SameShort DEF MissIsShort

\* An idle worker neither looked nor is going to give anything.
LEMMA IdleGivesNothing ==
  ASSUME NEW w \in Workers, local[w].pc = "idle", NEW p, NEW b
  PROVE  w \notin Looked(p) /\ ~StillToGive(w, p, b)
  BY DEF Looked, StillToGive

\* Once w has summed up the points of p, it gives the badge or the points are too few.
LEMMA SumDecides ==
  ASSUME TypeOK, OwnIsBounded, NEW w \in Workers, NEW p \in Participants, NEW b \in Badges,
         SumPoints(w), local[w].who = p
  PROVE  MissIsShort(p, b)'
<1>1. local[w] \in Calling /\ (~local[w].atomic => local[w].own = 0)
  BY RequestShape DEF SumPoints, OwnIsBounded
<1>2. PICK own \in Int : own = local[w].own
  BY <1>1 DEF Calling
<1>3. /\ local'[w] = [pc |-> "summed", who |-> p, atomic |-> local[w].atomic, own |-> own,
                      todo |-> local[w].todo, seen |-> total[p] + own]
      /\ \A v \in Workers : v # w => local'[v] = local[v]
      /\ total' = total
  BY <1>2, BecomeOne DEF SumPoints, Visible
<1>4. /\ local'[w].pc = "summed" /\ local'[w].who = p /\ local'[w].own = own
      /\ local'[w].atomic = local[w].atomic /\ local'[w].seen = total[p] + own
  BY <1>3
<1>5. total[p] \in Int /\ Required[b] \in Int
  BY DEF TypeOK, PointsAssumption
<1>6. CASE Required[b] = 0 \/ total[p] + own >= Required[b]
  <2>1. StillToGive(w, p, b)'
    BY <1>4, <1>6 DEF StillToGive
  <2> QED
    BY <2>1 DEF MissIsShort
<1>7. CASE Required[b] # 0 /\ total[p] + own < Required[b] /\ local[w].atomic
  <2>1. w \in Looked(p)'
    BY <1>4, <1>7 DEF Looked
  <2>2. Looked(p)' \ {w} \subseteq Workers \ {w}
    BY DEF Looked
  <2>3. PICK K \in Int, L \in Int :
          /\ K = MaxAward * Cardinality(Looked(p)' \ {w})
          /\ L = MaxAward * (Cardinality(Workers) - 1)
          /\ K <= L
    BY <2>2, OthersOnly
  <2>4. total[p] + own + K < Required[b] + L
    BY <1>5, <1>7, <2>3
  <2>5. total'[p] + local'[w].own + MaxAward * Cardinality(Looked(p)' \ {w})
          < Required[b] + MaxAward * (Cardinality(Workers) - 1)
    BY <1>3, <1>4, <2>3, <2>4
  <2>6. Short(p, b)'
    BY <2>1, <2>5 DEF Short
  <2> QED
    BY <1>7, <2>6 DEF MissIsShort
<1>8. CASE Required[b] # 0 /\ total[p] + own < Required[b] /\ ~local[w].atomic
  <2>1. Looked(p)' \subseteq Workers \ {w}
    BY <1>4, <1>8 DEF Looked
  <2>2. PICK K \in Int, L \in Int :
          /\ K = MaxAward * Cardinality(Looked(p)')
          /\ L = MaxAward * (Cardinality(Workers) - 1)
          /\ K <= L
    BY <2>1, OthersOnly
  <2>3. total[p] + K < Required[b] + L
    BY <1>1, <1>2, <1>5, <1>8, <2>2
  <2>4. total'[p] + MaxAward * Cardinality(Looked(p)')
          < Required[b] + MaxAward * (Cardinality(Workers) - 1)
    BY <1>3, <2>2, <2>3
  <2>5. Short(p, b)'
    BY <2>4 DEF Short
  <2> QED
    BY <1>8, <2>5 DEF MissIsShort
<1> QED
  BY <1>2, <1>5, <1>6, <1>7, <1>8

\* One less in the product is one award less.
LEMMA OneLess ==
  ASSUME NEW S, NEW w \in S, IsFiniteSet(S)
  PROVE  /\ MaxAward * Cardinality(S \ {w}) = MaxAward * Cardinality(S) - MaxAward
         /\ MaxAward * Cardinality(S) \in Int
<1>1. /\ Cardinality(S \ {w}) = Cardinality(S) - 1
      /\ Cardinality(S) \in Nat /\ MaxAward \in Nat
  BY FS_RemoveElement, FS_CardinalityType DEF PointsAssumption
<1> QED
  BY <1>1

\* The commit of w moves its points from what is open to the total.
LEMMA CommitStaysShort ==
  ASSUME TypeOK, OwnIsBounded, NEW w \in Workers, NEW p \in Participants, NEW b \in Badges,
         CommitAward(w), local[w].who = p, Short(p, b)
  PROVE  Short(p, b)'
<1>1. local[w] \in Listed /\ local[w].own <= MaxAward
  BY RequestShape DEF CommitAward, OwnIsBounded
<1>2. PICK own \in Int : own = local[w].own
  BY <1>1 DEF Listed
<1>3. local'[w] = Idle /\ \A v \in Workers : v # w => local'[v] = local[v]
  BY BecomeOne DEF CommitAward
<1>4. total'[p] = total[p] + own
  BY <1>2, CommitOne DEF CommitAward
<1>5. w \in Looked(p)
  BY DEF CommitAward, Looked
<1>6. Looked(p)' = Looked(p) \ {w}
  BY <1>3 DEF Looked, Idle
<1>7. \A x \in Looked(p) \ {w} : local'[x].own = local[x].own /\ local[x].own \in Int
  BY <1>3, RequestShape DEF Looked, Summed, Listed
<1>8. PICK K \in Int : K = MaxAward * Cardinality(Looked(p))
  BY <1>5, LookedFinite, OneLess
<1>9. MaxAward * Cardinality(Looked(p)') = K - MaxAward
  BY <1>5, <1>6, <1>8, LookedFinite, OneLess
<1>10. PICK L \in Int : L = Required[b] + MaxAward * (Cardinality(Workers) - 1)
  <2>1. MaxAward * (Cardinality(Workers) - 1) \in Nat
    BY OthersOnly
  <2> QED
    BY <2>1 DEF PointsAssumption
<1>11. total[p] \in Int /\ MaxAward \in Int /\ own <= MaxAward
  BY <1>1, <1>2 DEF TypeOK, PointsAssumption
<1>12. CASE total[p] + K < L
  <2>1. total[p] + own + (K - MaxAward) < L
    BY <1>11, <1>12
  <2>2. total'[p] + MaxAward * Cardinality(Looked(p)') < L
    BY <1>4, <1>9, <2>1
  <2> QED
    BY <1>10, <2>2 DEF Short
<1>13. ASSUME NEW x \in Looked(p),
              total[p] + local[x].own + MaxAward * Cardinality(Looked(p) \ {x}) < L
       PROVE  Short(p, b)'
  <2>1. CASE x = w
    <3>1. total'[p] + MaxAward * Cardinality(Looked(p)') < L
      BY <1>2, <1>4, <1>6, <1>13, <2>1
    <3> QED
      BY <1>10, <3>1 DEF Short
  <2>2. CASE x # w
    <3>1. x \in Looked(p)'
      BY <1>6, <2>2
    <3>2. PICK a \in Int : a = local[x].own /\ a = local'[x].own
      BY <1>7, <2>2
    <3>3. MaxAward * Cardinality(Looked(p) \ {x}) = K - MaxAward
      BY <1>8, LookedFinite, OneLess
    <3>4. IsFiniteSet(Looked(p)')
      BY LookedFinite
    <3>5. MaxAward * Cardinality(Looked(p)' \ {x}) = (K - MaxAward) - MaxAward
      BY <1>9, <3>1, <3>4, OneLess
    <3>6. total[p] + a + (K - MaxAward) < L
      BY <1>13, <3>2, <3>3
    <3>7. (total[p] + own) + a + ((K - MaxAward) - MaxAward) < L
      BY <1>11, <3>6
    <3>8. total'[p] + local'[x].own + MaxAward * Cardinality(Looked(p)' \ {x}) < L
      BY <1>4, <3>2, <3>5, <3>7
    <3> QED
      BY <1>10, <3>1, <3>8 DEF Short
  <2> QED
    BY <2>1, <2>2
<1> QED
  BY <1>8, <1>10, <1>12, <1>13 DEF Short

LEMMA MissStep ==
  ASSUME TypeOK, OwnIsBounded, NEW p \in Participants, NEW b \in Badges, MissIsShort(p, b),
         [Next]_vars
  PROVE  MissIsShort(p, b)'
<1> DEFINE Good == MissIsShort(p, b)'
<1>1. ASSUME NEW w \in Workers, local[w] = Idle, NEW l, Become(w, l),
             l.pc \in {"idle", "inserted", "visiting"},
             total'[p] = total[p], badges[p] \subseteq badges'[p],
             p \notin owed' /\ b \in auto' => p \notin owed /\ b \in auto
      PROVE  Good
  <2>1. w \notin Looked(p) /\ ~StillToGive(w, p, b)
    BY <1>1, IdleGivesNothing DEF Idle
  <2>2. w \notin Looked(p)'
    BY <1>1, BecomeOne DEF Looked
  <2> QED
    BY <1>1, <2>1, <2>2, WorkerMoves
<1>2. ASSUME NEW w \in Workers, NEW q \in Participants, NEW v \in Awards, AwardByHand(w, q, v)
      PROVE  Good
  <2> DEFINE l == [pc |-> "inserted", who |-> q, atomic |-> FALSE, own |-> 0, todo |-> {}]
  <2>1. l.pc = "inserted" /\ l.who = q /\ l.atomic = FALSE
    OBVIOUS
  <2>2. Become(w, l) /\ local[w] = Idle /\ UNCHANGED <<badges, auto, owed, byHand>>
    BY <1>2 DEF AwardByHand
  <2> HIDE DEF l
  <2>3. CASE p = q
    <3>1. StillToGive(w, p, b)'
      BY <2>1, <2>2, <2>3, BecomeOne DEF StillToGive
    <3> QED
      BY <3>1 DEF MissIsShort
  <2>4. CASE p # q
    <3>1. total'[p] = total[p]
      BY <1>2, <2>4, CommitOne DEF AwardByHand, PointsAssumption
    <3> QED
      BY <1>1, <2>1, <2>2, <3>1
  <2> QED
    BY <2>3, <2>4
<1>3. ASSUME NEW w \in Workers, NEW q, NEW v, InsertInTransaction(w, q, v)
      PROVE  Good
  BY <1>1, <1>3 DEF InsertInTransaction
<1>4. ASSUME NEW w \in Workers, SumPoints(w)
      PROVE  Good
  <2>1. CASE local[w].who = p
    BY <1>4, <2>1, SumDecides
  <2>2. CASE local[w].who # p
    <3> DEFINE l == [pc |-> "summed", who |-> local[w].who, atomic |-> local[w].atomic,
                     own |-> local[w].own, todo |-> local[w].todo, seen |-> Visible(w)]
    <3>1. l.pc = "summed" /\ l.who = local[w].who /\ l.todo = local[w].todo
      OBVIOUS
    <3>2. /\ Become(w, l) /\ local[w].pc = "inserted"
          /\ UNCHANGED <<total, badges, auto>> /\ owed' = owed \ {local[w].who}
      BY <1>4 DEF SumPoints
    <3> HIDE DEF l
    <3>3. local'[w] = l
      BY <3>2, BecomeOne
    <3>4. w \notin Looked(p) /\ w \notin Looked(p)'
      BY <2>2, <3>1, <3>2, <3>3 DEF Looked
    <3>5. StillToGive(w, p, b) => StillToGive(w, p, b)'
      BY <2>2, <3>1, <3>2, <3>3 DEF StillToGive
    <3> QED
      BY <2>2, <3>2, <3>4, <3>5, WorkerMoves
  <2> QED
    BY <2>1, <2>2
<1>5. ASSUME NEW w \in Workers, ListBadges(w), b \in auto
      PROVE  Good
  <2> DEFINE l == [pc |-> "listed", who |-> local[w].who, atomic |-> local[w].atomic,
                   own |-> local[w].own, todo |-> local[w].todo,
                   due |-> {c \in auto : Earns(local[w].seen, c)}]
  <2>1. /\ l.pc = "listed" /\ l.who = local[w].who /\ l.atomic = local[w].atomic
        /\ l.own = local[w].own /\ l.todo = local[w].todo
        /\ b \in l.due <=> Earns(local[w].seen, b)
    BY <1>5
  <2>2. /\ Become(w, l) /\ local[w].pc = "summed"
        /\ UNCHANGED <<total, badges, auto, owed>>
    BY <1>5 DEF ListBadges
  <2> HIDE DEF l
  <2>3. local'[w] = l
    BY <2>2, BecomeOne
  <2>4. w \in Looked(p)' <=> w \in Looked(p)
    BY <2>1, <2>2, <2>3 DEF Looked
  <2>5. StillToGive(w, p, b) => StillToGive(w, p, b)'
    BY <2>1, <2>2, <2>3 DEF StillToGive, Earns
  <2> QED
    BY <2>1, <2>2, <2>4, <2>5, WorkerMoves
<1>6. ASSUME NEW w \in Workers, NEW c \in Badges, GiveOne(w, c)
      PROVE  Good
  <2>1. local[w] \in Listed /\ local[w].pc = "listed" /\ ~local[w].atomic
    BY <1>6, RequestShape DEF GiveOne
  <2> DEFINE l == [local[w] EXCEPT !.due = @ \ {c}]
  <2>2. /\ l.pc = "listed" /\ l.who = local[w].who /\ l.atomic = local[w].atomic
        /\ l.todo = local[w].todo /\ l.due = local[w].due \ {c}
    BY <2>1 DEF Listed
  <2>3. Become(w, l) /\ UNCHANGED <<total, auto, owed>>
    BY <1>6 DEF GiveOne
  <2> HIDE DEF l
  <2>4. local'[w] = l
    BY <2>3, BecomeOne
  <2>5. w \notin Looked(p)' /\ w \notin Looked(p)
    BY <2>1, <2>2, <2>4 DEF Looked
  <2>6. badges[p] \subseteq badges'[p] /\ (p = local[w].who => c \in badges'[p])
    BY <1>6 DEF TypeOK, GiveOne
  <2>7. StillToGive(w, p, b) => StillToGive(w, p, b)' \/ b \in badges'[p]
    BY <2>1, <2>2, <2>4, <2>6 DEF StillToGive
  <2> QED
    BY <2>3, <2>5, <2>6, <2>7, WorkerMoves
<1>7. ASSUME NEW w \in Workers, FinishCall(w)
      PROVE  Good
  <2>1. Become(w, Rest(local[w].todo)) /\ UNCHANGED <<total, badges, auto, owed>>
    BY <1>7 DEF FinishCall
  <2>2. local'[w] = Rest(local[w].todo)
    BY <2>1, BecomeOne
  <2>3. w \notin Looked(p) /\ w \notin Looked(p)'
    BY <1>7, <2>2 DEF FinishCall, Looked, Rest, Idle
  <2>4. StillToGive(w, p, b) => p \in local[w].todo
    BY <1>7 DEF FinishCall, StillToGive
  <2>5. p \in local[w].todo => StillToGive(w, p, b)'
    BY <2>2 DEF StillToGive, Rest
  <2> QED
    BY <2>1, <2>3, <2>4, <2>5, WorkerMoves
<1>8. ASSUME NEW w \in Workers, CommitAward(w)
      PROVE  Good
  <2>1. /\ local[w].pc = "listed" /\ local[w].atomic /\ local[w].todo = {}
        /\ UNCHANGED <<auto, owed, byHand>> /\ Become(w, Idle)
    BY <1>8 DEF CommitAward, OwnIsBounded
  <2>2. local'[w] = Idle /\ \A v \in Workers : v # w => local'[v] = local[v]
    BY <2>1, BecomeOne
  <2>3. local[w].who \in Participants /\ local[w].own \in Int
    BY <2>1, RequestShape DEF Listed
  <2>4. badges[p] \subseteq badges'[p] /\ (p = local[w].who => local[w].due \subseteq badges'[p])
    BY <1>8 DEF TypeOK, CommitAward
  <2>5. StillToGive(w, p, b) => b \in badges'[p]
    BY <2>1, <2>4 DEF StillToGive
  <2>6. \A v \in Workers : v # w => (StillToGive(v, p, b) => StillToGive(v, p, b)')
    BY <2>2 DEF StillToGive
  <2>7. CASE local[w].who = p
    <3>1. Short(p, b) => Short(p, b)'
      BY <1>8, <2>7, CommitStaysShort
    <3> QED
      BY <2>1, <2>4, <2>5, <2>6, <3>1 DEF MissIsShort
  <2>8. CASE local[w].who # p
    <3>1. total'[p] = total[p]
      BY <1>8, <2>3, <2>8, CommitOne DEF CommitAward
    <3>2. w \notin Looked(p) /\ w \notin Looked(p)'
      BY <2>2, <2>8 DEF Looked, Idle
    <3> QED
      BY <2>1, <2>4, <2>5, <3>1, <3>2, WorkerMoves
  <2> QED
    BY <2>7, <2>8
<1>9. ASSUME NEW w \in Workers, NEW c \in Badges, NEW scope \in SUBSET Participants,
             SaveAutoBadge(w, c, scope)
      PROVE  Good
  <2>1. /\ Become(w, Rest(scope)) /\ local[w] = Idle /\ auto' = auto \union {c}
        /\ owed' = owed \union (Participants \ scope) /\ UNCHANGED <<total, badges>>
    BY <1>9 DEF SaveAutoBadge, Recipients
  <2>2. CASE p \in scope
    <3>1. StillToGive(w, p, b)'
      BY <2>1, <2>2, BecomeOne DEF StillToGive, Rest
    <3> QED
      BY <3>1 DEF MissIsShort
  <2>3. CASE p \notin scope
    BY <2>1, <2>3 DEF MissIsShort
  <2> QED
    BY <2>2, <2>3
<1>10. ASSUME NEW w \in Workers, NEW q \in Participants, VisitParticipant(w, q)
       PROVE  Good
  <2> DEFINE l == [pc |-> "inserted", who |-> q, atomic |-> FALSE, own |-> 0,
                   todo |-> local[w].todo \ {q}]
  <2>1. l.pc = "inserted" /\ l.who = q /\ l.atomic = FALSE /\ l.todo = local[w].todo \ {q}
    OBVIOUS
  <2>2. /\ Become(w, l) /\ local[w].pc = "visiting"
        /\ UNCHANGED <<total, badges, auto, owed>>
    BY <1>10 DEF VisitParticipant
  <2> HIDE DEF l
  <2>3. local'[w] = l
    BY <2>2, BecomeOne
  <2>4. w \notin Looked(p) /\ w \notin Looked(p)'
    BY <2>1, <2>2, <2>3 DEF Looked
  <2>5. StillToGive(w, p, b) => StillToGive(w, p, b)'
    BY <2>1, <2>2, <2>3 DEF StillToGive
  <2> QED
    BY <2>2, <2>4, <2>5, WorkerMoves
<1>11. ASSUME NEW w \in Workers, NEW q \in Participants, NEW c \in Badges, GiveByHand(w, q, c)
       PROVE  Good
  <2>1. badges[p] \subseteq badges'[p]
    BY <1>11 DEF TypeOK, GiveByHand
  <2> QED
    BY <1>11, <2>1, NobodyMoves DEF GiveByHand
<1>12. ASSUME NEW w \in Workers, NEW c \in Badges, PatchBadge(w, c)
       PROVE  Good
  <2>1. p \notin owed' /\ b \in auto' => p \notin owed /\ b \in auto
    BY <1>12 DEF PatchBadge
  <2> QED
    BY <1>12, <2>1, NobodyMoves DEF PatchBadge
<1>13. ASSUME NEW w \in Workers, NEW q \in Participants, NEW c \in Badges, RevokeBadge(w, q, c)
       PROVE  Good
  <2>1. p \notin owed' => p # q /\ p \notin owed /\ badges'[p] = badges[p]
    BY <1>13 DEF TypeOK, RevokeBadge
  <2> QED
    BY <1>13, <2>1, NobodyMoves DEF RevokeBadge
<1>14. ASSUME NEW w \in Workers, NEW q \in Participants, NEW v \in Awards, WritePoints(w, q, v)
       PROVE  Good
  <2>1. p # q => total'[p] = total[p]
    BY <1>14, CommitOne DEF WritePoints, PointsAssumption
  <2> QED
    BY <1>14, <2>1, NobodyMoves DEF WritePoints
<1>15. ASSUME NEW w \in Workers, Abandon(w)
       PROVE  Good
  <2>1. /\ Become(w, Idle) /\ UNCHANGED <<total, badges, auto>>
        /\ owed' = owed \union LeftBehind(w)
    BY <1>15 DEF Abandon
  <2>2. p \in LeftBehind(w) => Good
    BY <2>1 DEF MissIsShort
  <2>3. ASSUME p \notin LeftBehind(w)
        PROVE  w \notin Looked(p) /\ ~StillToGive(w, p, b)
    BY <2>3 DEF LeftBehind, OwnIsBounded, Looked, StillToGive
  <2>4. w \notin Looked(p)'
    BY <2>1, BecomeOne DEF Looked, Idle
  <2> QED
    BY <2>1, <2>2, <2>3, <2>4, WorkerMoves
<1>16. CASE UNCHANGED vars
  BY <1>16, NobodyMoves DEF vars
<1>17. ASSUME NEW w \in Workers, ListBadges(w), b \notin auto
       PROVE  Good
  BY <1>17 DEF ListBadges, MissIsShort
<1> QED
  BY <1>2, <1>3, <1>4, <1>5, <1>6, <1>7, <1>8, <1>9, <1>10, <1>11, <1>12, <1>13, <1>14,
     <1>15, <1>16, <1>17 DEF Next, Serve, AwardByScan, AwardByViolation

LEMMA ShortIsBounded ==
  ASSUME TypeOK, MissesAreShort
  PROVE  MissesAreBounded
<1> SUFFICES ASSUME NEW p \in Participants \ owed, NEW b \in auto, b \notin badges[p],
                    ~ \E w \in Workers : StillToGive(w, p, b) \/ Deducting(w, p)
             PROVE  /\ Required[b] # 0
                    /\ total[p] < Required[b] + MaxAward * (Cardinality(Workers) - 1)
  BY DEF MissesAreBounded
<1>1. Required[b] # 0 /\ Short(p, b)
  BY DEF MissesAreShort
<1>2. total[p] \in Int /\ b \in Badges /\ MaxAward \in Nat
  BY DEF TypeOK, PointsAssumption
<1>3. PICK L \in Int : L = Required[b] + MaxAward * (Cardinality(Workers) - 1)
  <2>1. \A w \in Workers : MaxAward * (Cardinality(Workers) - 1) \in Nat
    BY OthersOnly
  <2>2. MaxAward * (Cardinality(Workers) - 1) \in Nat /\ Required[b] \in Int
    BY <1>2, <2>1 DEF PointsAssumption
  <2> QED
    BY <2>2
<1>4. ASSUME NEW S, S \subseteq Workers
      PROVE  MaxAward * Cardinality(S) \in Nat
  <2>1. Cardinality(S) \in Nat
    BY <1>4, FS_Subset, FS_CardinalityType DEF PointsAssumption
  <2> QED
    BY <1>2, <2>1, TimesMonotone
<1>5. Looked(p) \subseteq Workers
  BY DEF Looked
<1>6. CASE total[p] + MaxAward * Cardinality(Looked(p)) < L
  <2>1. PICK K \in Nat : K = MaxAward * Cardinality(Looked(p))
    BY <1>4, <1>5
  <2> QED
    BY <1>1, <1>2, <1>3, <1>6, <2>1
<1>7. ASSUME NEW x \in Looked(p),
             total[p] + local[x].own + MaxAward * Cardinality(Looked(p) \ {x}) < L
      PROVE  total[p] < L
  <2>1. PICK K \in Nat : K = MaxAward * Cardinality(Looked(p) \ {x})
    <3>1. Looked(p) \ {x} \subseteq Workers
      BY <1>5
    <3> QED
      BY <1>4, <3>1
  <2>2. local[x].own \in Int /\ ~(local[x].own < 0)
    BY <1>5, RequestShape DEF Looked, Deducting, Summed, Listed
  <2>3. PICK a \in Int : a = local[x].own
    BY <2>2
  <2> QED
    BY <1>2, <1>7, <2>1, <2>2, <2>3
<1> QED
  BY <1>1, <1>3, <1>6, <1>7 DEF Short

\* Of apply_auto_badges: a participant who was looked at misses an automatic badge only
\* by less than one award of every other worker process, whoever commits when.
THEOREM MissesBounded == Spec => []MissesAreBounded
<1>1. Init => MissesAreShort
  BY DEF Init, MissesAreShort
<1>2. TypeOK /\ OwnIsBounded /\ MissesAreShort /\ [Next]_vars => MissesAreShort'
  <2> SUFFICES ASSUME TypeOK, OwnIsBounded, MissesAreShort, [Next]_vars
               PROVE  MissesAreShort'
    OBVIOUS
  <2>1. \A p \in Participants, b \in Badges : MissIsShort(p, b)
    BY DEF MissesAreShort, MissIsShort
  <2>2. \A p \in Participants, b \in Badges : MissIsShort(p, b)'
    BY <2>1, MissStep
  <2>3. auto' \subseteq Badges
    BY TypeStep DEF TypeOK
  <2> QED
    BY <2>2, <2>3 DEF MissesAreShort, MissIsShort
<1>3. TypeOK /\ MissesAreShort => MissesAreBounded
  BY ShortIsBounded
<1> QED
  BY <1>1, <1>2, <1>3, PointsTypeCorrect, OwnAlways, PTL DEF Spec
=============================================================================
