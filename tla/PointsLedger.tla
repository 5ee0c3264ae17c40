----------------------------- MODULE PointsLedger -----------------------------
(***************************************************************************)
(* Points and automatic badges.  award_points inserts a PointTransaction,  *)
(* then apply_auto_badges sums the participant's points, lists the badges  *)
(* of the event that are given automatically, and gives those the sum is   *)
(* enough for.                                                             *)
(*                                                                         *)
(* A scan at the desk and a violation do this inside their transaction,    *)
(* points given by hand do it statement by statement.  The database is     *)
(* PostgreSQL with READ COMMITTED: a sum has what was committed before it, *)
(* and the points the same transaction inserted.  Two transactions can     *)
(* therefore each miss the points of the other.                            *)
(*                                                                         *)
(* What ParticipantDesk, Workshops and Certificates have in detail (whose  *)
(* scan is accepted, what a violation blocks) is left to them; here a scan *)
(* is an award.                                                            *)
(***************************************************************************)
EXTENDS Integers, FiniteSets

CONSTANTS
  Participants,
  Badges,      \* badges of the event
  Required,    \* points_required of each badge; 0 asks for nothing
  Workers,     \* worker processes, one request each at a time
  Awards,      \* what workshops and the check-in rule give, and clerks by hand
  MaxAward,    \* no award is above it
  Penalties,   \* the points violations take
  Ops,         \* the kinds of request clients send
  Low, High    \* bound: an award starts only if the committed total stays between

VARIABLES
  total,    \* the sum of the committed PointTransaction rows of each participant
  badges,   \* the committed ParticipantBadge rows: the badges of each participant
  auto,     \* the badges with auto_award
  local,    \* what each worker holds of the request it is serving
  owed,     \* history: participants nobody has summed up since something changed
            \* without apply_auto_badges, or since such a call was broken off
  peak,     \* history: the highest committed total of each participant
  byHand    \* history: badges given by a form or over REST, as <<participant, badge>>

vars == <<total, badges, auto, local, owed, peak, byHand>>
-----------------------------------------------------------------------------
AllOps == {"manual", "scan", "violation", "save_badge", "rest_badge", "give_badge",
           "revoke_badge", "rest_points"}

ASSUME PointsAssumption ==
  /\ Required \in [Badges -> Int]
  /\ IsFiniteSet(Workers) /\ Workers # {}
  /\ MaxAward \in Nat
  /\ Awards \subseteq Int /\ \A v \in Awards : v <= MaxAward
  /\ Penalties \subseteq Nat
  /\ Ops \subseteq AllOps
  /\ Low \in Int /\ High \in Int

Idle == [pc |-> "idle"]

\* A call of apply_auto_badges for who.  own: points inserted by the transaction and
\* not committed yet (0 without a transaction); todo: whom a saved badge is still to be
\* applied to.
Calling == [pc: {"inserted"}, who: Participants, atomic: BOOLEAN, own: Int,
            todo: SUBSET Participants]
Summed  == [pc: {"summed"}, who: Participants, atomic: BOOLEAN, own: Int,
            todo: SUBSET Participants, seen: Int]
Listed  == [pc: {"listed"}, who: Participants, atomic: BOOLEAN, own: Int,
            todo: SUBSET Participants, due: SUBSET Badges]
\* Between two participants a saved badge is applied to.
Visiting == [pc: {"visiting"}, todo: SUBSET Participants]

TypeOK ==
  /\ total \in [Participants -> Int]
  /\ badges \in [Participants -> SUBSET Badges]
  /\ auto \subseteq Badges
  /\ local \in [Workers -> {Idle} \union Calling \union Summed \union Listed \union Visiting]
  /\ owed \subseteq Participants
  /\ peak \in [Participants -> Int]
  /\ byHand \subseteq Participants \X Badges

\* An event with its badges set up and no points yet.
Init ==
  /\ total = [p \in Participants |-> 0]
  /\ badges = [p \in Participants |-> {}]
  /\ auto \in SUBSET Badges
  /\ local = [w \in Workers |-> Idle]
  /\ owed = Participants
  /\ peak = [p \in Participants |-> 0]
  /\ byHand = {}
-----------------------------------------------------------------------------
Become(w, l) == local' = [local EXCEPT ![w] = l]

\* The committed total of p changes by v.
Commit(p, v) ==
  /\ total' = [total EXCEPT ![p] = @ + v]
  /\ peak' = IF total[p] + v > peak[p] THEN [peak EXCEPT ![p] = total[p] + v] ELSE peak

InBounds(p, v) == total[p] + v \in Low..High

\* What is left of a request once a participant is done.
Rest(todo) == IF todo = {} THEN Idle ELSE [pc |-> "visiting", todo |-> todo]

\* Faulty variant: the total is tested for zero instead of what the badge asks for.
Earns_NoPoints(points, b) == points = 0 \/ points >= Required[b]

\* The condition under which the loop of apply_auto_badges does not skip a badge.
Earns(points, b) == Required[b] = 0 \/ points >= Required[b]
-----------------------------------------------------------------------------
(* award_points: the insert. *)

\* By hand: no transaction, so the row is there at once.
AwardByHand(w, p, v) ==
  /\ "manual" \in Ops
  /\ local[w] = Idle
  /\ InBounds(p, v)
  /\ Commit(p, v)
  /\ Become(w, [pc |-> "inserted", who |-> p, atomic |-> FALSE, own |-> 0, todo |-> {}])
  /\ UNCHANGED <<badges, auto, owed, byHand>>

InsertInTransaction(w, p, v) ==
  /\ local[w] = Idle
  /\ InBounds(p, v)
  /\ Become(w, [pc |-> "inserted", who |-> p, atomic |-> TRUE, own |-> v, todo |-> {}])
  /\ UNCHANGED <<total, badges, auto, owed, peak, byHand>>

\* perform_checkin: a workshop scan (each time it is repeated) or a check-in.
AwardByScan(w, p, v) == "scan" \in Ops /\ InsertInTransaction(w, p, v)

\* record_violation takes the penalty off.  (A service of its own: violations_admin
\* writes the violation and the block itself, and takes no points.)
AwardByViolation(w, p, v) == "violation" \in Ops /\ InsertInTransaction(w, p, -v)
-----------------------------------------------------------------------------
(* apply_auto_badges. *)

\* What the sum of a worker's participant has: committed rows, and its own.
Visible(w) == total[local[w].who] + local[w].own

SumPoints(w) ==
  /\ local[w].pc = "inserted"
  /\ LET l == local[w]
     IN /\ Become(w, [pc |-> "summed", who |-> l.who, atomic |-> l.atomic, own |-> l.own,
                      todo |-> l.todo, seen |-> Visible(w)])
        /\ owed' = owed \ {l.who}
  /\ UNCHANGED <<total, badges, auto, peak, byHand>>

ListBadges(w) ==
  /\ local[w].pc = "summed"
  /\ LET l == local[w]
     IN Become(w, [pc |-> "listed", who |-> l.who, atomic |-> l.atomic, own |-> l.own,
                   todo |-> l.todo, due |-> {b \in auto : Earns(l.seen, b)}])
  /\ UNCHANGED <<total, badges, auto, owed, peak, byHand>>

\* Without a transaction: one get_or_create after the other.
GiveOne(w, b) ==
  /\ local[w].pc = "listed"
  /\ ~local[w].atomic
  /\ b \in local[w].due
  /\ badges' = [badges EXCEPT ![local[w].who] = @ \union {b}]
  /\ Become(w, [local[w] EXCEPT !.due = @ \ {b}])
  /\ UNCHANGED <<total, auto, owed, peak, byHand>>

FinishCall(w) ==
  /\ local[w].pc = "listed"
  /\ ~local[w].atomic
  /\ local[w].due = {}
  /\ Become(w, Rest(local[w].todo))
  /\ UNCHANGED <<total, badges, auto, owed, peak, byHand>>

\* In a transaction: the points and the badges are committed together.
CommitAward(w) ==
  /\ local[w].pc = "listed"
  /\ local[w].atomic
  /\ LET l == local[w]
     IN /\ Commit(l.who, l.own)
        /\ badges' = [badges EXCEPT ![l.who] = @ \union l.due]
  /\ Become(w, Idle)
  /\ UNCHANGED <<auto, owed, byHand>>
-----------------------------------------------------------------------------
(* gamification_admin. *)

\* Faulty variant: the saved badge is applied to nobody.
Recipients_None(scope) == {}

\* Whom a saved badge is applied to: the participants that are not deleted and that the
\* clerk may see.
Recipients(scope) == scope

\* The form always creates a badge.
SaveAutoBadge(w, b, scope) ==
  /\ "save_badge" \in Ops
  /\ local[w] = Idle
  /\ b \notin auto
  /\ auto' = auto \union {b}
  /\ Become(w, Rest(Recipients(scope)))
  /\ owed' = owed \union (Participants \ scope)
  /\ UNCHANGED <<total, badges, peak, byHand>>

\* apply_auto_badges for the next participant, in no order the code promises.
VisitParticipant(w, p) ==
  /\ local[w].pc = "visiting"
  /\ p \in local[w].todo
  /\ Become(w, [pc |-> "inserted", who |-> p, atomic |-> FALSE, own |-> 0,
                todo |-> local[w].todo \ {p}])
  /\ UNCHANGED <<total, badges, auto, owed, peak, byHand>>

\* AwardBadgeForm, and the viewset of participant-badges.
GiveByHand(w, p, b) ==
  /\ "give_badge" \in Ops
  /\ local[w] = Idle
  /\ badges' = [badges EXCEPT ![p] = @ \union {b}]
  /\ byHand' = byHand \union {<<p, b>>}
  /\ UNCHANGED <<total, auto, local, owed, peak>>
-----------------------------------------------------------------------------
(* REST: plain writes, which apply nothing. *)

\* auto_award is set or cleared.
PatchBadge(w, b) ==
  /\ "rest_badge" \in Ops
  /\ local[w] = Idle
  /\ \/ b \in auto /\ auto' = auto \ {b} /\ UNCHANGED owed
     \/ b \notin auto /\ auto' = auto \union {b} /\ owed' = Participants
  /\ UNCHANGED <<total, badges, local, peak, byHand>>

RevokeBadge(w, p, b) ==
  /\ "revoke_badge" \in Ops
  /\ local[w] = Idle
  /\ b \in badges[p]
  /\ badges' = [badges EXCEPT ![p] = @ \ {b}]
  /\ byHand' = byHand \ {<<p, b>>}
  /\ owed' = owed \union {p}
  /\ UNCHANGED <<total, auto, local, peak>>

\* A PointTransaction is created, changed or deleted: the total changes by v.
WritePoints(w, p, v) ==
  /\ "rest_points" \in Ops
  /\ local[w] = Idle
  /\ InBounds(p, v)
  /\ Commit(p, v)
  /\ owed' = owed \union {p}
  /\ UNCHANGED <<badges, auto, local, byHand>>
-----------------------------------------------------------------------------
\* Whom a request leaves unattended when it ends here: the points it committed, or
\* that it has summed up for others, are not followed by badges.
LeftBehind(w) ==
  LET l == local[w]
  IN CASE l.pc = "visiting" -> l.todo
       [] l.pc = "inserted" -> IF l.atomic THEN {} ELSE l.todo \union {l.who}
       [] OTHER             -> l.todo \union {l.who}

\* A crash, or an error; an open transaction is rolled back.
Abandon(w) ==
  /\ local[w] # Idle
  /\ owed' = owed \union LeftBehind(w)
  /\ Become(w, Idle)
  /\ UNCHANGED <<total, badges, auto, peak, byHand>>

Serve(w) ==
  \/ \E p \in Participants, v \in Awards :
       \/ AwardByHand(w, p, v)
       \/ AwardByScan(w, p, v)
       \/ WritePoints(w, p, v)
  \/ \E p \in Participants, v \in Penalties : AwardByViolation(w, p, v)
  \/ SumPoints(w)
  \/ ListBadges(w)
  \/ \E b \in Badges : GiveOne(w, b) \/ PatchBadge(w, b)
  \/ \E b \in Badges, scope \in SUBSET Participants : SaveAutoBadge(w, b, scope)
  \/ FinishCall(w)
  \/ CommitAward(w)
  \/ \E p \in Participants : VisitParticipant(w, p)
  \/ \E p \in Participants, b \in Badges : GiveByHand(w, p, b) \/ RevokeBadge(w, p, b)
  \/ Abandon(w)

Next == \E w \in Workers : Serve(w)

Spec == Init /\ [][Next]_vars
-----------------------------------------------------------------------------
\* A request that is going to give b to p, or to find out.
StillToGive(w, p, b) ==
  LET l == local[w]
  IN \/ l.pc \in {"visiting", "inserted", "summed", "listed"} /\ p \in l.todo
     \/ l.pc = "inserted" /\ l.who = p /\ ~l.atomic
     \/ l.pc = "summed" /\ l.who = p /\ (Required[b] = 0 \/ l.seen >= Required[b])
     \/ l.pc = "listed" /\ l.who = p /\ b \in l.due

\* An open transaction that is going to take points off p, and has summed up already.
Deducting(w, p) ==
  local[w].pc \in {"summed", "listed"} /\ local[w].who = p /\ local[w].own < 0

\* Of apply_auto_badges: a participant whom somebody has looked at, and nobody is about
\* to give an automatic badge to, lacks it only with fewer points than it asks for, but
\* for one award of every other worker: transactions do not see the points of each
\* other, and whoever commits last does not look again.  (While a violation is being
\* recorded the committed total is not what its transaction summed up.)
MissesAreBounded ==
  \A p \in Participants \ owed, b \in auto :
    \/ b \in badges[p]
    \/ \E w \in Workers : StillToGive(w, p, b) \/ Deducting(w, p)
    \/ /\ Required[b] # 0
       /\ total[p] < Required[b] + MaxAward * (Cardinality(Workers) - 1)

\* Of apply_auto_badges: a badge that nobody gave by hand was earned, up to one award:
\* a transaction gives it for points that others do not see yet, and what it commits
\* may meet a penalty committed meanwhile.
BadgesAreEarned ==
  \A p \in Participants : \A b \in badges[p] :
    \/ <<p, b>> \in byHand
    \/ Required[b] = 0
    \/ peak[p] >= Required[b] - MaxAward
-----------------------------------------------------------------------------
(* Inductive strengthenings. *)

\* What a transaction inserted is one award at most, and nobody waits for it.
OwnIsBounded ==
  \A w \in Workers :
    local[w].pc \in {"inserted", "summed", "listed"} =>
      /\ local[w].own <= MaxAward
      /\ ~local[w].atomic => local[w].own = 0
      /\ local[w].atomic => local[w].todo = {}

\* The open transactions that have summed up the points of p and will not do so again.
Looked(p) ==
  {w \in Workers : local[w].pc \in {"summed", "listed"} /\ local[w].who = p /\ local[w].atomic}

\* The total of p is so low that it misses b by less than the other workers can add when
\* those that looked commit; x is the last one that did.
Short(p, b) ==
  LET limit == Required[b] + MaxAward * (Cardinality(Workers) - 1)
  IN \/ total[p] + MaxAward * Cardinality(Looked(p)) < limit
     \/ \E x \in Looked(p) :
          total[p] + local[x].own + MaxAward * Cardinality(Looked(p) \ {x}) < limit

MissesAreShort ==
  \A p \in Participants \ owed, b \in auto :
    \/ b \in badges[p]
    \/ \E w \in Workers : StillToGive(w, p, b)
    \/ Required[b] # 0 /\ Short(p, b)

\* What requests hold of a sum does not exceed the highest total by more than an award.
SumsAreEarned ==
  /\ \A p \in Participants : total[p] <= peak[p]
  /\ \A w \in Workers :
       /\ local[w].pc = "summed" => local[w].seen <= peak[local[w].who] + MaxAward
       /\ local[w].pc = "listed" =>
            \A b \in local[w].due :
              Required[b] = 0 \/ Required[b] <= peak[local[w].who] + MaxAward
=============================================================================
