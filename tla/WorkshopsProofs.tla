---------------------------- MODULE WorkshopsProofs ----------------------------
(***************************************************************************)
(* Theorems about Workshops, for every set of workshops, participants and  *)
(* workers, every capacity, every timetable and both databases.            *)
(***************************************************************************)
EXTENDS Workshops, FiniteSetTheorems, Functions, TLAPS

USE WorkshopsAssumption

LEMMA RequestShape ==
  ASSUME TypeOK, NEW w \in Workers
  PROVE  /\ local[w].pc = "idle" <=> local[w] = Idle
         /\ local[w].pc = "loaded" => local[w] \in Loaded
         /\ local[w].pc = "counted" => local[w] \in Counted
         /\ local[w].pc = "found" => local[w] \in Found
         /\ local[w].pc = "attending" => local[w] \in Attending
         /\ local[w].pc = "saving" => local[w] \in Saving
  BY DEF TypeOK, Request, Idle, Loaded, Counted, Found, Attending, Saving

\* What Become does to the workers, one by one.
LEMMA BecomeOne ==
  ASSUME TypeOK, NEW w \in Workers, NEW l, Become(w, l)
  PROVE  /\ local'[w] = l
         /\ \A v \in Workers : v # w => local'[v] = local[v]
  BY DEF TypeOK, Become

LEMMA BecomeType ==
  ASSUME TypeOK, NEW w \in Workers, NEW l \in Request, Become(w, l)
  PROVE  local' \in [Workers -> Request]
  BY DEF TypeOK, Become

LEMMA KeysHaveTitles ==
  /\ \A x \in Registrations : TitleOf(x) \in Titles /\ WhoOf(x) \in Participants
  /\ \A x, y \in Registrations : TitleOf(x) = TitleOf(y) /\ WhoOf(x) = WhoOf(y) => x = y
  BY DEF Registrations, TitleOf, WhoOf

LEMMA InitTyped == Init => TypeOK
  BY DEF Init, TypeOK, Request

\* Every variable keeps its type: a registration has one of the statuses of the
\* model, a request holds what its stage has read.
THEOREM WorkshopsTypeCorrect == Spec => []TypeOK
<1>1. Init => TypeOK
  BY InitTyped
<1>2. TypeOK /\ [Next]_vars => TypeOK'
  <2> SUFFICES ASSUME TypeOK, [Next]_vars PROVE TypeOK'
    OBVIOUS
  <2>1. ASSUME NEW w \in Workers, NEW x \in Registrations, LoadWorkshop(w, x)
        PROVE  TypeOK'
    <3>1. [pc |-> "loaded", key |-> x, slot |-> slot[TitleOf(x)]] \in Request
      BY KeysHaveTitles DEF TypeOK, Loaded, Request
    <3>2. local' \in [Workers -> Request]
      BY <2>1, <3>1, BecomeType DEF LoadWorkshop
    <3> QED
      BY <2>1, <3>2 DEF TypeOK, LoadWorkshop
  <2>2. ASSUME NEW w \in Workers, CountSeats(w)
        PROVE  TypeOK'
    <3>1. local[w] \in Loaded
      BY <2>2, RequestShape DEF CountSeats
    <3>2. [pc |-> "counted", key |-> local[w].key, slot |-> local[w].slot,
           status |-> EntryStatus(TitleOf(local[w].key))] \in Request
      BY <3>1 DEF Loaded, Counted, Request, EntryStatus
    <3>3. local' \in [Workers -> Request]
      BY <2>2, <3>2, BecomeType DEF CountSeats, Request
    <3> QED
      BY <2>2, <3>3 DEF TypeOK, CountSeats
  <2>3. ASSUME NEW w \in Workers, FindRegistration(w)
        PROVE  TypeOK'
    <3>1. local[w] \in Counted
      BY <2>3, RequestShape DEF FindRegistration
    <3>2. [pc |-> "found", key |-> local[w].key, slot |-> local[w].slot,
           status |-> local[w].status,
           how |-> IF reg[local[w].key] = "none" THEN "insert" ELSE "update"] \in Request
      BY <3>1 DEF Counted, Found, Request
    <3>3. local' \in [Workers -> Request]
      BY <2>3, <3>2, BecomeType DEF FindRegistration, Request
    <3> QED
      BY <2>3, <3>3 DEF TypeOK, FindRegistration
  <2>4. ASSUME NEW w \in Workers, SaveEnrolment(w)
        PROVE  TypeOK'
    <3>1. local[w] \in Found
      BY <2>4, RequestShape DEF SaveEnrolment
    <3>2. [pc |-> "counted", key |-> local[w].key, slot |-> local[w].slot,
           status |-> local[w].status] \in Request
      BY <3>1 DEF Counted, Found, Request
    <3>3. local' \in [Workers -> Request]
      BY <2>4, <3>2, BecomeType DEF SaveEnrolment, Request
    <3>4. reg' \in [Registrations -> Statuses \union {"none"}]
      BY <2>4, <3>1 DEF TypeOK, SaveEnrolment, Found, Statuses
    <3> QED
      BY <2>4, <3>3, <3>4 DEF TypeOK, SaveEnrolment
  <2>5. ASSUME NEW w \in Workers, NEW x \in Registrations, ScanAttendance(w, x)
        PROVE  TypeOK'
    <3>1. [pc |-> "attending", key |-> x] \in Request
      BY DEF Attending, Request
    <3>2. local' \in [Workers -> Request]
      BY <2>5, <3>1, BecomeType DEF ScanAttendance
    <3> QED
      BY <2>5, <3>2 DEF TypeOK, ScanAttendance
  <2>6. ASSUME NEW w \in Workers, MarkAttended(w)
        PROVE  TypeOK'
    <3>1. local[w] \in Attending
      BY <2>6, RequestShape DEF MarkAttended
    <3>2. local' \in [Workers -> Request]
      BY <2>6, BecomeType DEF MarkAttended, Request
    <3> QED
      BY <2>6, <3>1, <3>2 DEF TypeOK, MarkAttended, Attending, Statuses
  <2>7. ASSUME NEW w \in Workers, NEW x \in Registrations, NEW status \in Statuses,
               CleanRest(w, x, status)
        PROVE  TypeOK'
    <3>1. [pc |-> "saving", key |-> x, status |-> status] \in Request
      BY DEF Saving, Request
    <3>2. local' \in [Workers -> Request]
      BY <2>7, <3>1, BecomeType DEF CleanRest
    <3> QED
      BY <2>7, <3>2 DEF TypeOK, CleanRest
  <2>8. ASSUME NEW w \in Workers, SaveRest(w)
        PROVE  TypeOK'
    <3>1. local[w] \in Saving
      BY <2>8, RequestShape DEF SaveRest
    <3>2. local' \in [Workers -> Request]
      BY <2>8, BecomeType DEF SaveRest, Request
    <3>3. reg' \in [Registrations -> Statuses \union {"none"}]
      BY <2>8, <3>1 DEF TypeOK, SaveRest, Saving
    <3>4. bypasses' \in [Titles -> Nat]
      BY <2>8, <3>1, KeysHaveTitles DEF TypeOK, SaveRest, Saving
    <3> QED
      BY <2>8, <3>2, <3>3, <3>4 DEF TypeOK, SaveRest
  <2>9. ASSUME NEW w \in Workers, NEW x \in Registrations, Delete(w, x)
        PROVE  TypeOK'
    BY <2>9 DEF TypeOK, Delete
  <2>10. ASSUME NEW w \in Workers, NEW k \in Titles, Reschedule(w, k)
         PROVE  TypeOK'
    BY <2>10 DEF TypeOK, Reschedule
  <2>11. ASSUME NEW w \in Workers, Abandon(w)
         PROVE  TypeOK'
    <3>1. local' \in [Workers -> Request]
      BY <2>11, BecomeType DEF Abandon, Request
    <3> QED
      BY <2>11, <3>1 DEF TypeOK, Abandon
  <2>12. CASE UNCHANGED vars
    BY <2>12 DEF TypeOK, vars
  <2> QED
    BY <2>1, <2>2, <2>3, <2>4, <2>5, <2>6, <2>7, <2>8, <2>9, <2>10, <2>11, <2>12
       DEF Next, NextOf
<1> QED
  BY <1>1, <1>2, PTL DEF Spec
-----------------------------------------------------------------------------
(***************************************************************************)
(* Overbooking.                                                            *)
(***************************************************************************)

\* The seats in k that are taken or may be written back by a scan in progress.
Held(k) == Seats(k) \union Scanned(k)

LEMMA Counts ==
  ASSUME TypeOK, NEW k \in Titles
  PROVE  /\ IsFiniteSet(Registrations)
         /\ IsFiniteSet(Seats(k)) /\ Cardinality(Seats(k)) \in Nat
         /\ IsFiniteSet(Held(k)) /\ Cardinality(Held(k)) \in Nat
         /\ IsFiniteSet(Scanned(k)) /\ Cardinality(Scanned(k)) \in Nat
         /\ IsFiniteSet(Promised(k)) /\ Cardinality(Promised(k)) \in Nat
         /\ Cardinality(Seats(k)) <= Cardinality(Held(k))
         /\ Cardinality(Held(k)) <= Cardinality(Seats(k)) + Cardinality(Scanned(k))
         /\ Cardinality(Workers) \in Nat /\ Cardinality(Workers) > 0
         /\ Capacity[k] \in Nat /\ bypasses[k] \in Nat
<1>1. IsFiniteSet(Titles) /\ IsFiniteSet(Participants) /\ IsFiniteSet(Workers) /\ Workers # {}
      /\ Capacity[k] \in Nat
  BY DEF WorkshopsAssumption
<1>2. IsFiniteSet(Registrations)
  BY <1>1, FS_Product DEF Registrations
<1>3. /\ Seats(k) \subseteq Registrations /\ Scanned(k) \subseteq Registrations
      /\ Held(k) \subseteq Registrations /\ Promised(k) \subseteq Workers
      /\ Seats(k) \subseteq Held(k)
  BY DEF Seats, Scanned, Held, Promised
<1>4. /\ IsFiniteSet(Seats(k)) /\ IsFiniteSet(Scanned(k)) /\ IsFiniteSet(Held(k))
      /\ IsFiniteSet(Promised(k)) /\ Cardinality(Seats(k)) <= Cardinality(Held(k))
  BY <1>1, <1>2, <1>3, FS_Subset
<1>5. /\ Cardinality(Seats(k)) \in Nat /\ Cardinality(Scanned(k)) \in Nat
      /\ Cardinality(Held(k)) \in Nat /\ Cardinality(Promised(k)) \in Nat
      /\ Cardinality(Workers) \in Nat /\ Cardinality(Workers) # 0
  BY <1>1, <1>4, FS_CardinalityType, FS_EmptySet
<1>6. Cardinality(Held(k)) <= Cardinality(Seats(k)) + Cardinality(Scanned(k))
  <2>1. IsFiniteSet(Seats(k) \cap Scanned(k))
    BY <1>4, FS_Intersection
  <2>2. Cardinality(Seats(k) \cap Scanned(k)) \in Nat
    BY <2>1, FS_CardinalityType
  <2>3. Cardinality(Held(k)) = Cardinality(Seats(k)) + Cardinality(Scanned(k))
                                 - Cardinality(Seats(k) \cap Scanned(k))
    BY <1>4, FS_Union DEF Held
  <2> QED
    BY <1>5, <2>2, <2>3
<1> QED
  BY <1>2, <1>4, <1>5, <1>6 DEF TypeOK

\* How a step can change a finite set at most.
LEMMA GrowsByOne ==
  ASSUME NEW S, IsFiniteSet(S), NEW T, NEW x, T \subseteq S \union {x}
  PROVE  IsFiniteSet(T) /\ Cardinality(T) \in Nat /\ Cardinality(T) <= Cardinality(S) + 1
<1>1. IsFiniteSet(S \union {x}) /\ Cardinality(S \union {x}) <= Cardinality(S) + 1
  <2>1. IsFiniteSet(S \union {x}) /\ (x \in S => Cardinality(S \union {x}) = Cardinality(S))
        /\ (x \notin S => Cardinality(S \union {x}) = Cardinality(S) + 1)
    BY FS_AddElement
  <2>2. Cardinality(S) \in Nat
    BY FS_CardinalityType
  <2> QED
    BY <2>1, <2>2
<1>2. IsFiniteSet(T) /\ Cardinality(T) <= Cardinality(S \union {x})
  BY <1>1, FS_Subset
<1>3. Cardinality(T) \in Nat /\ Cardinality(S \union {x}) \in Nat /\ Cardinality(S) \in Nat
  BY <1>1, <1>2, FS_CardinalityType
<1> QED
  BY <1>1, <1>2, <1>3

\* A worker that holds neither a scan nor a promise leaves room for one more.
LEMMA RoomForOne ==
  ASSUME TypeOK, NEW k \in Titles, NEW w \in Workers, local[w].pc = "loaded"
  PROVE  Cardinality(Scanned(k)) + Cardinality(Promised(k)) < Cardinality(Workers)
<1> DEFINE A == {v \in Workers : local[v].pc = "attending" /\ TitleOf(local[v].key) = k}
           P == Promised(k)
<1>1. IsFiniteSet(Workers) /\ A \subseteq Workers /\ P \subseteq Workers
  BY DEF WorkshopsAssumption, Promised
<1>2. IsFiniteSet(A) /\ IsFiniteSet(P) /\ Cardinality(A) \in Nat /\ Cardinality(P) \in Nat
  BY <1>1, FS_Subset, FS_CardinalityType
<1>3. Cardinality(Scanned(k)) <= Cardinality(A)
  <2> DEFINE f == [v \in A |-> local[v].key]
  <2>1. f \in [A -> Scanned(k)]
    BY RequestShape DEF Scanned, Attending
  <2>2. \A x \in Scanned(k) : \E v \in A : f[v] = x
    BY DEF Scanned
  <2>3. f \in Surjection(A, Scanned(k))
    BY <2>1, <2>2 DEF Surjection
  <2> HIDE DEF f, A
  <2> QED
    BY <1>2, <2>3, FS_Surjection
<1>4. Cardinality(A) + Cardinality(P) < Cardinality(Workers)
  <2>1. A \cap P = {}
    BY DEF Promised
  <2>2. IsFiniteSet(A \union P) /\ Cardinality(A \union P) = Cardinality(A) + Cardinality(P)
    <3>1. IsFiniteSet(A \union P)
          /\ Cardinality(A \union P) = Cardinality(A) + Cardinality(P) - Cardinality(A \cap P)
      BY <1>2, FS_Union
    <3>2. Cardinality(A \cap P) = 0
      BY <2>1, FS_EmptySet
    <3> HIDE DEF A, P
    <3> QED
      BY <1>2, <3>1, <3>2
  <2>3. A \union P \subseteq Workers \ {w} /\ w \in Workers
    BY DEF Promised
  <2>4. IsFiniteSet(Workers \ {w}) /\ Cardinality(Workers \ {w}) = Cardinality(Workers) - 1
    BY <1>1, FS_RemoveElement
  <2>5. Cardinality(A \union P) <= Cardinality(Workers \ {w})
    BY <2>3, <2>4, FS_Subset
  <2>6. Cardinality(Workers) \in Nat
    BY <1>1, FS_CardinalityType
  <2> QED
    BY <1>2, <2>2, <2>4, <2>5, <2>6
<1>5. Cardinality(Scanned(k)) \in Nat /\ Cardinality(Workers) \in Nat
  BY Counts
<1> HIDE DEF A, P
<1> QED
  BY <1>2, <1>3, <1>4, <1>5 DEF P

\* Requests that hold neither a scan nor a promise when they are done take both
\* with them.
LEMMA LettingGo ==
  ASSUME TypeOK, NEW k \in Titles, NEW w \in Workers, NEW l, Become(w, l), reg' = reg,
         l.pc # "attending"
  PROVE  /\ Held(k)' \subseteq Held(k)
         /\ ~(l.pc \in {"counted", "found"} /\ l.status = "registered")
               => Promised(k)' \subseteq Promised(k)
<1>1. Scanned(k)' \subseteq Scanned(k)
  BY BecomeOne DEF Scanned
<1>2. Seats(k)' = Seats(k)
  BY DEF Seats
<1>3. ~(l.pc \in {"counted", "found"} /\ l.status = "registered")
        => Promised(k)' \subseteq Promised(k)
  BY BecomeOne DEF Promised
<1> QED
  BY <1>1, <1>2, <1>3 DEF Held

\* A row written by a request that then is done.
LEMMA WritingOne ==
  ASSUME TypeOK, NEW k \in Titles, NEW w \in Workers, NEW x \in Registrations,
         \A y \in Registrations : y # x => reg'[y] = reg[y], Become(w, Idle)
  PROVE  /\ Held(k)' \subseteq Held(k) \union {x}
         /\ (TitleOf(x) # k \/ reg'[x] \notin Seated \/ x \in Held(k))
               => Held(k)' \subseteq Held(k)
         /\ Promised(k)' \subseteq Promised(k) \ {w}
<1>1. Scanned(k)' \subseteq Scanned(k)
  BY BecomeOne DEF Scanned, Idle
<1>2. Promised(k)' \subseteq Promised(k) \ {w}
  BY BecomeOne DEF Promised, Idle
<1> QED
  BY <1>1, <1>2 DEF Held, Seats

\* What a step can do to the seats of a workshop: nothing worse than before; a
\* promise kept; a seat taken by REST; or a promise given while a seat is free.
Harmless(k) ==
  /\ Held(k)' \subseteq Held(k)
  /\ Promised(k)' \subseteq Promised(k)
  /\ bypasses'[k] >= bypasses[k]

KeepsPromise(w, k) ==
  /\ \E x : Held(k)' \subseteq Held(k) \union {x}
  /\ w \in Promised(k) /\ Promised(k)' \subseteq Promised(k) \ {w}
  /\ bypasses'[k] = bypasses[k]

TakesUnasked(k) ==
  /\ \E x : Held(k)' \subseteq Held(k) \union {x}
  /\ Promised(k)' \subseteq Promised(k)
  /\ bypasses'[k] = bypasses[k] + 1

GivesPromise(w, k) ==
  /\ local[w].pc = "loaded" /\ ~Full(k)
  /\ Held(k)' \subseteq Held(k) /\ Promised(k)' \subseteq Promised(k) \union {w}
  /\ bypasses'[k] = bypasses[k]

LEMMA WhatStepsDo ==
  ASSUME TypeOK, TypeOK', NEW w \in Workers, NextOf(w), NEW k \in Titles
  PROVE  Harmless(k) \/ KeepsPromise(w, k) \/ TakesUnasked(k) \/ GivesPromise(w, k)
<1>1. bypasses[k] \in Nat
  BY DEF TypeOK
<1>2. ASSUME NEW l, Become(w, l), reg' = reg, bypasses' = bypasses, l.pc # "attending",
             ~(l.pc \in {"counted", "found"} /\ l.status = "registered")
      PROVE  Harmless(k)
  BY <1>1, <1>2, LettingGo DEF Harmless
<1>3. ASSUME NEW x \in Registrations, LoadWorkshop(w, x)
      PROVE  Harmless(k)
  <2> DEFINE l == [pc |-> "loaded", key |-> x, slot |-> slot[TitleOf(x)]]
  <2>1. Become(w, l) /\ l.pc = "loaded"
    BY <1>3 DEF LoadWorkshop
  <2> HIDE DEF l
  <2> QED
    BY <1>2, <1>3, <2>1 DEF LoadWorkshop
<1>4. ASSUME CountSeats(w)
      PROVE  Harmless(k) \/ GivesPromise(w, k)
  <2>1. CASE Become(w, Idle)
    BY <1>2, <1>4, <2>1 DEF CountSeats, Idle
  <2>2. CASE ~Become(w, Idle)
    <3> DEFINE l == [pc |-> "counted", key |-> local[w].key, slot |-> local[w].slot,
                     status |-> EntryStatus(TitleOf(local[w].key))]
    <3>1. /\ Become(w, l) /\ l.pc = "counted" /\ l.key = local[w].key
          /\ l.status = "registered" => ~Full(TitleOf(local[w].key))
      BY <1>4, <2>2 DEF CountSeats, EntryStatus
    <3> HIDE DEF l
    <3>2. Held(k)' \subseteq Held(k) /\ reg' = reg /\ bypasses' = bypasses
      BY <1>4, <3>1, LettingGo DEF CountSeats
    <3>3. CASE l.status = "registered" /\ TitleOf(local[w].key) = k
      <4>1. Promised(k)' \subseteq Promised(k) \union {w}
        BY <3>1, BecomeOne DEF Promised
      <4> QED
        BY <1>4, <3>1, <3>2, <3>3, <4>1 DEF GivesPromise, CountSeats
    <3>4. CASE ~(l.status = "registered" /\ TitleOf(local[w].key) = k)
      <4>1. Promised(k)' \subseteq Promised(k)
        BY <3>1, <3>4, BecomeOne DEF Promised
      <4> QED
        BY <1>1, <3>2, <4>1 DEF Harmless
    <3> QED
      BY <3>3, <3>4
  <2> QED
    BY <2>1, <2>2
<1>5. ASSUME NEW l, Become(w, l), l.pc \in {"counted", "found"},
             local[w].pc \in {"counted", "found"},
             l.key = local[w].key, l.status = local[w].status, reg' = reg, bypasses' = bypasses
      PROVE  Harmless(k)
  <2>1. Held(k)' \subseteq Held(k)
    BY <1>5, LettingGo
  <2>2. Promised(k)' \subseteq Promised(k)
    BY <1>5, BecomeOne DEF Promised
  <2> QED
    BY <1>1, <1>5, <2>1, <2>2 DEF Harmless
<1>6. ASSUME FindRegistration(w)
      PROVE  Harmless(k)
  <2>1. CASE Become(w, Idle)
    BY <1>2, <1>6, <2>1 DEF FindRegistration, Idle
  <2>2. CASE ~Become(w, Idle)
    <3> DEFINE l == [pc |-> "found", key |-> local[w].key, slot |-> local[w].slot,
                     status |-> local[w].status,
                     how |-> IF reg[local[w].key] = "none" THEN "insert" ELSE "update"]
    <3>1. Become(w, l) /\ l.pc = "found" /\ l.key = local[w].key /\ l.status = local[w].status
      BY <1>6, <2>2 DEF FindRegistration
    <3> HIDE DEF l
    <3> QED
      BY <1>5, <1>6, <3>1 DEF FindRegistration
  <2> QED
    BY <2>1, <2>2
<1>7. ASSUME SaveEnrolment(w)
      PROVE  Harmless(k) \/ KeepsPromise(w, k)
  <2>1. local[w] \in Found
    BY <1>7, RequestShape DEF SaveEnrolment
  <2>2. PICK x \in Registrations : x = local[w].key
    BY <2>1 DEF Found
  <2>3. CASE local[w].how = "insert" /\ reg[x] # "none"
    <3> DEFINE l == [pc |-> "counted", key |-> x, slot |-> local[w].slot,
                     status |-> local[w].status]
    <3>1. Become(w, l) /\ l.pc = "counted" /\ l.key = local[w].key /\ l.status = local[w].status
      BY <1>7, <2>2, <2>3 DEF SaveEnrolment
    <3> HIDE DEF l
    <3> QED
      BY <1>5, <1>7, <2>2, <2>3, <3>1 DEF SaveEnrolment
  <2>4. CASE ~(local[w].how = "insert" /\ reg[x] # "none")
    <3>1. /\ \A y \in Registrations : y # x => reg'[y] = reg[y]
          /\ reg'[x] = local[w].status /\ Become(w, Idle) /\ bypasses' = bypasses
      BY <1>7, <2>2, <2>4 DEF SaveEnrolment, TypeOK
    <3>2. CASE local[w].status = "registered" /\ TitleOf(x) = k
      <4>1. w \in Promised(k)
        BY <1>7, <2>2, <3>2 DEF SaveEnrolment, Promised
      <4>2. Held(k)' \subseteq Held(k) \union {x} /\ Promised(k)' \subseteq Promised(k) \ {w}
        BY <3>1, WritingOne
      <4> QED
        BY <3>1, <4>1, <4>2 DEF KeepsPromise
    <3>3. CASE ~(local[w].status = "registered" /\ TitleOf(x) = k)
      <4>1. TitleOf(x) # k \/ local[w].status \notin Seated
        BY <2>1, <3>3 DEF Found, Seated
      <4>2. Held(k)' \subseteq Held(k) /\ Promised(k)' \subseteq Promised(k) \ {w}
        BY <3>1, <4>1, WritingOne
      <4> QED
        BY <1>1, <3>1, <4>2 DEF Harmless
    <3> QED
      BY <3>2, <3>3
  <2> QED
    BY <2>3, <2>4
<1>8. ASSUME NEW x \in Registrations, ScanAttendance(w, x)
      PROVE  Harmless(k)
  <2> DEFINE l == [pc |-> "attending", key |-> x]
  <2>1. Become(w, l) /\ l.pc = "attending" /\ l.key = x
    BY <1>8 DEF ScanAttendance
  <2> HIDE DEF l
  <2>2. reg' = reg /\ bypasses' = bypasses /\ reg[x] \in Seated
    BY <1>8 DEF ScanAttendance
  <2>3. Seats(k)' = Seats(k)
    BY <2>2 DEF Seats
  <2>4. Scanned(k)' \subseteq Scanned(k) \union Seats(k)
    BY <2>1, <2>2, BecomeOne DEF Scanned, Seats
  <2>5. Promised(k)' \subseteq Promised(k)
    BY <2>1, BecomeOne DEF Promised
  <2> QED
    BY <1>1, <2>2, <2>3, <2>4, <2>5 DEF Harmless, Held
<1>9. ASSUME MarkAttended(w)
      PROVE  Harmless(k)
  <2>1. local[w] \in Attending
    BY <1>9, RequestShape DEF MarkAttended
  <2>2. PICK x \in Registrations : x = local[w].key
    BY <2>1 DEF Attending
  <2>3. x \in Scanned(TitleOf(x))
    BY <1>9, <2>2 DEF MarkAttended, Scanned
  <2>4. TitleOf(x) # k \/ x \in Held(k)
    BY <2>3 DEF Held
  <2>5. Become(w, Idle) /\ \A y \in Registrations : y # x => reg'[y] = reg[y]
    BY <1>9, <2>2 DEF MarkAttended, TypeOK
  <2>6. Held(k)' \subseteq Held(k) /\ Promised(k)' \subseteq Promised(k) \ {w}
    BY <2>4, <2>5, WritingOne
  <2> QED
    BY <1>1, <1>9, <2>6 DEF Harmless, MarkAttended
<1>10. ASSUME NEW x \in Registrations, NEW status \in Statuses, CleanRest(w, x, status)
       PROVE  Harmless(k)
  <2> DEFINE l == [pc |-> "saving", key |-> x, status |-> status]
  <2>1. Become(w, l) /\ l.pc = "saving"
    BY <1>10 DEF CleanRest
  <2> HIDE DEF l
  <2> QED
    BY <1>2, <1>10, <2>1 DEF CleanRest
<1>11. ASSUME SaveRest(w)
       PROVE  Harmless(k) \/ TakesUnasked(k)
  <2>1. local[w] \in Saving
    BY <1>11, RequestShape DEF SaveRest
  <2>2. PICK x \in Registrations : x = local[w].key
    BY <2>1 DEF Saving
  <2> DEFINE takes == reg[x] \notin Seated /\ local[w].status \in Seated
  <2>3. /\ \A y \in Registrations : y # x => reg'[y] = reg[y]
        /\ reg'[x] = local[w].status /\ Become(w, Idle)
        /\ bypasses' = [bypasses EXCEPT ![TitleOf(x)] = IF takes THEN @ + 1 ELSE @]
    BY <1>11, <2>2 DEF SaveRest, TypeOK
  <2>4. bypasses'[k] = IF TitleOf(x) = k /\ takes THEN bypasses[k] + 1 ELSE bypasses[k]
    BY <2>3, KeysHaveTitles DEF TypeOK
  <2>5. CASE TitleOf(x) = k /\ takes
    <3>1. Held(k)' \subseteq Held(k) \union {x} /\ Promised(k)' \subseteq Promised(k)
      BY <2>3, WritingOne
    <3> QED
      BY <2>4, <2>5, <3>1 DEF TakesUnasked
  <2>6. CASE ~(TitleOf(x) = k /\ takes)
    <3>1. TitleOf(x) # k \/ local[w].status \notin Seated \/ x \in Held(k)
      BY <2>6 DEF Held, Seats
    <3>2. Held(k)' \subseteq Held(k) /\ Promised(k)' \subseteq Promised(k)
      BY <2>3, <3>1, WritingOne
    <3> QED
      BY <1>1, <2>4, <2>6, <3>2 DEF Harmless
  <2> QED
    BY <2>5, <2>6
<1>12. ASSUME NEW x \in Registrations, Delete(w, x)
       PROVE  Harmless(k)
  <2>1. \A y \in Registrations : reg'[y] = reg[y] \/ reg'[y] = "none"
    BY <1>12 DEF Delete, TypeOK
  <2>2. Seats(k)' \subseteq Seats(k)
    BY <2>1 DEF Seats, Seated
  <2>3. Scanned(k)' = Scanned(k) /\ Promised(k)' = Promised(k)
    BY <1>12 DEF Delete, Scanned, Promised
  <2> QED
    BY <1>1, <1>12, <2>2, <2>3 DEF Harmless, Held, Delete
<1>13. ASSUME NEW t \in Titles, Reschedule(w, t)
       PROVE  Harmless(k)
  <2>1. Seats(k)' = Seats(k) /\ Scanned(k)' = Scanned(k) /\ Promised(k)' = Promised(k)
    BY <1>13 DEF Reschedule, Seats, Scanned, Promised
  <2> QED
    BY <1>1, <1>13, <2>1 DEF Harmless, Held, Reschedule
<1>14. ASSUME Abandon(w)
       PROVE  Harmless(k)
  BY <1>2, <1>14 DEF Abandon, Idle
<1> QED
  BY <1>3, <1>4, <1>6, <1>7, <1>8, <1>9, <1>10, <1>11, <1>12, <1>13, <1>14 DEF NextOf

LEMMA SeatsAndPromisesInductive ==
  ASSUME TypeOK, TypeOK', SeatsAndPromises, [Next]_vars
  PROVE  SeatsAndPromises'
<1> SUFFICES ASSUME NEW k \in Titles, Capacity[k] > 0
             PROVE  Cardinality(Held(k)') + Cardinality(Promised(k)')
                      < Capacity[k] + Cardinality(Workers) + bypasses'[k]
  BY DEF SeatsAndPromises, Held
<1> DEFINE h == Cardinality(Held(k))       p == Cardinality(Promised(k))
           H == Cardinality(Held(k)')      P == Cardinality(Promised(k)')
           N == Cardinality(Workers)
<1>1. h + p < Capacity[k] + N + bypasses[k]
  BY DEF SeatsAndPromises, Held
<1>2. /\ h \in Nat /\ p \in Nat /\ N \in Nat /\ Capacity[k] \in Nat
      /\ bypasses[k] \in Nat /\ bypasses'[k] \in Nat
      /\ IsFiniteSet(Held(k)) /\ IsFiniteSet(Promised(k))
  BY Counts DEF TypeOK
<1>3. H \in Nat /\ P \in Nat
  <2>1. Held(k)' \subseteq Registrations /\ Promised(k)' \subseteq Workers
    BY DEF Held, Seats, Scanned, Promised
  <2>2. IsFiniteSet(Registrations) /\ IsFiniteSet(Workers)
    BY Counts DEF WorkshopsAssumption
  <2> QED
    BY <2>1, <2>2, FS_Subset, FS_CardinalityType
<1>4. Held(k)' \subseteq Held(k) => H <= h
  BY <1>2, FS_Subset
<1>5. Promised(k)' \subseteq Promised(k) => P <= p
  BY <1>2, FS_Subset
<1>6. (\E x : Held(k)' \subseteq Held(k) \union {x}) => H <= h + 1
  BY <1>2, GrowsByOne
<1>7. ASSUME Harmless(k)
      PROVE  H + P < Capacity[k] + N + bypasses'[k]
  <2>1. H <= h /\ P <= p /\ bypasses'[k] >= bypasses[k]
    BY <1>4, <1>5, <1>7 DEF Harmless
  <2> HIDE DEF h, p, H, P, N
  <2> QED
    BY <1>1, <1>2, <1>3, <2>1
<1>8. ASSUME NEW w \in Workers, KeepsPromise(w, k)
      PROVE  H + P < Capacity[k] + N + bypasses'[k]
  <2>1. H <= h + 1 /\ bypasses'[k] = bypasses[k]
    BY <1>6, <1>8 DEF KeepsPromise
  <2>2. P <= p - 1
    <3>1. IsFiniteSet(Promised(k) \ {w}) /\ Cardinality(Promised(k) \ {w}) = p - 1
      BY <1>2, <1>8, FS_RemoveElement DEF KeepsPromise
    <3> QED
      BY <1>8, <3>1, FS_Subset DEF KeepsPromise
  <2> HIDE DEF h, p, H, P, N
  <2> QED
    BY <1>1, <1>2, <1>3, <2>1, <2>2
<1>9. ASSUME TakesUnasked(k)
      PROVE  H + P < Capacity[k] + N + bypasses'[k]
  <2>1. H <= h + 1 /\ P <= p /\ bypasses'[k] = bypasses[k] + 1
    BY <1>5, <1>6, <1>9 DEF TakesUnasked
  <2> HIDE DEF h, p, H, P, N
  <2> QED
    BY <1>1, <1>2, <1>3, <2>1
<1>10. ASSUME NEW w \in Workers, GivesPromise(w, k)
       PROVE  H + P < Capacity[k] + N + bypasses'[k]
  <2> DEFINE s == Cardinality(Seats(k))  r == Cardinality(Scanned(k))
  <2>1. s < Capacity[k] /\ s \in Nat /\ r \in Nat /\ h <= s + r
    BY <1>10, Counts DEF GivesPromise, Full
  <2>2. r + p < N
    BY <1>10, RoomForOne DEF GivesPromise
  <2>3. H <= h /\ bypasses'[k] = bypasses[k]
    BY <1>4, <1>10 DEF GivesPromise
  <2>4. P <= p + 1
    BY <1>2, <1>10, GrowsByOne DEF GivesPromise
  <2> HIDE DEF h, p, H, P, N, s, r
  <2> QED
    BY <1>2, <1>3, <2>1, <2>2, <2>3, <2>4
<1>11. CASE UNCHANGED vars
  <2>1. Held(k)' = Held(k) /\ Promised(k)' = Promised(k) /\ bypasses' = bypasses
    BY <1>11 DEF vars, Held, Seats, Scanned, Promised
  <2>2. Harmless(k)
    BY <1>2, <2>1 DEF Harmless
  <2> QED
    BY <1>7, <2>2
<1> QED
  BY <1>7, <1>8, <1>9, <1>10, <1>11, WhatStepsDo DEF Next

\* On either database the seats of a workshop exceed its capacity by fewer than the
\* number of workers and by the seats REST took (SeatsAreBounded).  A promise of a
\* seat is given only while one is free; promises and scans in progress are held by
\* different workers, and the worker that makes the promise is one of them.
THEOREM SeatsBounded == Spec => []SeatsAreBounded
<1>1. Init => TypeOK /\ SeatsAndPromises
  <2> SUFFICES ASSUME Init, TypeOK PROVE SeatsAndPromises
    BY InitTyped
  <2> SUFFICES ASSUME NEW k \in Titles, Capacity[k] > 0
               PROVE  Cardinality(Seats(k) \union Scanned(k)) + Cardinality(Promised(k))
                        < Capacity[k] + Cardinality(Workers) + bypasses[k]
    BY DEF SeatsAndPromises
  <2>1. Seats(k) \union Scanned(k) = {} /\ Promised(k) = {} /\ bypasses[k] = 0
    BY DEF Init, Seats, Seated, Scanned, Promised, Idle
  <2>2. Cardinality(Seats(k) \union Scanned(k)) = 0 /\ Cardinality(Promised(k)) = 0
    BY <2>1, FS_EmptySet
  <2>3. Capacity[k] \in Nat /\ Cardinality(Workers) \in Nat
    BY Counts
  <2> QED
    BY <2>1, <2>2, <2>3
<1>2. TypeOK /\ TypeOK' /\ SeatsAndPromises /\ [Next]_vars => SeatsAndPromises'
  BY SeatsAndPromisesInductive
<1>3. TypeOK /\ SeatsAndPromises => SeatsAreBounded
  <2> SUFFICES ASSUME TypeOK, SeatsAndPromises, NEW k \in Titles, Capacity[k] > 0
               PROVE  Cardinality(Seats(k)) < Capacity[k] + Cardinality(Workers) + bypasses[k]
    BY DEF SeatsAreBounded
  <2>1. Cardinality(Held(k)) + Cardinality(Promised(k))
          < Capacity[k] + Cardinality(Workers) + bypasses[k]
    BY DEF SeatsAndPromises, Held
  <2> QED
    BY <2>1, Counts
<1> QED
  BY <1>1, <1>2, <1>3, WorkshopsTypeCorrect, PTL DEF Spec
-----------------------------------------------------------------------------
(***************************************************************************)
(* What was read stays true until it is written.                           *)
(***************************************************************************)

\* Registrations and times change only at the hand of a worker that may write and
\* is in no transaction afterwards.
LEMMA WhoWrites ==
  ASSUME TypeOK, NEW w \in Workers, NextOf(w)
  PROVE  \/ reg' = reg /\ slot' = slot
         \/ /\ MayWrite(w)
            /\ local'[w].pc = "idle"
            /\ \A v \in Workers : v # w => local'[v] = local[v]
<1>1. ASSUME Become(w, Idle)
      PROVE  local'[w].pc = "idle" /\ \A v \in Workers : v # w => local'[v] = local[v]
  BY <1>1, BecomeOne DEF Idle
<1>2. ASSUME local' = local, local[w] = Idle
      PROVE  local'[w].pc = "idle" /\ \A v \in Workers : v # w => local'[v] = local[v]
  BY <1>2 DEF Idle
<1>3. CASE SaveEnrolment(w)
  BY <1>1, <1>3 DEF SaveEnrolment
<1>4. CASE MarkAttended(w) \/ SaveRest(w)
  BY <1>1, <1>4 DEF MarkAttended, SaveRest
<1>5. CASE (\E x \in Registrations : Delete(w, x)) \/ \E k \in Titles : Reschedule(w, k)
  BY <1>2, <1>5 DEF Delete, Reschedule
<1> QED
  BY <1>3, <1>4, <1>5
     DEF NextOf, LoadWorkshop, CountSeats, FindRegistration, ScanAttendance, CleanRest, Abandon

\* While nothing is written, what a worker has newly read is true and what it had
\* read stays true.
LEMMA ReadsAreTrue ==
  ASSUME TypeOK, NEW w \in Workers, NextOf(w), reg' = reg, slot' = slot,
         NEW v \in Workers, ReadsHold(v)
  PROVE  ReadsHold(v)'
<1>1. (\A k : Full(k)' = Full(k)) /\ \A x, s : Clashes(x, s)' = Clashes(x, s)
  BY DEF Full, Seats, Clashes
<1>2. ASSUME local'[v] = local[v]
      PROVE  ReadsHold(v)'
  BY <1>1, <1>2 DEF ReadsHold
<1>3. ASSUME NEW l, Become(w, l), l.pc \notin {"counted", "found", "attending"}
      PROVE  ReadsHold(v)'
  <2>1. CASE v = w
    BY <1>3, <2>1, BecomeOne DEF ReadsHold
  <2>2. CASE v # w
    BY <1>2, <1>3, <2>2, BecomeOne
  <2> QED
    BY <2>1, <2>2
<1>4. ASSUME NEW l, Become(w, l), l.pc = "counted",
             l.status = "registered" => ~Full(TitleOf(l.key))
      PROVE  ReadsHold(v)'
  <2>1. CASE v = w
    BY <1>1, <1>4, <2>1, BecomeOne DEF ReadsHold
  <2>2. CASE v # w
    BY <1>2, <1>4, <2>2, BecomeOne
  <2> QED
    BY <2>1, <2>2
<1>5. ASSUME NEW x \in Registrations, LoadWorkshop(w, x)
      PROVE  ReadsHold(v)'
  <2> DEFINE l == [pc |-> "loaded", key |-> x, slot |-> slot[TitleOf(x)]]
  <2>1. Become(w, l) /\ l.pc = "loaded"
    BY <1>5 DEF LoadWorkshop
  <2> HIDE DEF l
  <2> QED
    BY <1>3, <2>1
<1>6. ASSUME CountSeats(w)
      PROVE  ReadsHold(v)'
  <2>1. CASE Become(w, Idle)
    BY <1>3, <2>1 DEF Idle
  <2>2. CASE ~Become(w, Idle)
    <3> DEFINE l == [pc |-> "counted", key |-> local[w].key, slot |-> local[w].slot,
                     status |-> EntryStatus(TitleOf(local[w].key))]
    <3>1. /\ Become(w, l) /\ l.pc = "counted" /\ l.key = local[w].key
          /\ l.status = "registered" => ~Full(TitleOf(local[w].key))
      BY <1>6, <2>2 DEF CountSeats, EntryStatus
    <3> HIDE DEF l
    <3> QED
      BY <1>4, <3>1
  <2> QED
    BY <2>1, <2>2
<1>7. ASSUME FindRegistration(w)
      PROVE  ReadsHold(v)'
  <2>1. CASE Become(w, Idle)
    BY <1>3, <2>1 DEF Idle
  <2>2. CASE ~Become(w, Idle)
    <3> DEFINE l == [pc |-> "found", key |-> local[w].key, slot |-> local[w].slot,
                     status |-> local[w].status,
                     how |-> IF reg[local[w].key] = "none" THEN "insert" ELSE "update"]
    <3>1. /\ Become(w, l) /\ l.pc = "found" /\ l.key = local[w].key
          /\ l.status = local[w].status /\ l.slot = local[w].slot
          /\ reg[local[w].key] = (IF l.how = "insert" THEN "none" ELSE "cancelled")
          /\ l.status = "registered" => ~Clashes(local[w].key, local[w].slot)
          /\ local[w].pc = "counted"
      BY <1>7, <2>2 DEF FindRegistration, Reusable, Valid, Seated
    <3> HIDE DEF l
    <3>2. CASE v = w
      <4>1. l.status = "registered" => ~Full(TitleOf(l.key))
        BY <3>1, <3>2 DEF ReadsHold
      <4>2. local'[v] = l
        BY <3>1, <3>2, BecomeOne
      <4> QED
        BY <1>1, <3>1, <3>2, <4>1, <4>2 DEF ReadsHold
    <3>3. CASE v # w
      BY <1>2, <3>1, <3>3, BecomeOne
    <3> QED
      BY <3>2, <3>3
  <2> QED
    BY <2>1, <2>2
<1>8. ASSUME SaveEnrolment(w)
      PROVE  ReadsHold(v)'
  <2>1. CASE Become(w, Idle)
    BY <1>3, <2>1 DEF Idle
  <2>2. CASE ~Become(w, Idle)
    <3> DEFINE l == [pc |-> "counted", key |-> local[w].key, slot |-> local[w].slot,
                     status |-> local[w].status]
    <3>1. /\ Become(w, l) /\ l.pc = "counted" /\ l.key = local[w].key
          /\ l.status = local[w].status /\ local[w].pc = "found"
      BY <1>8, <2>2 DEF SaveEnrolment
    <3> HIDE DEF l
    <3>2. CASE v = w
      <4>1. l.status = "registered" => ~Full(TitleOf(l.key))
        BY <3>1, <3>2 DEF ReadsHold
      <4> QED
        BY <1>4, <3>1, <4>1
    <3>3. CASE v # w
      BY <1>2, <3>1, <3>3, BecomeOne
    <3> QED
      BY <3>2, <3>3
  <2> QED
    BY <2>1, <2>2
<1>9. ASSUME NEW x \in Registrations, ScanAttendance(w, x)
      PROVE  ReadsHold(v)'
  <2> DEFINE l == [pc |-> "attending", key |-> x]
  <2>1. Become(w, l) /\ l.pc = "attending" /\ l.key = x /\ reg[x] \in Seated
    BY <1>9 DEF ScanAttendance
  <2> HIDE DEF l
  <2>2. CASE v = w
    BY <2>1, <2>2, BecomeOne DEF ReadsHold
  <2>3. CASE v # w
    BY <1>2, <2>1, <2>3, BecomeOne
  <2> QED
    BY <2>2, <2>3
<1>10. ASSUME NEW x \in Registrations, NEW status \in Statuses, CleanRest(w, x, status)
       PROVE  ReadsHold(v)'
  <2> DEFINE l == [pc |-> "saving", key |-> x, status |-> status]
  <2>1. Become(w, l) /\ l.pc = "saving"
    BY <1>10 DEF CleanRest
  <2> HIDE DEF l
  <2> QED
    BY <1>3, <2>1
<1>11. ASSUME MarkAttended(w) \/ SaveRest(w) \/ Abandon(w)
       PROVE  ReadsHold(v)'
  BY <1>3, <1>11 DEF MarkAttended, SaveRest, Abandon, Idle
<1>12. ASSUME (\E x \in Registrations : Delete(w, x)) \/ \E k \in Titles : Reschedule(w, k)
       PROVE  ReadsHold(v)'
  BY <1>2, <1>12 DEF Delete, Reschedule
<1> QED
  BY <1>5, <1>6, <1>7, <1>8, <1>9, <1>10, <1>11, <1>12 DEF NextOf

LEMMA ReadsStillHoldInductive ==
  ASSUME TypeOK, ReadsStillHold, [Next]_vars
  PROVE  ReadsStillHold'
<1> SUFFICES ASSUME Undisturbed, NEW v \in Workers
             PROVE  ReadsHold(v)'
  BY DEF ReadsStillHold
<1>1. ReadsHold(v)
  BY DEF ReadsStillHold
<1>2. ASSUME NEW w \in Workers, NextOf(w), ~(reg' = reg /\ slot' = slot)
      PROVE  ReadsHold(v)'
  <2>1. MayWrite(w) /\ local'[w].pc = "idle" /\ (v # w => local'[v] = local[v])
    BY <1>2, WhoWrites
  <2>2. v # w => ~InTransaction(v)
    BY <2>1 DEF MayWrite, Undisturbed
  <2> QED
    BY <2>1, <2>2 DEF ReadsHold, InTransaction
<1>3. CASE UNCHANGED vars
  BY <1>1, <1>3 DEF vars, ReadsHold, Full, Seats, Clashes
<1> QED
  BY <1>1, <1>2, <1>3, ReadsAreTrue DEF Next

LEMMA ReadsHoldAlways == Spec => []ReadsStillHold
<1>1. Init => ReadsStillHold
  BY DEF Init, ReadsStillHold, ReadsHold, Idle
<1> QED
  BY <1>1, ReadsStillHoldInductive, WorkshopsTypeCorrect, PTL DEF Spec

\* On such a database a step does one of four things to the registrations: nothing;
\* an enrolment writes a row that was free to take, on a seat only if there was one
\* and the participant was free; attendance confirms a seat; REST writes or deletes.
Enrols(w, x) ==
  /\ local[w].pc = "found" /\ local[w].key = x
  /\ reg[x] \in {"none", "cancelled"}
  /\ local[w].status \in {"registered", "waitlisted"}
  /\ reg' = [reg EXCEPT ![x] = local[w].status]
  /\ local[w].status = "registered" => ~Full(TitleOf(x)) /\ ~Clashes(x, local[w].slot)

Attends(x) == reg[x] \in Seated /\ reg' = [reg EXCEPT ![x] = "attended"]

WritesRest(w, x) ==
  /\ local[w].pc = "saving" /\ local[w].key = x
  /\ SaveRest(w)

LEMMA WhatWritesDo ==
  ASSUME TypeOK, Undisturbed, ReadsStillHold, NEW w \in Workers, NextOf(w)
  PROVE  \/ reg' = reg /\ bypasses' = bypasses
         \/ \E x \in Registrations :
              \/ bypasses' = bypasses /\ slot' = slot /\ (Enrols(w, x) \/ Attends(x) \/ Delete(w, x))
              \/ WritesRest(w, x)
<1>0. ReadsHold(w)
  BY DEF ReadsStillHold
<1>1. ASSUME SaveEnrolment(w), reg' # reg
      PROVE  \E x \in Registrations : bypasses' = bypasses /\ slot' = slot /\ Enrols(w, x)
  <2>1. local[w] \in Found
    BY <1>1, RequestShape DEF SaveEnrolment
  <2>2. PICK x \in Registrations : x = local[w].key
    BY <2>1 DEF Found
  <2>3. local[w].status \in {"registered", "waitlisted"} /\ local[w].how \in {"insert", "update"}
    BY <2>1 DEF Found
  <2>4. reg[x] \in {"none", "cancelled"}
    BY <1>0, <1>1, <2>2 DEF ReadsHold, SaveEnrolment
  <2>5. local[w].status = "registered" => ~Full(TitleOf(x)) /\ ~Clashes(x, local[w].slot)
    BY <1>0, <1>1, <2>2 DEF ReadsHold, SaveEnrolment
  <2>6. Enrols(w, x)
    BY <1>1, <2>2, <2>3, <2>4, <2>5 DEF Enrols, SaveEnrolment
  <2> QED
    BY <1>1, <2>6 DEF SaveEnrolment
<1>2. ASSUME MarkAttended(w)
      PROVE  \E x \in Registrations : bypasses' = bypasses /\ slot' = slot /\ Attends(x)
  <2>1. local[w] \in Attending
    BY <1>2, RequestShape DEF MarkAttended
  <2> QED
    BY <1>0, <1>2, <2>1 DEF ReadsHold, MarkAttended, Attending, Attends
<1>3. ASSUME SaveRest(w)
      PROVE  \E x \in Registrations : WritesRest(w, x)
  <2>1. local[w] \in Saving
    BY <1>3, RequestShape DEF SaveRest
  <2> QED
    BY <1>3, <2>1 DEF SaveRest, Saving, WritesRest
<1>4. ASSUME NEW x \in Registrations, Delete(w, x)
      PROVE  bypasses' = bypasses /\ slot' = slot
  BY <1>4 DEF Delete
<1>5. ASSUME SaveEnrolment(w), reg' = reg
      PROVE  bypasses' = bypasses
  BY <1>5 DEF SaveEnrolment
<1> QED
  BY <1>1, <1>2, <1>3, <1>4, <1>5
     DEF NextOf, LoadWorkshop, CountSeats, FindRegistration, ScanAttendance, CleanRest,
         Reschedule, Abandon

\* On SQLite or with one worker the seats of a workshop never exceed its capacity and
\* what REST took (SeatsAreExact): the count an enrolment acts on is still true when it
\* writes.
THEOREM SeatsStayExact ==
  ASSUME Undisturbed
  PROVE  Spec => []SeatsAreExact
<1>1. Init => SeatsAreExact
  <2> SUFFICES ASSUME Init, NEW k \in Titles PROVE Cardinality(Seats(k)) = 0 /\ Capacity[k] \in Nat
    BY DEF SeatsAreExact, Init
  <2>1. Seats(k) = {}
    BY DEF Init, Seats, Seated
  <2> QED
    BY <2>1, FS_EmptySet, InitTyped, Counts
<1>2. TypeOK /\ TypeOK' /\ ReadsStillHold /\ SeatsAreExact /\ [Next]_vars => SeatsAreExact'
  <2> SUFFICES ASSUME TypeOK, TypeOK', ReadsStillHold, SeatsAreExact, [Next]_vars,
                      NEW k \in Titles, Capacity[k] > 0
               PROVE  Cardinality(Seats(k)') <= Capacity[k] + bypasses'[k]
    BY DEF SeatsAreExact
  <2> DEFINE s == Cardinality(Seats(k))  S == Cardinality(Seats(k)')
  <2>1. /\ s \in Nat /\ Capacity[k] \in Nat /\ bypasses[k] \in Nat /\ bypasses'[k] \in Nat
        /\ IsFiniteSet(Seats(k)) /\ s <= Capacity[k] + bypasses[k]
    BY Counts DEF TypeOK, SeatsAreExact
  <2>2. ASSUME Seats(k)' \subseteq Seats(k), bypasses'[k] >= bypasses[k]
        PROVE  S <= Capacity[k] + bypasses'[k]
    <3>1. S <= s /\ S \in Nat
      BY <2>1, <2>2, FS_Subset, FS_CardinalityType
    <3> HIDE DEF s, S
    <3> QED
      BY <2>1, <2>2, <3>1
  <2>3. ASSUME NEW x, Seats(k)' \subseteq Seats(k) \union {x},
               s < Capacity[k] + bypasses'[k] \/ bypasses'[k] = bypasses[k] + 1
        PROVE  S <= Capacity[k] + bypasses'[k]
    <3>1. S <= s + 1 /\ S \in Nat
      BY <2>1, <2>3, GrowsByOne
    <3> HIDE DEF s, S
    <3> QED
      BY <2>1, <2>3, <3>1
  <2>4. ASSUME NEW x \in Registrations, NEW w \in Workers, Enrols(w, x), bypasses' = bypasses
        PROVE  S <= Capacity[k] + bypasses'[k]
    <3>1. \A y \in Registrations : y # x => reg'[y] = reg[y]
      BY <2>4 DEF Enrols, TypeOK
    <3>2. CASE TitleOf(x) = k /\ local[w].status = "registered"
      <4>1. Seats(k)' \subseteq Seats(k) \union {x}
        BY <3>1 DEF Seats
      <4>2. s < Capacity[k] + bypasses'[k]
        BY <2>1, <2>4, <3>2 DEF Enrols, Full
      <4> QED
        BY <2>3, <4>1, <4>2
    <3>3. CASE ~(TitleOf(x) = k /\ local[w].status = "registered")
      <4>1. TitleOf(x) # k \/ reg'[x] \notin Seated
        BY <2>4, <3>3 DEF Enrols, TypeOK, Seated
      <4>2. Seats(k)' \subseteq Seats(k)
        BY <3>1, <4>1 DEF Seats
      <4> QED
        BY <2>1, <2>2, <2>4, <4>2
    <3> QED
      BY <3>2, <3>3
  <2>5. ASSUME NEW x \in Registrations, Attends(x), bypasses' = bypasses
        PROVE  S <= Capacity[k] + bypasses'[k]
    <3>1. Seats(k)' \subseteq Seats(k)
      BY <2>5 DEF Attends, TypeOK, Seats
    <3> QED
      BY <2>1, <2>2, <2>5, <3>1
  <2>6. ASSUME NEW x \in Registrations, NEW w \in Workers, Delete(w, x), bypasses' = bypasses
        PROVE  S <= Capacity[k] + bypasses'[k]
    <3>1. Seats(k)' \subseteq Seats(k)
      BY <2>6 DEF Delete, TypeOK, Seats, Seated
    <3> QED
      BY <2>1, <2>2, <2>6, <3>1
  <2>7. ASSUME NEW x \in Registrations, NEW w \in Workers, WritesRest(w, x)
        PROVE  S <= Capacity[k] + bypasses'[k]
    <3> DEFINE takes == reg[x] \notin Seated /\ local[w].status \in Seated
    <3>1. /\ \A y \in Registrations : y # x => reg'[y] = reg[y]
          /\ reg'[x] = local[w].status
          /\ bypasses' = [bypasses EXCEPT ![TitleOf(x)] = IF takes THEN @ + 1 ELSE @]
      BY <2>7 DEF WritesRest, SaveRest, TypeOK
    <3>2. bypasses'[k] = IF TitleOf(x) = k /\ takes THEN bypasses[k] + 1 ELSE bypasses[k]
      BY <3>1, KeysHaveTitles DEF TypeOK
    <3>3. CASE TitleOf(x) = k /\ takes
      <4>1. Seats(k)' \subseteq Seats(k) \union {x}
        BY <3>1 DEF Seats
      <4> QED
        BY <2>3, <3>2, <3>3, <4>1
    <3>4. CASE ~(TitleOf(x) = k /\ takes)
      <4>1. Seats(k)' \subseteq Seats(k)
        BY <3>1, <3>4 DEF Seats
      <4> QED
        BY <2>1, <2>2, <3>2, <3>4, <4>1
    <3> QED
      BY <3>3, <3>4
  <2>8. ASSUME reg' = reg, bypasses' = bypasses
        PROVE  S <= Capacity[k] + bypasses'[k]
    <3>1. Seats(k)' = Seats(k)
      BY <2>8 DEF Seats
    <3> QED
      BY <2>1, <2>2, <2>8, <3>1
  <2> QED
    BY <2>4, <2>5, <2>6, <2>7, <2>8, WhatWritesDo DEF Next, vars
<1> QED
  BY <1>1, <1>2, WorkshopsTypeCorrect, ReadsHoldAlways, PTL DEF Spec

\* On SQLite or with one worker a recorded attendance goes only by a REST write or a
\* deletion (AttendanceIsKept): an enrolment writes rows it found cancelled or missing.
THEOREM AttendanceStays ==
  ASSUME Undisturbed
  PROVE  Spec => AttendanceIsKept
<1>1. TypeOK /\ ReadsStillHold /\ [Next]_vars
        => [\A x \in Registrations :
              reg[x] = "attended" /\ reg'[x] # "attended" =>
                \/ reg'[x] = "none"
                \/ \E w \in Workers : RestSaves(w, x)]_vars
  <2> SUFFICES ASSUME TypeOK, ReadsStillHold, [Next]_vars, NEW x \in Registrations,
                      reg[x] = "attended", reg'[x] # "attended"
               PROVE  \/ reg'[x] = "none"
                      \/ \E w \in Workers : RestSaves(w, x)
    OBVIOUS
  <2>1. PICK w \in Workers : NextOf(w)
    BY DEF Next, vars
  <2>2. PICK y \in Registrations : Enrols(w, y) \/ Attends(y) \/ Delete(w, y) \/ WritesRest(w, y)
    BY <2>1, WhatWritesDo
  <2>3. x = y
    BY <2>2 DEF Enrols, Attends, Delete, WritesRest, SaveRest, TypeOK
  <2>4. WritesRest(w, x) => RestSaves(w, x)
    BY BecomeOne DEF WritesRest, SaveRest, RestSaves
  <2> QED
    BY <2>2, <2>3, <2>4 DEF Enrols, Attends, Delete, TypeOK
<1> QED
  BY <1>1, WorkshopsTypeCorrect, ReadsHoldAlways, PTL DEF Spec, AttendanceIsKept

\* On SQLite or with one worker attendance alone gives nobody a seat (ScansGiveNoSeat):
\* the seat a scan has seen is still held when it marks the attendance.
THEOREM ScansNeedSeats ==
  ASSUME Undisturbed
  PROVE  Spec => ScansGiveNoSeat
<1>1. TypeOK /\ ReadsStillHold /\ [Next]_vars
        => [\A x \in Registrations :
              reg[x] \notin Seated /\ reg'[x] = "attended" =>
                \E w \in Workers : RestSaves(w, x)]_vars
  <2> SUFFICES ASSUME TypeOK, ReadsStillHold, [Next]_vars, NEW x \in Registrations,
                      reg[x] \notin Seated, reg'[x] = "attended"
               PROVE  \E w \in Workers : RestSaves(w, x)
    OBVIOUS
  <2>0. reg[x] # "attended"
    BY DEF Seated
  <2>1. PICK w \in Workers : NextOf(w)
    BY <2>0 DEF Next, vars
  <2>2. PICK y \in Registrations : Enrols(w, y) \/ Attends(y) \/ Delete(w, y) \/ WritesRest(w, y)
    BY <2>0, <2>1, WhatWritesDo
  <2>3. x = y
    BY <2>0, <2>2 DEF Enrols, Attends, Delete, WritesRest, SaveRest, TypeOK
  <2>4. WritesRest(w, x) => RestSaves(w, x)
    BY BecomeOne DEF WritesRest, SaveRest, RestSaves
  <2> QED
    BY <2>2, <2>3, <2>4 DEF Enrols, Attends, Delete, TypeOK
<1> QED
  BY <1>1, WorkshopsTypeCorrect, ReadsHoldAlways, PTL DEF Spec, ScansGiveNoSeat
-----------------------------------------------------------------------------
(***************************************************************************)
(* Without moved workshops, and REST writes that do more than cancel.      *)
(***************************************************************************)

\* Nothing the generic REST viewsets leave unchecked has happened, or is about to.
Settled ==
  /\ HeldSlotsAreCurrent
  /\ \A w \in Workers : local[w].pc = "saving" => local[w].status = "cancelled"

LEMMA SettledAlways ==
  ASSUME Ops \intersect {"rest", "reschedule"} = {}
  PROVE  Spec => []Settled
<1>1. Init => Settled
  BY DEF Init, Settled, HeldSlotsAreCurrent, Idle
<1>2. TypeOK /\ Settled /\ [Next]_vars => Settled'
  <2> SUFFICES ASSUME TypeOK, Settled, [Next]_vars, NEW v \in Workers
               PROVE  /\ local'[v].pc = "saving" => local'[v].status = "cancelled"
                      /\ local'[v].pc \in {"loaded", "counted", "found"} =>
                           local'[v].slot = slot'[TitleOf(local'[v].key)]
    BY DEF Settled, HeldSlotsAreCurrent
  <2>1. CASE UNCHANGED vars
    BY <2>1 DEF vars, Settled, HeldSlotsAreCurrent
  <2>2. ASSUME NEW w \in Workers, NextOf(w)
        PROVE  /\ slot' = slot
               /\ \/ local' = local
                  \/ \E l : /\ Become(w, l)
                            /\ l.pc = "saving" => l.status = "cancelled"
                            /\ l.pc \in {"loaded", "counted", "found"} => l.slot = slot[TitleOf(l.key)]
    <3> DEFINE Good(l) == /\ l.pc = "saving" => l.status = "cancelled"
                          /\ l.pc \in {"loaded", "counted", "found"} => l.slot = slot[TitleOf(l.key)]
    <3>1. Good(Idle)
      BY DEF Idle
    <3>2. local[w].pc \in {"loaded", "counted", "found"} => local[w].slot = slot[TitleOf(local[w].key)]
      BY DEF Settled, HeldSlotsAreCurrent
    <3>3. ASSUME NEW x \in Registrations, LoadWorkshop(w, x)
          PROVE  slot' = slot /\ \E l : Become(w, l) /\ Good(l)
      <4>1. Good([pc |-> "loaded", key |-> x, slot |-> slot[TitleOf(x)]])
        OBVIOUS
      <4> HIDE DEF Good
      <4> QED
        BY <3>3, <4>1 DEF LoadWorkshop
    <3>4. ASSUME CountSeats(w)
          PROVE  slot' = slot /\ \E l : Become(w, l) /\ Good(l)
      <4>1. Good([pc |-> "counted", key |-> local[w].key, slot |-> local[w].slot,
                  status |-> EntryStatus(TitleOf(local[w].key))])
        BY <3>2, <3>4 DEF CountSeats
      <4> HIDE DEF Good
      <4> QED
        BY <3>1, <3>4, <4>1 DEF CountSeats
    <3>5. ASSUME FindRegistration(w)
          PROVE  slot' = slot /\ \E l : Become(w, l) /\ Good(l)
      <4>1. Good([pc |-> "found", key |-> local[w].key, slot |-> local[w].slot,
                  status |-> local[w].status,
                  how |-> IF reg[local[w].key] = "none" THEN "insert" ELSE "update"])
        BY <3>2, <3>5 DEF FindRegistration
      <4> HIDE DEF Good
      <4> QED
        BY <3>1, <3>5, <4>1 DEF FindRegistration
    <3>6. ASSUME SaveEnrolment(w)
          PROVE  slot' = slot /\ \E l : Become(w, l) /\ Good(l)
      <4>1. Good([pc |-> "counted", key |-> local[w].key, slot |-> local[w].slot,
                  status |-> local[w].status])
        BY <3>2, <3>6 DEF SaveEnrolment
      <4> HIDE DEF Good
      <4> QED
        BY <3>1, <3>6, <4>1 DEF SaveEnrolment
    <3>7. ASSUME NEW x \in Registrations, ScanAttendance(w, x)
          PROVE  slot' = slot /\ \E l : Become(w, l) /\ Good(l)
      <4>1. Good([pc |-> "attending", key |-> x])
        OBVIOUS
      <4> HIDE DEF Good
      <4> QED
        BY <3>7, <4>1 DEF ScanAttendance
    <3>8. ASSUME MarkAttended(w) \/ SaveRest(w) \/ Abandon(w)
          PROVE  slot' = slot /\ \E l : Become(w, l) /\ Good(l)
      <4> HIDE DEF Good
      <4> QED
        BY <3>1, <3>8 DEF MarkAttended, SaveRest, Abandon
    <3>9. ASSUME NEW x \in Registrations, Delete(w, x)
          PROVE  slot' = slot /\ local' = local
      BY <3>9 DEF Delete
    <3>10. ASSUME NEW x \in Registrations, NEW status \in Statuses, CleanRest(w, x, status)
           PROVE  slot' = slot /\ \E l : Become(w, l) /\ Good(l)
      <4>1. Good([pc |-> "saving", key |-> x, status |-> status])
        BY <3>10 DEF CleanRest
      <4> HIDE DEF Good
      <4> QED
        BY <3>10, <4>1 DEF CleanRest
    <3>11. \A k \in Titles : ~Reschedule(w, k)
      BY DEF Reschedule
    <3> QED
      BY <2>2, <3>3, <3>4, <3>5, <3>6, <3>7, <3>8, <3>9, <3>10, <3>11 DEF NextOf
  <2>3. ASSUME NEW w \in Workers, NextOf(w)
        PROVE  /\ local'[v].pc = "saving" => local'[v].status = "cancelled"
               /\ local'[v].pc \in {"loaded", "counted", "found"} =>
                    local'[v].slot = slot'[TitleOf(local'[v].key)]
    <3>1. CASE local' = local
      BY <2>2, <2>3, <3>1 DEF Settled, HeldSlotsAreCurrent
    <3>2. CASE local' # local
      <4>1. PICK l : /\ Become(w, l)
                     /\ l.pc = "saving" => l.status = "cancelled"
                     /\ l.pc \in {"loaded", "counted", "found"} => l.slot = slot[TitleOf(l.key)]
        BY <2>2, <2>3, <3>2
      <4>2. local'[w] = l /\ (v # w => local'[v] = local[v]) /\ slot' = slot
        BY <2>2, <2>3, <4>1, BecomeOne
      <4> QED
        BY <4>1, <4>2 DEF Settled, HeldSlotsAreCurrent
    <3> QED
      BY <3>1, <3>2
  <2> QED
    BY <2>1, <2>3 DEF Next
<1> QED
  BY <1>1, <1>2, WorkshopsTypeCorrect, PTL DEF Spec

\* On SQLite or with one worker, and while REST at most cancels registrations and no
\* workshop is moved, nobody has seats in two overlapping workshops (NoClash).
THEOREM NobodyClashes ==
  ASSUME Undisturbed, Ops \intersect {"rest", "reschedule"} = {}
  PROVE  Spec => []NoClash
<1>1. Init => NoClash
  BY DEF Init, NoClash, Seated
<1>2. TypeOK /\ Settled /\ ReadsStillHold /\ NoClash /\ [Next]_vars => NoClash'
  <2> SUFFICES ASSUME TypeOK, Settled, ReadsStillHold, NoClash, [Next]_vars
               PROVE  NoClash'
    OBVIOUS
  <2>1. ASSUME reg' = reg, slot' = slot
        PROVE  NoClash'
    BY <2>1 DEF NoClash
  <2>2. ASSUME \A x \in Registrations : reg'[x] \in Seated => reg[x] \in Seated, slot' = slot
        PROVE  NoClash'
    BY <2>2 DEF NoClash
  <2>3. ASSUME NEW w \in Workers, NextOf(w)
        PROVE  slot' = slot
    BY <2>3 DEF NextOf, LoadWorkshop, CountSeats, FindRegistration, SaveEnrolment, ScanAttendance,
                MarkAttended, CleanRest, SaveRest, Delete, Reschedule, Abandon
  <2>4. ASSUME NEW w \in Workers, NEW x \in Registrations, Enrols(w, x), slot' = slot
        PROVE  NoClash'
    <3>1. \A y \in Registrations : y # x => reg'[y] = reg[y]
      BY <2>4 DEF Enrols, TypeOK
    <3>2. CASE local[w].status = "registered"
      <4>1. ~Clashes(x, slot[TitleOf(x)])
        BY <2>4, <3>2 DEF Enrols, Settled, HeldSlotsAreCurrent
      <4>2. \A y \in Registrations : y # x /\ WhoOf(y) = WhoOf(x) /\ reg[y] \in Seated
              => slot[TitleOf(y)] \intersect slot[TitleOf(x)] = {}
        BY <4>1 DEF Clashes
      <4> QED
        BY <2>4, <3>1, <4>2 DEF NoClash
    <3>3. CASE local[w].status # "registered"
      <4>1. reg'[x] \notin Seated
        BY <2>4, <3>3 DEF Enrols, TypeOK, Seated
      <4> QED
        BY <2>2, <2>4, <3>1, <4>1
    <3> QED
      BY <3>2, <3>3
  <2>5. ASSUME NEW x \in Registrations, Attends(x), slot' = slot
        PROVE  NoClash'
    BY <2>2, <2>5 DEF Attends, TypeOK
  <2>6. ASSUME NEW w \in Workers, NEW x \in Registrations, Delete(w, x)
        PROVE  NoClash'
    BY <2>2, <2>6 DEF Delete, TypeOK, Seated
  <2>7. ASSUME NEW w \in Workers, NEW x \in Registrations, WritesRest(w, x)
        PROVE  NoClash'
    BY <2>2, <2>7 DEF WritesRest, SaveRest, Settled, TypeOK, Seated
  <2>8. CASE UNCHANGED vars
    BY <2>1, <2>8 DEF vars
  <2> QED
    BY <2>1, <2>3, <2>4, <2>5, <2>6, <2>7, <2>8, WhatWritesDo DEF Next
<1> QED
  BY <1>1, <1>2, WorkshopsTypeCorrect, ReadsHoldAlways, SettledAlways, PTL DEF Spec

\* On SQLite or with one worker, and while REST at most cancels registrations and no
\* workshop is moved, Workshops implements SeatPlan (ImplementsSeatPlan): the write of
\* an enrolment takes a free seat for somebody who is free, a cancellation or a deletion
\* gives one up, and every other step is a stutter.
THEOREM WorkshopsImplementSeatPlan ==
  ASSUME Undisturbed, Ops \intersect {"rest", "reschedule"} = {}
  PROVE  Spec => ImplementsSeatPlan
<1> DEFINE h == {x \in Registrations : reg[x] \in Seated}
<1>1. Init => Plan!PlanInit
  BY DEF Init, Seated, Plan!PlanInit
<1>2. TypeOK /\ Settled /\ ReadsStillHold /\ [Next]_vars => [Plan!PlanNext]_(Plan!planVars)
  <2> SUFFICES ASSUME TypeOK, Settled, ReadsStillHold, [Next]_vars
               PROVE  \/ h' = h /\ slot' = slot
                      \/ \E x \in Registrations : Plan!Take(x) \/ Plan!GiveUp(x)
    BY DEF Plan!PlanNext, Plan!planVars, Registrations
  <2>1. CASE UNCHANGED vars
    BY <2>1 DEF vars
  <2>2. ASSUME NEW w \in Workers, NextOf(w)
        PROVE  slot' = slot
    BY <2>2 DEF NextOf, LoadWorkshop, CountSeats, FindRegistration, SaveEnrolment, ScanAttendance,
                MarkAttended, CleanRest, SaveRest, Delete, Reschedule, Abandon
  <2>3. ASSUME NEW w \in Workers, NEW x \in Registrations, Enrols(w, x), slot' = slot
        PROVE  h' = h \/ Plan!Take(x)
    <3>1. (\A y \in Registrations : y # x => reg'[y] = reg[y]) /\ reg'[x] = local[w].status
      BY <2>3 DEF Enrols, TypeOK
    <3>2. x \notin h
      BY <2>3 DEF Enrols, Seated
    <3>3. CASE local[w].status = "registered"
      <4>1. ~Clashes(x, slot[TitleOf(x)]) /\ ~Full(TitleOf(x))
        BY <2>3, <3>3 DEF Enrols, Settled, HeldSlotsAreCurrent
      <4>2. Plan!FreeAt(x[2], slot[x[1]])
        BY <3>2, <4>1 DEF Clashes, Plan!FreeAt, TitleOf, WhoOf
      <4>3. Plan!Free(x[1])
        <5>1. Seats(TitleOf(x)) = {y \in h : y[1] = x[1]}
          BY DEF Seats, TitleOf
        <5>2. TitleOf(x) \in Titles
          BY KeysHaveTitles
        <5>3. Cardinality(Seats(TitleOf(x))) \in Nat /\ Capacity[TitleOf(x)] \in Nat
          BY <5>2, Counts
        <5>4. Capacity[x[1]] = 0 \/ Cardinality(Seats(TitleOf(x))) < Capacity[x[1]]
          BY <4>1, <5>3 DEF Full, TitleOf
        <5>5. Plan!Free(x[1]) <=>
                Capacity[x[1]] = 0 \/ Cardinality({y \in h : y[1] = x[1]}) < Capacity[x[1]]
          BY DEF Plan!Free, Plan!Cardinality, Cardinality
        <5> HIDE DEF h
        <5> QED
          BY <5>1, <5>4, <5>5
      <4>4. h' = h \union {x}
        BY <3>1, <3>3 DEF Seated
      <4> QED
        BY <2>3, <3>2, <4>2, <4>3, <4>4 DEF Plan!Take
    <3>4. CASE local[w].status # "registered"
      BY <2>3, <3>1, <3>2, <3>4 DEF Enrols, Seated
    <3> QED
      BY <3>3, <3>4
  <2>4. ASSUME NEW x \in Registrations, Attends(x)
        PROVE  h' = h
    BY <2>4 DEF Attends, TypeOK, Seated
  <2>5. ASSUME NEW w \in Workers, NEW x \in Registrations, Delete(w, x)
        PROVE  Plan!GiveUp(x)
    <3>1. h' = h \ {x} /\ slot' = slot
      BY <2>5 DEF Delete, TypeOK, Seated
    <3> QED
      BY <3>1 DEF Plan!GiveUp
  <2>6. ASSUME NEW w \in Workers, NEW x \in Registrations, WritesRest(w, x)
        PROVE  Plan!GiveUp(x)
    <3>1. reg' = [reg EXCEPT ![x] = "cancelled"] /\ slot' = slot
      BY <2>6 DEF WritesRest, SaveRest, Settled
    <3>2. h' = h \ {x}
      BY <3>1 DEF TypeOK, Seated
    <3> QED
      BY <3>1, <3>2 DEF Plan!GiveUp
  <2> QED
    BY <2>1, <2>2, <2>3, <2>4, <2>5, <2>6, WhatWritesDo DEF Next
<1> QED
  BY <1>1, <1>2, WorkshopsTypeCorrect, ReadsHoldAlways, SettledAlways, PTL
  DEF Spec, ImplementsSeatPlan, Plan!PlanSpec

\* SeatPlan keeps what it is for, whichever way its seats are taken and given up: so
\* does enrolment wherever it implements SeatPlan.
THEOREM SeatPlanIsSound == Plan!PlanSpec => []Plan!PlanIsSound
<1> DEFINE h     == {x \in Registrations : reg[x] \in Seated}
           in(k) == {x \in h : x[1] = k}
<1>1. \A k : IsFiniteSet(in(k)) /\ Cardinality(in(k)) \in Nat
  <2>1. IsFiniteSet(Registrations)
    BY FS_Product, WorkshopsAssumption DEF Registrations
  <2> QED
    BY <2>1, FS_Subset, FS_CardinalityType
<1>2. Plan!PlanIsSound <=>
        /\ \A k \in Titles : Capacity[k] > 0 => Cardinality(in(k)) <= Capacity[k]
        /\ \A x, y \in h : x # y /\ x[2] = y[2] => slot[x[1]] \intersect slot[y[1]] = {}
  BY DEF Plan!PlanIsSound, Plan!Cardinality, Cardinality
<1>3. Plan!PlanInit => Plan!PlanIsSound
  <2> SUFFICES ASSUME h = {}, NEW k \in Titles
               PROVE  Cardinality(in(k)) <= Capacity[k]
    BY <1>2 DEF Plan!PlanInit
  <2>1. in(k) = {}
    OBVIOUS
  <2>2. Cardinality(in(k)) = 0 /\ Capacity[k] \in Nat
    BY <2>1, FS_EmptySet DEF WorkshopsAssumption
  <2> QED
    BY <2>2
<1>4. Plan!PlanIsSound /\ [Plan!PlanNext]_(Plan!planVars) => Plan!PlanIsSound'
  <2> SUFFICES ASSUME Plan!PlanIsSound, [Plan!PlanNext]_(Plan!planVars)
               PROVE  Plan!PlanIsSound'
    OBVIOUS
  <2>1. Plan!PlanIsSound' <=>
          /\ \A k \in Titles : Capacity[k] > 0 => Cardinality(in(k)') <= Capacity[k]
          /\ \A x, y \in h' : x # y /\ x[2] = y[2] => slot'[x[1]] \intersect slot'[y[1]] = {}
    BY DEF Plan!PlanIsSound, Plan!Cardinality, Cardinality
  <2>2. ASSUME slot' = slot, h' \subseteq h
        PROVE  Plan!PlanIsSound'
    <3>1. \A k \in Titles : Cardinality(in(k)') <= Cardinality(in(k)) /\ Cardinality(in(k)') \in Nat
      <4> SUFFICES ASSUME NEW k \in Titles
                   PROVE  Cardinality(in(k)') <= Cardinality(in(k)) /\ Cardinality(in(k)') \in Nat
        OBVIOUS
      <4>1. in(k)' \subseteq in(k)
        BY <2>2
      <4>2. IsFiniteSet(in(k))
        BY <1>1
      <4> HIDE DEF in, h
      <4> QED
        BY <4>1, <4>2, FS_Subset, FS_CardinalityType
    <3>2. \A k \in Titles : Capacity[k] \in Nat
      BY DEF WorkshopsAssumption
    <3> HIDE DEF in
    <3>3. \A k \in Titles : Capacity[k] > 0 => Cardinality(in(k)') <= Capacity[k]
      BY <1>1, <1>2, <3>1, <3>2
    <3>4. \A x, y \in h' : x # y /\ x[2] = y[2] => slot'[x[1]] \intersect slot'[y[1]] = {}
      BY <1>2, <2>2
    <3> QED
      BY <2>1, <3>3, <3>4
  <2>3. ASSUME NEW x \in Titles \X Participants, Plan!Take(x)
        PROVE  Plan!PlanIsSound'
    <3>1. /\ x \notin h /\ h' = h \union {x} /\ slot' = slot
          /\ Capacity[x[1]] = 0 \/ Cardinality(in(x[1])) < Capacity[x[1]]
          /\ \A y \in h : y[2] = x[2] => slot[y[1]] \intersect slot[x[1]] = {}
      BY <2>3 DEF Plan!Take, Plan!Free, Plan!FreeAt, Plan!Cardinality, Cardinality
    <3>2. ASSUME NEW k \in Titles, Capacity[k] > 0
          PROVE  Cardinality(in(k)') <= Capacity[k]
      <4>1. CASE k = x[1]
        <5>1. in(k)' = in(k) \union {x} /\ x \notin in(k)
          BY <3>1, <4>1
        <5>2. Capacity[k] \in Nat
          BY DEF WorkshopsAssumption
        <5> HIDE DEF in
        <5>3. IsFiniteSet(in(k)) /\ Cardinality(in(k)) \in Nat
          BY <1>1
        <5>4. Cardinality(in(k)') = Cardinality(in(k)) + 1
          BY <5>1, <5>3, FS_AddElement
        <5>5. Capacity[k] = 0 \/ Cardinality(in(k)) < Capacity[k]
          BY <3>1, <4>1
        <5> QED
          BY <3>2, <5>2, <5>3, <5>4, <5>5
      <4>2. CASE k # x[1]
        <5>1. in(k)' = in(k)
          BY <3>1, <4>2
        <5> HIDE DEF in, h
        <5> QED
          BY <1>2, <3>2, <5>1
      <4> QED
        BY <4>1, <4>2
    <3>3. \A y, z \in h' : y # z /\ y[2] = z[2] => slot'[y[1]] \intersect slot'[z[1]] = {}
      <4> HIDE DEF h, in
      <4> QED
        BY <1>2, <3>1
    <3> QED
      BY <2>1, <3>2, <3>3
  <2>4. ASSUME NEW x \in Titles \X Participants, Plan!GiveUp(x)
        PROVE  Plan!PlanIsSound'
    BY <2>2, <2>4 DEF Plan!GiveUp
  <2>5. CASE UNCHANGED Plan!planVars
    BY <2>2, <2>5 DEF Plan!planVars
  <2> QED
    BY <2>3, <2>4, <2>5 DEF Plan!PlanNext
<1> QED
  BY <1>3, <1>4, PTL DEF Plan!PlanSpec
=============================================================================
