-------------------------- MODULE RegistrationProofs --------------------------
(***************************************************************************)
(* Theorems about Registration, for every set of keys, contacts and        *)
(* workers, every capacity, every choice of operations and both databases. *)
(***************************************************************************)
EXTENDS Registration, FiniteSetTheorems, TLAPS

USE RegistrationAssumption

\* A worker's request has the shape its pc says.
LEMMA RequestShape ==
  ASSUME TypeOK, NEW w \in Workers
  PROVE  /\ local[w].pc = "idle" <=> local[w] = Idle
         /\ local[w].pc = "loaded" => local[w] \in Loaded
         /\ local[w].pc \in {"counted", "unique"} => local[w] \in Counted
         /\ local[w].pc = "importing" => local[w] \in Importing
         /\ local[w].pc = "editing" => local[w] \in Editing
         /\ local[w].pc = "configuring" => local[w] \in Configuring
  BY DEF TypeOK, Request, Idle, Loaded, Counted, Importing, Editing, Configuring

LEMMA BecomeType ==
  ASSUME TypeOK, NEW w \in Workers, NEW l \in Request, Become(w, l)
  PROVE  local' \in [Workers -> Request]
  BY DEF TypeOK, Become

\* What Become does to the workers, one by one.
LEMMA BecomeOne ==
  ASSUME TypeOK, NEW w \in Workers, NEW l, Become(w, l)
  PROVE  /\ local'[w] = l
         /\ \A v \in Workers : v # w => local'[v] = local[v]
  BY DEF TypeOK, Become

LEMMA InsertType ==
  ASSUME TypeOK, NEW n \in Ids, NEW i \in Identities,
         NEW how \in {"seat", "waitlist", "import", "direct"}, Insert(n, i, how)
  PROVE  rows' \in [Ids -> Row \union {NoRow}]
<1> DEFINE r == [identity |-> i, entry |-> how, is_deleted |-> FALSE]
<1>1. r \in Row
  BY DEF Row
<1> QED
  BY <1>1 DEF TypeOK, Insert

\* The rows of Live and Seats are rows.
LEMMA LiveAreRows ==
  ASSUME TypeOK
  PROVE  /\ \A n \in Ids : rows[n] # NoRow => rows[n] \in Row
         /\ \A n \in Live : n \in Ids /\ rows[n] \in Row
         /\ Seats \subseteq Live /\ Live \subseteq Ids
         /\ Free \subseteq Ids /\ \A n \in Free : n \notin Live
  BY DEF TypeOK, Live, Seats, Free

\* The three ways to write the event write an event.
LEMMA ConfiguredEvent ==
  ASSUME TypeOK, NEW w \in Workers,
         SetRegistrationOpen(w) \/ ToggleMaintenance(w) \/ Archive(w) \/ UpdateEvent(w)
  PROVE  local[w] \in Configuring /\ \E e \in Event : WriteEvent(w, e)
<1>1. local[w] \in Configuring
  BY RequestShape DEF SetRegistrationOpen, ToggleMaintenance, Archive, UpdateEvent
<1>2. event \in Event /\ local[w].event \in Event
  BY <1>1 DEF TypeOK, Configuring
<1>3. CASE SetRegistrationOpen(w)
  <2>1. PICK b \in BOOLEAN : WriteEvent(w, [event EXCEPT !.registration_open = b])
    BY <1>3 DEF SetRegistrationOpen
  <2>2. [event EXCEPT !.registration_open = b] \in Event
    BY <1>2 DEF Event
  <2> QED
    BY <1>1, <2>1, <2>2
<1>4. CASE ToggleMaintenance(w)
  <2>1. [event EXCEPT !.maintenance_mode = ~local[w].event.maintenance_mode] \in Event
    BY <1>2 DEF Event
  <2> QED
    BY <1>1, <1>4, <2>1 DEF ToggleMaintenance
<1>5. CASE Archive(w)
  <2>1. [event EXCEPT !.archived = TRUE] \in Event
    BY <1>2 DEF Event
  <2> QED
    BY <1>1, <1>5, <2>1 DEF Archive
<1>6. CASE UpdateEvent(w)
  BY <1>1, <1>2, <1>6 DEF UpdateEvent
<1> QED
  BY <1>3, <1>4, <1>5, <1>6

\* Every variable keeps its type: rows are rows of one of the four entries, a
\* request holds what its stage has read, and the counters are natural numbers.
THEOREM RegistrationTypeCorrect == Spec => []TypeOK
<1>1. Init => TypeOK
  BY DEF Init, TypeOK, Event, Request
<1>2. TypeOK /\ [Next]_vars => TypeOK'
  <2> SUFFICES ASSUME TypeOK, [Next]_vars PROVE TypeOK'
    OBVIOUS
  <2>1. ASSUME NEW w \in Workers, NEW i \in Identities, LoadEvent(w, i)
        PROVE  TypeOK'
    <3>1. [pc |-> "loaded", identity |-> i, event |-> event] \in Request
      BY DEF TypeOK, Loaded, Request
    <3> QED
      BY <2>1, <3>1, BecomeType DEF TypeOK, LoadEvent, Request
  <2>2. ASSUME NEW w \in Workers, CheckSeats(w)
        PROVE  TypeOK'
    <3>1. local[w] \in Loaded /\ Entry \in {"seat", "waitlist"}
      BY <2>2, RequestShape DEF CheckSeats, Entry
    <3>2. [pc |-> "counted", identity |-> local[w].identity, entry |-> Entry] \in Request
      BY <3>1 DEF Loaded, Counted, Request
    <3>3. local' \in [Workers -> Request]
      BY <2>2, <3>2, BecomeType DEF CheckSeats, Request
    <3> QED
      BY <2>2, <3>3 DEF TypeOK, CheckSeats, Request
  <2>3. ASSUME NEW w \in Workers, CheckDuplicate(w)
        PROVE  TypeOK'
    <3>1. local[w] \in Counted
      BY <2>3, RequestShape DEF CheckDuplicate
    <3>2. [local[w] EXCEPT !.pc = "unique"] \in Request
      BY <3>1 DEF Counted, Request
    <3>3. local' \in [Workers -> Request]
      BY <2>3, <3>2, BecomeType DEF CheckDuplicate, Request
    <3> QED
      BY <2>3, <3>3 DEF TypeOK, CheckDuplicate, Request
  <2>4. ASSUME NEW w \in Workers, NEW n \in Ids, Register(w, n)
        PROVE  TypeOK'
    <3>1. local[w] \in Counted
      BY <2>4, RequestShape DEF Register
    <3>2. rows' \in [Ids -> Row \union {NoRow}]
      BY <2>4, <3>1, InsertType DEF Register, Counted
    <3>3. local' \in [Workers -> Request]
      BY <2>4, BecomeType DEF Register, Request
    <3> QED
      BY <2>4, <3>2, <3>3 DEF TypeOK, Register, Request
  <2>5. ASSUME NEW w \in Workers, NEW S \in SUBSET Identities, StartImport(w, S)
        PROVE  TypeOK'
    <3>1. [pc |-> "importing", new |-> {i \in S : ~IsDuplicate(i)}] \in Request
      BY DEF Importing, Request
    <3>2. local' \in [Workers -> Request]
      BY <2>5, <3>1, BecomeType DEF StartImport
    <3> QED
      BY <2>5, <3>2 DEF TypeOK, StartImport, Request
  <2>6. ASSUME NEW w \in Workers, Import(w)
        PROVE  TypeOK'
    <3>1. local[w] \in Importing
      BY <2>6, RequestShape DEF Import
    <3>2. PICK key \in [local[w].new -> Free] :
            rows' = [n \in Ids |->
              IF n \in {key[i] : i \in local[w].new}
                THEN [identity |-> CHOOSE i \in local[w].new : key[i] = n,
                      entry |-> "import", is_deleted |-> FALSE]
                ELSE rows[n]]
      BY <2>6 DEF Import
    <3>3. ASSUME NEW n \in Ids, n \in {key[i] : i \in local[w].new}
          PROVE  [identity |-> CHOOSE i \in local[w].new : key[i] = n,
                  entry |-> "import", is_deleted |-> FALSE] \in Row
      <4>1. (CHOOSE i \in local[w].new : key[i] = n) \in Identities
        BY <3>1, <3>3 DEF Importing
      <4> QED
        BY <4>1 DEF Row
    <3>4. rows' \in [Ids -> Row \union {NoRow}]
      BY <3>2, <3>3 DEF TypeOK
    <3>5. local' \in [Workers -> Request]
      BY <2>6, BecomeType DEF Import, Request
    <3> QED
      BY <2>6, <3>4, <3>5 DEF TypeOK, Import, Request
  <2>7. ASSUME NEW w \in Workers, NEW n \in Ids, NEW i \in Identities, Create(w, n, i)
        PROVE  TypeOK'
    <3>1. rows' \in [Ids -> Row \union {NoRow}]
      BY <2>7, InsertType DEF Create
    <3> QED
      BY <2>7, <3>1 DEF TypeOK, Create
  <2>8. ASSUME NEW w \in Workers, NEW n \in Ids, LoadRow(w, n)
        PROVE  TypeOK'
    <3>1. [pc |-> "editing", id |-> n, row |-> rows[n]] \in Request
      BY <2>8, LiveAreRows DEF LoadRow, Editing, Request
    <3>2. local' \in [Workers -> Request]
      BY <2>8, <3>1, BecomeType DEF LoadRow
    <3> QED
      BY <2>8, <3>2 DEF TypeOK, LoadRow, Request
  <2>9. ASSUME NEW w \in Workers, NEW i \in Identities, SaveRow(w, i)
        PROVE  TypeOK'
    <3>1. local[w] \in Editing
      BY <2>9, RequestShape DEF SaveRow
    <3>2. [local[w].row EXCEPT !.identity = i] \in Row
      BY <3>1 DEF Editing, Row
    <3>3. rows' \in [Ids -> Row \union {NoRow}]
      BY <2>9, <3>1, <3>2 DEF TypeOK, SaveRow
    <3>4. local' \in [Workers -> Request]
      BY <2>9, BecomeType DEF SaveRow, Request
    <3> QED
      BY <2>9, <3>3, <3>4 DEF TypeOK, SaveRow, Request
  <2>10. ASSUME NEW w \in Workers, NEW n \in Ids, SoftDelete(w, n)
         PROVE  TypeOK'
    <3>1. [rows[n] EXCEPT !.is_deleted = TRUE] \in Row
      BY <2>10, LiveAreRows DEF SoftDelete, Row
    <3>2. rows' = [rows EXCEPT ![n] = [rows[n] EXCEPT !.is_deleted = TRUE]]
      BY <2>10 DEF SoftDelete
    <3> QED
      BY <2>10, <3>1, <3>2 DEF TypeOK, SoftDelete
  <2>11. ASSUME NEW w \in Workers, Configure(w)
         PROVE  TypeOK'
    <3>1. [pc |-> "configuring", event |-> event] \in Request
      BY DEF TypeOK, Configuring, Request
    <3>2. local' \in [Workers -> Request]
      BY <2>11, <3>1, BecomeType DEF Configure
    <3> QED
      BY <2>11, <3>2 DEF TypeOK, Configure, Request
  <2>12. ASSUME NEW w \in Workers, SetRegistrationOpen(w) \/ ToggleMaintenance(w) \/ Archive(w) \/ UpdateEvent(w)
         PROVE  TypeOK'
    <3>1. \E e \in Event : WriteEvent(w, e)
      BY <2>12, ConfiguredEvent
    <3>2. local' \in [Workers -> Request]
      BY <3>1, BecomeType DEF WriteEvent, Request
    <3> QED
      BY <3>1, <3>2 DEF TypeOK, WriteEvent, Request
  <2>13. ASSUME NEW w \in Workers, NEW m \in Modules, ToggleModule(w, m)
         PROVE  TypeOK'
    BY <2>13 DEF TypeOK, ToggleModule
  <2>14. ASSUME NEW w \in Workers, SetFormOpen(w)
         PROVE  TypeOK'
    BY <2>14 DEF TypeOK, SetFormOpen
  <2>15. ASSUME NEW w \in Workers, Abandon(w)
         PROVE  TypeOK'
    <3>1. local' \in [Workers -> Request]
      BY <2>15, BecomeType DEF Abandon, Request
    <3> QED
      BY <2>15, <3>1 DEF TypeOK, Abandon, Request
  <2>16. CASE UNCHANGED vars
    BY <2>16 DEF TypeOK, vars
  <2> QED
    BY <2>1, <2>2, <2>3, <2>4, <2>5, <2>6, <2>7, <2>8, <2>9, <2>10, <2>11, <2>12, <2>13, <2>14,
       <2>15, <2>16 DEF Next, NextOf
<1> QED
  BY <1>1, <1>2, PTL DEF Spec
-----------------------------------------------------------------------------
(***************************************************************************)
(* Overbooking.                                                            *)
(***************************************************************************)

LEMMA Counts ==
  ASSUME TypeOK
  PROVE  /\ IsFiniteSet(Live) /\ Cardinality(Live) \in Nat
         /\ IsFiniteSet(Seats) /\ Cardinality(Seats) \in Nat
         /\ Cardinality(Seats) <= Cardinality(Live)
         /\ IsFiniteSet(Promised) /\ Cardinality(Promised) \in Nat
         /\ Cardinality(Promised) <= Cardinality(Workers)
         /\ IsFiniteSet(InFlight) /\ Cardinality(InFlight) \in Nat
         /\ Cardinality(InFlight) <= Cardinality(Workers)
         /\ Cardinality(Workers) \in Nat /\ Cardinality(Workers) > 0
<1>1. IsFiniteSet(Ids) /\ IsFiniteSet(Workers) /\ Workers # {}
  BY DEF RegistrationAssumption
<1>2. IsFiniteSet(Live) /\ IsFiniteSet(Seats) /\ Cardinality(Seats) <= Cardinality(Live)
  BY <1>1, LiveAreRows, FS_Subset
<1>3. Promised \subseteq Workers /\ InFlight \subseteq Workers
  BY DEF Promised, InFlight
<1>4. IsFiniteSet(Promised) /\ IsFiniteSet(InFlight)
      /\ Cardinality(Promised) <= Cardinality(Workers)
      /\ Cardinality(InFlight) <= Cardinality(Workers)
  BY <1>1, <1>3, FS_Subset
<1>5. Cardinality(Workers) # 0
  BY <1>1, FS_EmptySet
<1> QED
  BY <1>1, <1>2, <1>4, <1>5, FS_CardinalityType

LEMMA RowsArePresent == \A r \in Row : r # NoRow
<1> SUFFICES ASSUME NEW r \in Row, r = NoRow PROVE FALSE
  OBVIOUS
<1>1. DOMAIN r = {"identity", "entry", "is_deleted"}
  BY DEF Row
<1>2. DOMAIN r = {"absent"}
  BY DEF NoRow
<1> QED
  BY <1>1, <1>2

\* How a step can change a finite set at most.
LEMMA GrowsByOne ==
  ASSUME NEW S, IsFiniteSet(S), NEW T, NEW x, T \subseteq S \union {x}
  PROVE  Cardinality(T) <= Cardinality(S) + 1
<1>1. IsFiniteSet(S \union {x}) /\ Cardinality(S \union {x}) <= Cardinality(S) + 1
  <2>1. IsFiniteSet(S \union {x}) /\ (x \in S => Cardinality(S \union {x}) = Cardinality(S))
        /\ (x \notin S => Cardinality(S \union {x}) = Cardinality(S) + 1)
    BY FS_AddElement
  <2>2. Cardinality(S) \in Nat
    BY FS_CardinalityType
  <2> QED
    BY <2>1, <2>2
<1>2. IsFiniteSet(T) /\ Cardinality(T) <= Cardinality(S \union {x})
  BY <1>1, FS_Subset
<1> QED
  BY <1>1, <1>2, FS_CardinalityType

\* How each way to write rows can change the taken seats.
LEMMA RegisterSeats ==
  ASSUME TypeOK, NEW w \in Workers, NEW n \in Ids, Register(w, n)
  PROVE  /\ Seats' \subseteq Seats \union {n}
         /\ local[w].entry # "seat" => Seats' \subseteq Seats
         /\ revivals' = revivals
<1>1. rows' = [rows EXCEPT ![n] = [identity |-> local[w].identity, entry |-> local[w].entry,
                                   is_deleted |-> FALSE]]
  BY DEF Register, Insert
<1>2. /\ rows'[n].entry = local[w].entry
      /\ \A m \in Ids : m # n => rows'[m] = rows[m]
  BY <1>1 DEF TypeOK
<1> QED
  BY <1>2 DEF Register, Seats, Live

LEMMA OtherWritesTakeNoSeat ==
  ASSUME TypeOK, NEW w \in Workers, \/ Import(w)
                                    \/ \E n \in Ids, i \in Identities : Create(w, n, i)
                                    \/ \E n \in Ids : SoftDelete(w, n)
  PROVE  Seats' \subseteq Seats /\ revivals' = revivals
<1>1. CASE Import(w)
  <2>1. \A n \in Ids : rows'[n] = rows[n] \/ rows'[n].entry = "import"
    BY <1>1 DEF Import
  <2> QED
    BY <1>1, <2>1 DEF Import, Seats, Live
<1>2. ASSUME NEW n \in Ids, NEW i \in Identities, Create(w, n, i)
      PROVE  Seats' \subseteq Seats /\ revivals' = revivals
  <2>1. \A m \in Ids : rows'[m] = rows[m] \/ rows'[m].entry = "direct"
    BY <1>2 DEF Create, Insert, TypeOK
  <2> QED
    BY <1>2, <2>1 DEF Create, Seats, Live
<1>3. ASSUME NEW n \in Ids, SoftDelete(w, n)
      PROVE  Seats' \subseteq Seats /\ revivals' = revivals
  <2>1. rows[n] \in Row
    BY <1>3, LiveAreRows DEF SoftDelete
  <2>2. rows'[n].is_deleted /\ \A m \in Ids : m # n => rows'[m] = rows[m]
    BY <1>3, <2>1 DEF SoftDelete, TypeOK, Row
  <2> QED
    BY <1>3, <2>2 DEF SoftDelete, Seats, Live
<1> QED
  BY <1>1, <1>2, <1>3

\* A full save takes a seat only by reviving a row.
LEMMA SaveSeats ==
  ASSUME TypeOK, HeldRowsExist, NEW w \in Workers, NEW i \in Identities, SaveRow(w, i)
  PROVE  \/ Seats' \subseteq Seats /\ revivals' = revivals
         \/ (\E n : Seats' \subseteq Seats \union {n}) /\ revivals' = revivals + 1
<1>1. local[w] \in Editing
  BY RequestShape DEF SaveRow
<1>2. PICK n \in Ids : n = local[w].id
  BY <1>1 DEF Editing
<1> DEFINE r == [local[w].row EXCEPT !.identity = i]
<1>3. /\ rows[n] # NoRow /\ rows[n].entry = local[w].row.entry
      /\ r.entry = local[w].row.entry
  BY <1>1, <1>2 DEF SaveRow, HeldRowsExist, HeldRowExists, Editing, Row
<1>4. rows' = [rows EXCEPT ![n] = r]
  BY <1>2 DEF SaveRow
<1> HIDE DEF r
<1>5. rows'[n].entry = rows[n].entry /\ \A m \in Ids : m # n => rows'[m] = rows[m]
  BY <1>3, <1>4 DEF TypeOK
<1>6. CASE rows[n].is_deleted
  <2>1. Seats' \subseteq Seats \union {n}
    BY <1>5 DEF Seats, Live
  <2>2. revivals' = revivals + 1
    BY <1>2, <1>6 DEF SaveRow
  <2> QED
    BY <2>1, <2>2
<1>7. CASE ~rows[n].is_deleted
  <2>1. Seats' \subseteq Seats
    BY <1>3, <1>5, <1>7 DEF Seats, Live
  <2>2. revivals' = revivals
    BY <1>2, <1>7 DEF SaveRow
  <2> QED
    BY <2>1, <2>2
<1> QED
  BY <1>6, <1>7

LEMMA HeldRowsExistInductive ==
  /\ Init => HeldRowsExist
  /\ TypeOK /\ HeldRowsExist /\ [Next]_vars => HeldRowsExist'
<1>1. Init => HeldRowsExist
  BY DEF Init, Idle, HeldRowsExist, HeldRowExists
<1>2. TypeOK /\ HeldRowsExist /\ [Next]_vars => HeldRowsExist'
  <2> SUFFICES ASSUME TypeOK, HeldRowsExist, [Next]_vars, NEW v \in Workers
               PROVE  HeldRowExists(v)'
    BY DEF HeldRowsExist
  <2>1. ASSUME NEW w \in Workers, NEW n \in Ids, LoadRow(w, n)
        PROVE  HeldRowExists(v)'
    <3>1. rows' = rows /\ n \in Live /\ Become(w, [pc |-> "editing", id |-> n, row |-> rows[n]])
      BY <2>1 DEF LoadRow
    <3>2. CASE v = w
      <4>1. local'[v] = [pc |-> "editing", id |-> n, row |-> rows[n]]
        BY <3>1, <3>2, BecomeOne
      <4> QED
        BY <3>1, <4>1 DEF Live, HeldRowExists
    <3>3. CASE v # w
      <4>1. local'[v] = local[v]
        BY <3>1, <3>3, BecomeOne
      <4> QED
        BY <3>1, <4>1 DEF HeldRowsExist, HeldRowExists
    <3> QED
      BY <3>2, <3>3
  <2>2. ASSUME local'[v] = local[v],
               \A n \in Ids : rows[n] # NoRow => rows'[n] # NoRow /\ rows'[n].entry = rows[n].entry
        PROVE  HeldRowExists(v)'
    <3>1. local[v].pc = "editing" => local[v] \in Editing
      BY RequestShape
    <3> QED
      BY <2>2, <3>1 DEF HeldRowsExist, HeldRowExists, Editing
  <2>3. ASSUME NEW w \in Workers, NEW l, Become(w, l), l.pc # "editing",
               \A n \in Ids : rows[n] # NoRow => rows'[n] # NoRow /\ rows'[n].entry = rows[n].entry
        PROVE  HeldRowExists(v)'
    <3>1. CASE v = w
      BY <2>3, <3>1, BecomeOne DEF HeldRowExists
    <3>2. CASE v # w
      <4>1. local'[v] = local[v]
        BY <2>3, <3>2, BecomeOne
      <4> QED
        BY <2>2, <2>3, <4>1
    <3> QED
      BY <3>1, <3>2
  <2>4. ASSUME NEW w \in Workers, NEW n \in Ids, NEW i, NEW how, Insert(n, i, how), n \in Free
        PROVE  \A m \in Ids : rows[m] # NoRow => rows'[m] = rows[m]
    BY <2>4 DEF TypeOK, Insert, Free
  <2>5. ASSUME NEW w \in Workers, NEW n \in Ids, Register(w, n)
        PROVE  HeldRowExists(v)'
    <3>1. Become(w, Idle) /\ Idle.pc # "editing"
      BY <2>5 DEF Register, Idle
    <3> QED
      BY <2>3, <2>4, <2>5, <3>1 DEF Register
  <2>6. ASSUME NEW w \in Workers, Import(w)
        PROVE  HeldRowExists(v)'
    <3>1. Become(w, Idle) /\ Idle.pc # "editing"
      BY <2>6 DEF Import, Idle
    <3>2. \A m \in Ids : rows[m] # NoRow => rows'[m] = rows[m]
      BY <2>6 DEF Import, Free
    <3> QED
      BY <2>3, <3>1, <3>2
  <2>7. ASSUME NEW w \in Workers, NEW n \in Ids, NEW i \in Identities, Create(w, n, i)
        PROVE  HeldRowExists(v)'
    <3>1. local'[v] = local[v]
      BY <2>7 DEF Create
    <3> QED
      BY <2>2, <2>4, <2>7, <3>1 DEF Create
  <2>8. ASSUME NEW w \in Workers, NEW i \in Identities, SaveRow(w, i)
        PROVE  HeldRowExists(v)'
    <3>1. Become(w, Idle) /\ Idle.pc # "editing"
      BY <2>8 DEF SaveRow, Idle
    <3>2. local[w] \in Editing
      BY <2>8, RequestShape DEF SaveRow
    <3>3. [local[w].row EXCEPT !.identity = i] \in Row
          /\ [local[w].row EXCEPT !.identity = i].entry = local[w].row.entry
      BY <3>2 DEF Editing, Row
    <3>4. rows[local[w].id].entry = local[w].row.entry
      BY <2>8 DEF SaveRow, HeldRowsExist, HeldRowExists
    <3>5. \A n \in Ids : rows[n] # NoRow => rows'[n] # NoRow /\ rows'[n].entry = rows[n].entry
      BY <2>8, <3>2, <3>3, <3>4, RowsArePresent DEF TypeOK, SaveRow, Editing
    <3> QED
      BY <2>3, <3>1, <3>5
  <2>9. ASSUME NEW w \in Workers, NEW n \in Ids, SoftDelete(w, n)
        PROVE  HeldRowExists(v)'
    <3>1. local'[v] = local[v]
      BY <2>9 DEF SoftDelete
    <3>2. [rows[n] EXCEPT !.is_deleted = TRUE] \in Row
          /\ [rows[n] EXCEPT !.is_deleted = TRUE].entry = rows[n].entry
      BY <2>9, LiveAreRows DEF SoftDelete, Row
    <3>3. rows' = [rows EXCEPT ![n] = [rows[n] EXCEPT !.is_deleted = TRUE]]
      BY <2>9 DEF SoftDelete
    <3>4. \A m \in Ids : rows[m] # NoRow => rows'[m] # NoRow /\ rows'[m].entry = rows[m].entry
      BY <3>2, <3>3, RowsArePresent DEF TypeOK
    <3> QED
      BY <2>2, <3>1, <3>4
  <2>10. ASSUME rows' = rows, local'[v] = local[v]
         PROVE  HeldRowExists(v)'
    BY <2>2, <2>10
  <2>11. ASSUME NEW w \in Workers,
                \/ \E i \in Identities : LoadEvent(w, i)
                \/ CheckSeats(w) \/ CheckDuplicate(w)
                \/ \E S \in SUBSET Identities : StartImport(w, S)
                \/ Configure(w) \/ SetRegistrationOpen(w) \/ ToggleMaintenance(w) \/ Archive(w) \/ UpdateEvent(w)
                \/ Abandon(w)
         PROVE  HeldRowExists(v)'
    <3>1. rows' = rows
      BY <2>11 DEF LoadEvent, CheckSeats, CheckDuplicate, StartImport, Configure,
                   SetRegistrationOpen, ToggleMaintenance, Archive, UpdateEvent, WriteEvent, Abandon
    <3>2. \E l : Become(w, l) /\ l.pc # "editing"
      <4>1. CASE \E i \in Identities : LoadEvent(w, i)
        BY <4>1 DEF LoadEvent
      <4>2. CASE CheckSeats(w)
        BY <4>2 DEF CheckSeats, Idle
      <4>3. CASE CheckDuplicate(w)
        <5>1. local[w] \in Counted
          BY <4>3, RequestShape DEF CheckDuplicate
        <5>2. [local[w] EXCEPT !.pc = "unique"].pc # "editing"
          BY <5>1 DEF Counted
        <5>3. Idle.pc # "editing"
          BY DEF Idle
        <5> QED
          BY <4>3, <5>2, <5>3 DEF CheckDuplicate
      <4>4. CASE \E S \in SUBSET Identities : StartImport(w, S)
        BY <4>4 DEF StartImport
      <4>5. CASE Configure(w) \/ Abandon(w)
        BY <4>5 DEF Configure, Abandon, Idle
      <4>6. CASE SetRegistrationOpen(w) \/ ToggleMaintenance(w) \/ Archive(w) \/ UpdateEvent(w)
        <5>1. PICK e \in Event : WriteEvent(w, e)
          BY <4>6, ConfiguredEvent
        <5>2. Become(w, Idle) /\ Idle.pc # "editing"
          BY <5>1 DEF WriteEvent, Idle
        <5> QED
          BY <5>2
      <4> QED
        BY <2>11, <4>1, <4>2, <4>3, <4>4, <4>5, <4>6
    <3> QED
      BY <2>3, <3>1, <3>2
  <2>12. CASE UNCHANGED vars
    BY <2>10, <2>12 DEF vars
  <2>13. ASSUME NEW w \in Workers,
                (\E m \in Modules : ToggleModule(w, m)) \/ SetFormOpen(w)
         PROVE  HeldRowExists(v)'
    BY <2>10, <2>13 DEF ToggleModule, SetFormOpen
  <2>14. CASE Next
    <3>1. PICK w \in Workers : NextOf(w)
      BY <2>14 DEF Next, NextOf
    <3> QED
      BY <2>1, <2>5, <2>6, <2>7, <2>8, <2>9, <2>11, <2>13, <3>1 DEF NextOf
  <2> QED
    BY <2>12, <2>14
<1> QED
  BY <1>1, <1>2

\* The steps that write no row and give nobody a seat.
Quiet(w) ==
  \/ \E i \in Identities : LoadEvent(w, i)
  \/ CheckDuplicate(w)
  \/ \E n \in Ids : LoadRow(w, n)
  \/ \E S \in SUBSET Identities : StartImport(w, S)
  \/ Configure(w) \/ SetRegistrationOpen(w) \/ ToggleMaintenance(w) \/ Archive(w) \/ UpdateEvent(w)
  \/ (\E m \in Modules : ToggleModule(w, m)) \/ SetFormOpen(w)
  \/ Abandon(w)

LEMMA QuietKeeps ==
  ASSUME TypeOK, NEW w \in Workers, Quiet(w)
  PROVE  rows' = rows /\ revivals' = revivals /\ Promised' \subseteq Promised
<1>1. rows' = rows /\ revivals' = revivals
  BY DEF Quiet, LoadEvent, CheckDuplicate, LoadRow, StartImport, Configure, SetRegistrationOpen,
         ToggleMaintenance, Archive, UpdateEvent, WriteEvent, ToggleModule, SetFormOpen, Abandon
<1>2. ASSUME NEW l, Become(w, l),
             l.pc \in {"counted", "unique"} =>
               /\ local[w].pc \in {"counted", "unique"} /\ l.entry = local[w].entry
      PROVE  Promised' \subseteq Promised
  BY <1>2, BecomeOne DEF Promised
<1>3. CASE \E i \in Identities : LoadEvent(w, i)
  BY <1>2, <1>3 DEF LoadEvent
<1>4. CASE CheckDuplicate(w)
  <2>1. local[w] \in Counted
    BY <1>4, RequestShape DEF CheckDuplicate
  <2> DEFINE l == [local[w] EXCEPT !.pc = "unique"]
  <2>2. l.entry = local[w].entry /\ local[w].pc = "counted" /\ Idle.pc = "idle"
    BY <1>4, <2>1 DEF CheckDuplicate, Counted, Idle
  <2>3. Become(w, l) \/ Become(w, Idle)
    BY <1>4 DEF CheckDuplicate
  <2> HIDE DEF l
  <2> QED
    BY <1>1, <1>2, <2>2, <2>3
<1>5. ASSUME NEW n \in Ids, LoadRow(w, n)
      PROVE  Promised' \subseteq Promised
  <2> DEFINE l == [pc |-> "editing", id |-> n, row |-> rows[n]]
  <2>1. Become(w, l) /\ l.pc = "editing"
    BY <1>5 DEF LoadRow
  <2> HIDE DEF l
  <2> QED
    BY <1>2, <2>1
<1>6. ASSUME NEW S \in SUBSET Identities, StartImport(w, S)
      PROVE  Promised' \subseteq Promised
  <2> DEFINE l == [pc |-> "importing", new |-> {i \in S : ~IsDuplicate(i)}]
  <2>1. Become(w, l) /\ l.pc = "importing"
    BY <1>6 DEF StartImport
  <2> HIDE DEF l
  <2> QED
    BY <1>2, <2>1
<1>7. CASE Configure(w)
  BY <1>2, <1>7 DEF Configure
<1>8. CASE SetRegistrationOpen(w) \/ ToggleMaintenance(w) \/ Archive(w) \/ UpdateEvent(w)
  <2>1. PICK e \in Event : WriteEvent(w, e)
    BY <1>8, ConfiguredEvent
  <2>2. Become(w, Idle) /\ Idle.pc = "idle"
    BY <2>1 DEF WriteEvent, Idle
  <2> QED
    BY <1>1, <1>2, <2>2
<1>9. CASE (\E m \in Modules : ToggleModule(w, m)) \/ SetFormOpen(w)
  BY <1>9 DEF ToggleModule, SetFormOpen, Promised
<1>10. CASE Abandon(w)
  BY <1>2, <1>10 DEF Abandon, Idle
<1> QED
  BY <1>1, <1>3, <1>4, <1>5, <1>6, <1>7, <1>8, <1>9, <1>10 DEF Quiet

\* However the capacity check races, live rows on seats stay below the capacity
\* plus the number of workers plus the revived rows (OverbookingIsBounded).  The
\* argument counts the seats that are promised but not inserted yet: a promise is
\* given only while a seat is free, and there are at most as many as workers.
THEOREM OverbookingBounded == Spec => []OverbookingIsBounded
<1>1. Init => SeatsAndPromises
  <2> SUFFICES ASSUME Init PROVE SeatsAndPromises
    OBVIOUS
  <2>1. Seats = {} /\ Promised = {} /\ revivals = 0
    BY DEF Init, Seats, Live, Promised, Idle
  <2>2. TypeOK
    BY DEF Init, TypeOK, Event, Request
  <2> QED
    BY <2>1, <2>2, Counts, FS_EmptySet DEF SeatsAndPromises
<1>2. TypeOK /\ TypeOK' /\ HeldRowsExist /\ SeatsAndPromises /\ [Next]_vars => SeatsAndPromises'
  <2> SUFFICES ASSUME TypeOK, TypeOK', HeldRowsExist, SeatsAndPromises, [Next]_vars, Capacity > 0
               PROVE  SeatsAndPromises'
    BY DEF SeatsAndPromises
  <2> DEFINE s == Cardinality(Seats)
             p == Cardinality(Promised)
             N == Cardinality(Workers)
  <2>1. /\ s \in Nat /\ p \in Nat /\ s' \in Nat /\ p' \in Nat /\ N \in Nat /\ N > 0 /\ p' <= N
        /\ revivals \in Nat /\ revivals' \in Nat /\ Capacity \in Nat
        /\ s + p < Capacity + N + revivals
    <3>1. s' \in Nat /\ p' \in Nat /\ p' <= N
      <4>1. Seats' \subseteq Ids /\ Promised' \subseteq Workers
        BY DEF Seats, Live, Promised
      <4>2. IsFiniteSet(Ids) /\ IsFiniteSet(Workers)
        BY DEF RegistrationAssumption
      <4> QED
        BY <4>1, <4>2, FS_Subset, FS_CardinalityType
    <3> QED
      BY <3>1, Counts DEF TypeOK, SeatsAndPromises
  <2>2. ASSUME s' + p' < Capacity + N + revivals'
        PROVE  SeatsAndPromises'
    BY <2>2 DEF SeatsAndPromises
  <2>3. ASSUME s' + p' <= s + p, revivals' = revivals
        PROVE  SeatsAndPromises'
    BY <2>1, <2>2, <2>3
  <2>4. ASSUME NEW S, NEW T, IsFiniteSet(T), S \subseteq T
        PROVE  Cardinality(S) <= Cardinality(T)
    BY <2>4, FS_Subset
  <2>5. ASSUME NEW w \in Workers, Quiet(w)
        PROVE  SeatsAndPromises'
    <3>1. rows' = rows /\ revivals' = revivals /\ Promised' \subseteq Promised
      BY <2>5, QuietKeeps
    <3>2. Seats' = Seats
      BY <3>1 DEF Seats, Live
    <3>3. p' <= p
      BY <2>4, <3>1, Counts
    <3> QED
      BY <2>1, <2>3, <3>1, <3>2, <3>3
  <2>6. ASSUME NEW w \in Workers, CheckSeats(w)
        PROVE  SeatsAndPromises'
    <3>1. rows' = rows /\ revivals' = revivals /\ Seats' = Seats
      BY <2>6 DEF CheckSeats, Seats, Live
    <3>2. CASE Full
      <4>1. Promised' \subseteq Promised
        <5>1. \E l : Become(w, l) /\ (l.pc \notin {"counted", "unique"} \/ l.entry # "seat")
          BY <2>6, <3>2 DEF CheckSeats, Entry, Idle
        <5> QED
          BY <5>1, BecomeOne DEF Promised
      <4> QED
        BY <2>1, <2>3, <2>4, <3>1, <4>1, Counts
    <3>3. CASE ~Full
      <4>1. Cardinality(Live) < Capacity
        BY <3>3, Counts DEF Full
      <4>2. s < Capacity
        BY <2>1, <4>1, Counts
      <4> QED
        BY <2>1, <2>2, <3>1, <4>2
    <3> QED
      BY <3>2, <3>3
  <2>7. ASSUME NEW w \in Workers, NEW n \in Ids, Register(w, n)
        PROVE  SeatsAndPromises'
    <3>1. Promised' \subseteq Promised \ {w}
      BY <2>7, BecomeOne DEF Register, Promised, Idle
    <3>2. CASE local[w].entry = "seat"
      <4>1. s' <= s + 1 /\ revivals' = revivals
        BY <2>7, RegisterSeats, GrowsByOne, Counts
      <4>2. w \in Promised
        BY <2>7, <3>2 DEF Register, Promised
      <4>3. IsFiniteSet(Promised \ {w}) /\ Cardinality(Promised \ {w}) = p - 1
        BY <4>2, Counts, FS_RemoveElement
      <4>4. p' <= p - 1
        BY <2>4, <3>1, <4>3
      <4> QED
        BY <2>1, <2>3, <4>1, <4>4
    <3>3. CASE local[w].entry # "seat"
      <4>1. s' <= s /\ p' <= p /\ revivals' = revivals
        BY <2>4, <2>7, <3>1, <3>3, RegisterSeats, Counts
      <4> QED
        BY <2>1, <2>3, <4>1
    <3> QED
      BY <3>2, <3>3
  <2>8. ASSUME NEW w \in Workers, \/ Import(w)
                                  \/ \E n \in Ids, i \in Identities : Create(w, n, i)
                                  \/ \E n \in Ids : SoftDelete(w, n)
        PROVE  SeatsAndPromises'
    <3>1. Promised' \subseteq Promised
      <4>1. CASE Import(w)
        BY <4>1, BecomeOne DEF Import, Promised, Idle
      <4> QED
        BY <2>8, <4>1 DEF Create, SoftDelete, Promised
    <3>2. s' <= s /\ p' <= p /\ revivals' = revivals
      BY <2>4, <2>8, <3>1, OtherWritesTakeNoSeat, Counts
    <3> QED
      BY <2>1, <2>3, <3>2
  <2>9. ASSUME NEW w \in Workers, NEW i \in Identities, SaveRow(w, i)
        PROVE  SeatsAndPromises'
    <3>1. p' <= p
      <4>1. Promised' \subseteq Promised
        BY <2>9, BecomeOne DEF SaveRow, Promised, Idle
      <4> QED
        BY <2>4, <4>1, Counts
    <3>2. CASE Seats' \subseteq Seats /\ revivals' = revivals
      <4>1. s' <= s
        BY <2>4, <3>2, Counts
      <4> QED
        BY <2>1, <2>3, <3>1, <3>2, <4>1
    <3>3. CASE (\E n : Seats' \subseteq Seats \union {n}) /\ revivals' = revivals + 1
      <4>1. s' <= s + 1
        BY <3>3, GrowsByOne, Counts
      <4> QED
        BY <2>1, <2>2, <3>1, <3>3, <4>1
    <3> QED
      BY <2>9, <3>2, <3>3, SaveSeats
  <2>10. CASE UNCHANGED vars
    <3>1. Seats' = Seats /\ Promised' = Promised /\ revivals' = revivals
      BY <2>10 DEF vars, Seats, Live, Promised
    <3> QED
      BY <2>1, <2>3, <3>1
  <2> QED
    BY <2>5, <2>6, <2>7, <2>8, <2>9, <2>10 DEF Next, NextOf, Quiet
<1>3. TypeOK /\ SeatsAndPromises => OverbookingIsBounded
  <2> SUFFICES ASSUME TypeOK, SeatsAndPromises, Capacity > 0
               PROVE  Cardinality(Seats) < Capacity + Cardinality(Workers) + revivals
    BY DEF OverbookingIsBounded
  <2> QED
    BY Counts DEF SeatsAndPromises, TypeOK, RegistrationAssumption
<1> QED
  BY <1>1, <1>2, <1>3, RegistrationTypeCorrect, HeldRowsExistInductive, PTL DEF Spec
-----------------------------------------------------------------------------
(***************************************************************************)
(* Closing.                                                                *)
(***************************************************************************)

\* The steps that leave the event and the count of late registrations alone put
\* nobody in flight unless the event is accepting.
LEMMA NobodyTakesOff ==
  ASSUME TypeOK, NEW w \in Workers, NextOf(w), event' = event, ~Accepting(event)
  PROVE  InFlight' \subseteq InFlight
<1>1. ASSUME NEW l, Become(w, l), l.pc \notin {"loaded", "counted", "unique"}
      PROVE  InFlight' \subseteq InFlight
  BY <1>1, BecomeOne DEF InFlight
<1>2. ASSUME UNCHANGED local
      PROVE  InFlight' \subseteq InFlight
  BY <1>2 DEF InFlight
<1>3. ASSUME NEW i \in Identities, LoadEvent(w, i)
      PROVE  InFlight' \subseteq InFlight
  <2> DEFINE l == [pc |-> "loaded", identity |-> i, event |-> event]
  <2>1. Become(w, l) /\ l.pc = "loaded" /\ l.event = event /\ ~Admits(event)
    BY <1>3 DEF LoadEvent, Accepting
  <2> HIDE DEF l
  <2> QED
    BY <2>1, BecomeOne DEF InFlight
<1>4. ASSUME CheckSeats(w) \/ CheckDuplicate(w)
      PROVE  InFlight' \subseteq InFlight
  <2>1. w \in InFlight \/ Become(w, Idle)
    BY <1>4 DEF CheckSeats, CheckDuplicate, InFlight, Open
  <2>2. CASE w \in InFlight
    <3>1. \E l : Become(w, l)
      BY <1>4 DEF CheckSeats, CheckDuplicate
    <3> QED
      BY <2>2, <3>1, BecomeOne DEF InFlight
  <2>3. CASE Become(w, Idle)
    BY <1>1, <2>3 DEF Idle
  <2> QED
    BY <2>1, <2>2, <2>3
<1>5. ASSUME NEW n \in Ids, LoadRow(w, n)
      PROVE  InFlight' \subseteq InFlight
  <2> DEFINE l == [pc |-> "editing", id |-> n, row |-> rows[n]]
  <2>1. Become(w, l) /\ l.pc = "editing"
    BY <1>5 DEF LoadRow
  <2> HIDE DEF l
  <2> QED
    BY <1>1, <2>1
<1>6. ASSUME NEW S \in SUBSET Identities, StartImport(w, S)
      PROVE  InFlight' \subseteq InFlight
  <2> DEFINE l == [pc |-> "importing", new |-> {i \in S : ~IsDuplicate(i)}]
  <2>1. Become(w, l) /\ l.pc = "importing"
    BY <1>6 DEF StartImport
  <2> HIDE DEF l
  <2> QED
    BY <1>1, <2>1
<1>7. ASSUME Configure(w)
      PROVE  InFlight' \subseteq InFlight
  BY <1>1, <1>7 DEF Configure
<1>8. ASSUME \/ \E i \in Identities : SaveRow(w, i)
             \/ \E n \in Ids : Register(w, n)
             \/ Import(w)
             \/ SetRegistrationOpen(w) \/ ToggleMaintenance(w) \/ Archive(w) \/ UpdateEvent(w)
             \/ Abandon(w)
      PROVE  InFlight' \subseteq InFlight
  <2>1. SetRegistrationOpen(w) \/ ToggleMaintenance(w) \/ Archive(w) \/ UpdateEvent(w) => Become(w, Idle)
    BY ConfiguredEvent DEF WriteEvent
  <2>2. Become(w, Idle)
    BY <1>8, <2>1 DEF SaveRow, Register, Import, Abandon
  <2> QED
    BY <1>1, <2>2 DEF Idle
<1>9. ASSUME \/ \E n \in Ids, i \in Identities : Create(w, n, i)
             \/ \E n \in Ids : SoftDelete(w, n)
             \/ \E m \in Modules : ToggleModule(w, m)
             \/ SetFormOpen(w)
      PROVE  InFlight' \subseteq InFlight
  BY <1>2, <1>9 DEF Create, SoftDelete, ToggleModule, SetFormOpen
<1> QED
  BY <1>3, <1>4, <1>5, <1>6, <1>7, <1>8, <1>9 DEF NextOf

\* Only the end of a registration counts as late, and it takes the request out of
\* the air; only the administration writes the event.
LEMMA WhoTouchesLate ==
  ASSUME TypeOK, NEW w \in Workers, NextOf(w)
  PROVE  \/ event' = event /\ late' = late
         \/ \E n \in Ids : Register(w, n)
         \/ \E e \in Event : local[w] \in Configuring /\ WriteEvent(w, e)
<1>1. SetRegistrationOpen(w) \/ ToggleMaintenance(w) \/ Archive(w) \/ UpdateEvent(w)
        => \E e \in Event : local[w] \in Configuring /\ WriteEvent(w, e)
  BY ConfiguredEvent
<1> QED
  BY <1>1 DEF NextOf, LoadEvent, SaveRow, CheckSeats, CheckDuplicate, LoadRow, SoftDelete,
              StartImport, Import, Create, Configure, ToggleModule, SetFormOpen, Abandon

\* After the event stopped accepting registrations at most one more per worker is
\* committed (ClosingDrains): the requests in flight at that moment are all that
\* can still land, because a request that loads the event later is refused.
THEOREM ClosingIsDrained == Spec => []ClosingDrains
<1> DEFINE N == Cardinality(Workers)
           f == Cardinality(InFlight)
<1>1. Init => LateAndInFlight
  BY DEF Init, LateAndInFlight, Accepting, Admits
<1>2. TypeOK /\ TypeOK' /\ LateAndInFlight /\ [Next]_vars => LateAndInFlight'
  <2> SUFFICES ASSUME TypeOK, TypeOK', LateAndInFlight, [Next]_vars
               PROVE  LateAndInFlight'
    OBVIOUS
  <2>1. /\ f \in Nat /\ N \in Nat /\ late \in Nat /\ late' \in Nat
        /\ f' \in Nat /\ f' <= N
    <3>1. InFlight' \subseteq Workers
      BY DEF InFlight
    <3>2. IsFiniteSet(Workers)
      BY DEF RegistrationAssumption
    <3> QED
      BY <3>1, <3>2, Counts, FS_Subset, FS_CardinalityType DEF TypeOK
  <2>2. InFlight' \subseteq InFlight => f' <= f
    BY Counts, FS_Subset
  <2>3. ASSUME NEW w \in Workers, NextOf(w), event' = event, late' = late
        PROVE  LateAndInFlight'
    <3>1. CASE Accepting(event)
      BY <2>3, <3>1 DEF LateAndInFlight
    <3>2. CASE ~Accepting(event)
      <4>1. f' <= f
        BY <2>2, <2>3, <3>2, NobodyTakesOff
      <4> QED
        BY <2>1, <2>3, <3>2, <4>1 DEF LateAndInFlight
    <3> QED
      BY <3>1, <3>2
  <2>4. ASSUME NEW w \in Workers, NEW n \in Ids, Register(w, n)
        PROVE  LateAndInFlight'
    <3>1. event' = event /\ late' = (IF Accepting(event) THEN late ELSE late + 1)
      BY <2>4 DEF Register
    <3>2. InFlight' \subseteq InFlight \ {w}
      BY <2>4, BecomeOne DEF Register, InFlight, Idle
    <3>3. w \in InFlight
      BY <2>4 DEF Register, InFlight
    <3>4. IsFiniteSet(InFlight \ {w}) /\ Cardinality(InFlight \ {w}) = f - 1
      BY <3>3, Counts, FS_RemoveElement
    <3>5. f' <= f - 1
      BY <3>2, <3>4, FS_Subset
    <3> QED
      BY <2>1, <3>1, <3>5 DEF LateAndInFlight
  <2>5. ASSUME NEW w \in Workers, NEW e \in Event, local[w] \in Configuring, WriteEvent(w, e)
        PROVE  LateAndInFlight'
    <3>1. event' = e /\ late' = (IF Accepting(e) THEN 0 ELSE late) /\ Become(w, Idle)
      BY <2>5 DEF WriteEvent
    <3>2. InFlight' \subseteq InFlight
      BY <3>1, BecomeOne DEF InFlight, Idle
    <3>3. f' <= f
      BY <2>2, <3>2
    <3>4. late + f <= N
      BY <2>1, Counts DEF LateAndInFlight
    <3> QED
      BY <2>1, <3>1, <3>3, <3>4 DEF LateAndInFlight
  <2>6. CASE UNCHANGED vars
    BY <2>6 DEF vars, LateAndInFlight, InFlight, Accepting, Admits
  <2> QED
    BY <2>3, <2>4, <2>5, <2>6, WhoTouchesLate DEF Next
<1>3. TypeOK /\ LateAndInFlight => ClosingDrains
  <2> SUFFICES ASSUME TypeOK, LateAndInFlight, ~Accepting(event) PROVE late <= N
    BY DEF ClosingDrains
  <2> QED
    BY Counts DEF TypeOK, LateAndInFlight
<1> QED
  BY <1>1, <1>2, <1>3, RegistrationTypeCorrect, PTL DEF Spec
-----------------------------------------------------------------------------
(***************************************************************************)
(* What was read stays true until it is written.                           *)
(***************************************************************************)

\* Rows change only at the hand of a worker that may write and leaves, or never
\* was in, a transaction.
LEMMA WhoWritesRows ==
  ASSUME TypeOK, NEW w \in Workers, NextOf(w)
  PROVE  \/ rows' = rows
         \/ /\ MayWrite(w)
            /\ local'[w].pc = "idle"
            /\ \A v \in Workers : v # w => local'[v] = local[v]
<1>1. ASSUME Become(w, Idle)
      PROVE  local'[w].pc = "idle" /\ \A v \in Workers : v # w => local'[v] = local[v]
  BY <1>1, BecomeOne DEF Idle
<1>2. ASSUME local' = local, local[w] = Idle
      PROVE  local'[w].pc = "idle" /\ \A v \in Workers : v # w => local'[v] = local[v]
  BY <1>2 DEF Idle
<1>3. CASE \E i \in Identities : SaveRow(w, i)
  BY <1>1, <1>3 DEF SaveRow
<1>4. CASE (\E n \in Ids : Register(w, n)) \/ Import(w)
  BY <1>1, <1>4 DEF Register, Import
<1>5. CASE \/ \E n \in Ids, i \in Identities : Create(w, n, i)
           \/ \E n \in Ids : SoftDelete(w, n)
  BY <1>2, <1>5 DEF Create, SoftDelete
<1>6. CASE SetRegistrationOpen(w) \/ ToggleMaintenance(w) \/ Archive(w) \/ UpdateEvent(w)
  BY <1>6, ConfiguredEvent DEF WriteEvent
<1> QED
  BY <1>3, <1>4, <1>5, <1>6
     DEF NextOf, LoadEvent, CheckSeats, CheckDuplicate, LoadRow, StartImport, Configure,
         ToggleModule, SetFormOpen, Abandon

\* While rows stay, what a worker has newly read is true and what it had read
\* stays true.
LEMMA ReadsAreTrue ==
  ASSUME TypeOK, NEW w \in Workers, NextOf(w), rows' = rows, NEW v \in Workers, ReadsHold(v)
  PROVE  ReadsHold(v)'
<1>1. Full' = Full /\ \A i : IsDuplicate(i)' = IsDuplicate(i)
  BY DEF Full, IsDuplicate, Live
<1>2. ASSUME local'[v] = local[v]
      PROVE  ReadsHold(v)'
  BY <1>1, <1>2 DEF ReadsHold
<1>3. ASSUME NEW l, Become(w, l), l.pc \notin {"counted", "unique", "importing"}
      PROVE  ReadsHold(v)'
  <2>1. CASE v = w
    BY <1>3, <2>1, BecomeOne DEF ReadsHold
  <2>2. CASE v # w
    BY <1>2, <1>3, <2>2, BecomeOne
  <2> QED
    BY <2>1, <2>2
<1>4. ASSUME NEW i \in Identities, LoadEvent(w, i)
      PROVE  ReadsHold(v)'
  <2> DEFINE l == [pc |-> "loaded", identity |-> i, event |-> event]
  <2>1. Become(w, l) /\ l.pc = "loaded"
    BY <1>4 DEF LoadEvent
  <2> HIDE DEF l
  <2> QED
    BY <1>3, <2>1
<1>5. ASSUME CheckSeats(w)
      PROVE  ReadsHold(v)'
  <2>1. CASE Become(w, Idle)
    BY <1>3, <2>1 DEF Idle
  <2>2. CASE ~Become(w, Idle)
    <3> DEFINE l == [pc |-> "counted", identity |-> local[w].identity, entry |-> Entry]
    <3>1. Become(w, l) /\ l.pc = "counted" /\ (l.entry = "seat" => ~Full)
      BY <1>5, <2>2 DEF CheckSeats, Entry
    <3> HIDE DEF l
    <3>2. CASE v = w
      BY <1>1, <3>1, <3>2, BecomeOne DEF ReadsHold
    <3>3. CASE v # w
      BY <1>2, <3>1, <3>3, BecomeOne
    <3> QED
      BY <3>2, <3>3
  <2> QED
    BY <2>1, <2>2
<1>6. ASSUME CheckDuplicate(w)
      PROVE  ReadsHold(v)'
  <2>1. CASE Become(w, Idle)
    BY <1>3, <2>1 DEF Idle
  <2>2. CASE ~Become(w, Idle)
    <3>1. local[w] \in Counted /\ local[w].pc = "counted"
      BY <1>6, RequestShape DEF CheckDuplicate
    <3> DEFINE l == [local[w] EXCEPT !.pc = "unique"]
    <3>2. Become(w, l) /\ ~IsDuplicate(local[w].identity)
      BY <1>6, <2>2 DEF CheckDuplicate
    <3>3. l.pc = "unique" /\ l.identity = local[w].identity /\ l.entry = local[w].entry
      BY <3>1 DEF Counted
    <3> HIDE DEF l
    <3>4. CASE v = w
      BY <1>1, <3>1, <3>2, <3>3, <3>4, BecomeOne DEF ReadsHold
    <3>5. CASE v # w
      BY <1>2, <3>2, <3>5, BecomeOne
    <3> QED
      BY <3>4, <3>5
  <2> QED
    BY <2>1, <2>2
<1>7. ASSUME NEW S \in SUBSET Identities, StartImport(w, S)
      PROVE  ReadsHold(v)'
  <2> DEFINE l == [pc |-> "importing", new |-> {i \in S : ~IsDuplicate(i)}]
  <2>1. Become(w, l) /\ l.pc = "importing" /\ \A i \in l.new : ~IsDuplicate(i)
    BY <1>7 DEF StartImport
  <2> HIDE DEF l
  <2>2. CASE v = w
    BY <1>1, <2>1, <2>2, BecomeOne DEF ReadsHold
  <2>3. CASE v # w
    BY <1>2, <2>1, <2>3, BecomeOne
  <2> QED
    BY <2>2, <2>3
<1>8. ASSUME NEW n \in Ids, LoadRow(w, n)
      PROVE  ReadsHold(v)'
  <2> DEFINE l == [pc |-> "editing", id |-> n, row |-> rows[n]]
  <2>1. Become(w, l) /\ l.pc = "editing"
    BY <1>8 DEF LoadRow
  <2> HIDE DEF l
  <2> QED
    BY <1>3, <2>1
<1>9. ASSUME Configure(w)
      PROVE  ReadsHold(v)'
  BY <1>3, <1>9 DEF Configure
<1>10. ASSUME \/ \E i \in Identities : SaveRow(w, i)
              \/ \E n \in Ids : Register(w, n)
              \/ Import(w)
              \/ SetRegistrationOpen(w) \/ ToggleMaintenance(w) \/ Archive(w) \/ UpdateEvent(w)
              \/ Abandon(w)
       PROVE  ReadsHold(v)'
  <2>1. SetRegistrationOpen(w) \/ ToggleMaintenance(w) \/ Archive(w) \/ UpdateEvent(w) => Become(w, Idle)
    BY ConfiguredEvent DEF WriteEvent
  <2>2. Become(w, Idle)
    BY <1>10, <2>1 DEF SaveRow, Register, Import, Abandon
  <2> QED
    BY <1>3, <2>2 DEF Idle
<1>11. ASSUME \/ \E n \in Ids, i \in Identities : Create(w, n, i)
              \/ \E n \in Ids : SoftDelete(w, n)
              \/ \E m \in Modules : ToggleModule(w, m)
              \/ SetFormOpen(w)
       PROVE  ReadsHold(v)'
  BY <1>2, <1>11 DEF Create, SoftDelete, ToggleModule, SetFormOpen
<1> QED
  BY <1>4, <1>5, <1>6, <1>7, <1>8, <1>9, <1>10, <1>11 DEF NextOf

LEMMA ReadsStillHoldInductive ==
  ASSUME TypeOK, ReadsStillHold, [Next]_vars
  PROVE  ReadsStillHold'
<1> SUFFICES ASSUME Undisturbed, NEW v \in Workers
             PROVE  ReadsHold(v)'
  BY DEF ReadsStillHold
<1>1. ReadsHold(v)
  BY DEF ReadsStillHold
<1>2. ASSUME NEW w \in Workers, NextOf(w), rows' # rows
      PROVE  ReadsHold(v)'
  <2>1. MayWrite(w) /\ local'[w].pc = "idle" /\ (v # w => local'[v] = local[v])
    BY <1>2, WhoWritesRows
  <2>2. v # w => ~InTransaction(v)
    BY <2>1 DEF MayWrite, Undisturbed
  <2> QED
    BY <2>1, <2>2 DEF ReadsHold, InTransaction
<1>3. CASE UNCHANGED vars
  BY <1>1, <1>3 DEF vars, ReadsHold, Full, IsDuplicate, Live
<1> QED
  BY <1>1, <1>2, <1>3, ReadsAreTrue DEF Next

\* With a capacity, on SQLite or with one worker, live rows on seats never exceed the
\* capacity by more than the rows that stale full saves revived (SeatsAreExact): the
\* count that register_participant acts on is still true when it inserts.
THEOREM SeatsStayExact ==
  ASSUME Undisturbed
  PROVE  Spec => []SeatsAreExact
<1>1. Init => SeatsAndReads
  <2> SUFFICES ASSUME Init PROVE SeatsAndReads
    OBVIOUS
  <2>1. Seats = {} /\ revivals = 0
    BY DEF Init, Seats, Live
  <2>2. SeatsAreExact
    BY <2>1, FS_EmptySet DEF SeatsAreExact, RegistrationAssumption
  <2>3. ReadsStillHold
    BY DEF Init, ReadsStillHold, ReadsHold, Idle
  <2> QED
    BY <2>2, <2>3 DEF SeatsAndReads
<1>2. TypeOK /\ TypeOK' /\ HeldRowsExist /\ SeatsAndReads /\ [Next]_vars => SeatsAndReads'
  <2> SUFFICES ASSUME TypeOK, TypeOK', HeldRowsExist, SeatsAndReads, [Next]_vars, Capacity > 0
               PROVE  SeatsAreExact'
    BY ReadsStillHoldInductive DEF SeatsAndReads, SeatsAreExact
  <2> DEFINE s == Cardinality(Seats)
  <2>1. /\ s \in Nat /\ s' \in Nat /\ revivals \in Nat /\ revivals' \in Nat /\ Capacity \in Nat
        /\ s <= Capacity + revivals
    <3>1. s' \in Nat
      <4>1. Seats' \subseteq Ids /\ IsFiniteSet(Ids)
        BY DEF Seats, Live, RegistrationAssumption
      <4> QED
        BY <4>1, FS_Subset, FS_CardinalityType
    <3> QED
      BY <3>1, Counts DEF TypeOK, SeatsAndReads, SeatsAreExact, RegistrationAssumption
  <2>2. ASSUME s' <= Capacity + revivals'
        PROVE  SeatsAreExact'
    BY <2>2 DEF SeatsAreExact
  <2>3. ASSUME Seats' \subseteq Seats, revivals' = revivals
        PROVE  SeatsAreExact'
    <3>1. s' <= s
      BY <2>3, Counts, FS_Subset
    <3> QED
      BY <2>1, <2>2, <2>3, <3>1
  <2>4. ASSUME NEW w \in Workers, NEW n \in Ids, Register(w, n)
        PROVE  SeatsAreExact'
    <3>1. CASE local[w].entry = "seat"
      <4>1. s < Capacity
        <5>1. ~Full
          BY <2>4, <3>1 DEF SeatsAndReads, ReadsStillHold, ReadsHold, Register
        <5> QED
          BY <5>1, Counts DEF Full, RegistrationAssumption
      <4>2. s' <= s + 1 /\ revivals' = revivals
        BY <2>4, RegisterSeats, GrowsByOne, Counts
      <4> QED
        BY <2>1, <2>2, <4>1, <4>2
    <3>2. CASE local[w].entry # "seat"
      BY <2>3, <2>4, <3>2, RegisterSeats
    <3> QED
      BY <3>1, <3>2
  <2>5. ASSUME NEW w \in Workers, NEW i \in Identities, SaveRow(w, i)
        PROVE  SeatsAreExact'
    <3>1. CASE (\E n : Seats' \subseteq Seats \union {n}) /\ revivals' = revivals + 1
      <4>1. s' <= s + 1
        BY <3>1, GrowsByOne, Counts
      <4> QED
        BY <2>1, <2>2, <3>1, <4>1
    <3> QED
      BY <2>3, <2>5, <3>1, SaveSeats
  <2>6. ASSUME NEW w \in Workers, Quiet(w) \/ CheckSeats(w)
        PROVE  SeatsAreExact'
    <3>1. rows' = rows /\ revivals' = revivals
      BY <2>6, QuietKeeps DEF CheckSeats
    <3>2. Seats' = Seats
      BY <3>1 DEF Seats, Live
    <3> QED
      BY <2>3, <3>1, <3>2
  <2>7. CASE UNCHANGED vars
    <3>1. Seats' = Seats /\ revivals' = revivals
      BY <2>7 DEF vars, Seats, Live
    <3> QED
      BY <2>3, <3>1
  <2>8. ASSUME NEW w \in Workers, \/ Import(w)
                                  \/ \E n \in Ids, i \in Identities : Create(w, n, i)
                                  \/ \E n \in Ids : SoftDelete(w, n)
        PROVE  SeatsAreExact'
    BY <2>3, <2>8, OtherWritesTakeNoSeat
  <2> QED
    BY <2>4, <2>5, <2>6, <2>7, <2>8 DEF Next, NextOf, Quiet
<1>3. SeatsAndReads => SeatsAreExact
  BY DEF SeatsAndReads
<1> QED
  BY <1>1, <1>2, <1>3, RegistrationTypeCorrect, HeldRowsExistInductive, PTL DEF Spec

\* On SQLite or with one worker neither a registration nor an import commits a second
\* live row for one identity (NoDuplicateRegistration): the lookup of duplicate_hash is
\* still true when the row is inserted.
THEOREM NobodyRegistersTwice ==
  ASSUME Undisturbed
  PROVE  Spec => NoDuplicateRegistration
<1>1. Init => ReadsStillHold
  BY DEF Init, ReadsStillHold, ReadsHold, Idle
<1>2. TypeOK /\ HeldRowsExist /\ ReadsStillHold /\ [Next]_vars
        => [\A n \in Ids :
              (rows[n] = NoRow /\ rows'[n] # NoRow) =>
                \/ rows'[n].entry = "direct"
                \/ \A m \in Live : rows[m].identity # rows'[n].identity]_vars
  <2> SUFFICES ASSUME TypeOK, HeldRowsExist, ReadsStillHold, [Next]_vars,
                      NEW n \in Ids, rows[n] = NoRow, rows'[n] # NoRow
               PROVE  rows'[n].entry = "direct" \/ ~IsDuplicate(rows'[n].identity)
    BY DEF IsDuplicate
  <2>1. PICK w \in Workers : NextOf(w) /\ rows' # rows
    BY DEF vars, Next
  <2>2. ReadsHold(w)
    BY DEF ReadsStillHold
  <2>3. ASSUME NEW m \in Ids, Register(w, m)
        PROVE  ~IsDuplicate(rows'[n].identity)
    <3>1. m = n /\ rows'[n].identity = local[w].identity
      BY <2>3 DEF Register, Insert, TypeOK
    <3> QED
      BY <2>2, <2>3, <3>1 DEF Register, ReadsHold
  <2>4. ASSUME Import(w)
        PROVE  ~IsDuplicate(rows'[n].identity)
    <3>1. rows'[n].identity \in local[w].new
      <4>1. PICK key \in [local[w].new -> Free] :
              rows' = [m \in Ids |->
                IF m \in {key[i] : i \in local[w].new}
                  THEN [identity |-> CHOOSE i \in local[w].new : key[i] = m,
                        entry |-> "import", is_deleted |-> FALSE]
                  ELSE rows[m]]
        BY <2>4 DEF Import
      <4>2. n \in {key[i] : i \in local[w].new}
        BY <4>1
      <4>3. rows'[n].identity = CHOOSE i \in local[w].new : key[i] = n
        BY <4>1, <4>2
      <4> QED
        BY <4>2, <4>3
    <3> QED
      BY <2>2, <2>4, <3>1 DEF Import, ReadsHold
  <2>5. ASSUME NEW m \in Ids, NEW i \in Identities, Create(w, m, i)
        PROVE  rows'[n].entry = "direct"
    BY <2>5 DEF Create, Insert, TypeOK
  <2>6. ASSUME NEW i \in Identities, SaveRow(w, i)
        PROVE  FALSE
    <3>1. rows[local[w].id] # NoRow
      BY <2>6 DEF SaveRow, HeldRowsExist, HeldRowExists
    <3> QED
      BY <2>6, <3>1 DEF SaveRow, TypeOK
  <2>7. ASSUME NEW m \in Ids, SoftDelete(w, m)
        PROVE  FALSE
    BY <2>7 DEF SoftDelete, TypeOK, Live
  <2> QED
    BY <2>1, <2>3, <2>4, <2>5, <2>6, <2>7
       DEF NextOf, LoadEvent, CheckSeats, CheckDuplicate, LoadRow, StartImport, Configure,
           SetRegistrationOpen, ToggleMaintenance, Archive, UpdateEvent, WriteEvent, ToggleModule,
           SetFormOpen, Abandon
<1>3. TypeOK /\ ReadsStillHold /\ [Next]_vars => ReadsStillHold'
  BY ReadsStillHoldInductive
<1> QED
  BY <1>1, <1>2, <1>3, RegistrationTypeCorrect, HeldRowsExistInductive, PTL DEF Spec, NoDuplicateRegistration
-----------------------------------------------------------------------------
(***************************************************************************)
(* The roster that registration implements.                                *)
(***************************************************************************)

\* What Roster is about - the rows, the modules and the form - changes only at the
\* hand of a worker that may write and leaves, or never was in, a transaction.
LEMMA WhoWritesTheList ==
  ASSUME TypeOK, NEW w \in Workers, NextOf(w)
  PROVE  \/ UNCHANGED <<rows, modules, formOpen>>
         \/ /\ MayWrite(w)
            /\ local'[w].pc = "idle"
            /\ \A v \in Workers : v # w => local'[v] = local[v]
<1>1. CASE (\E m \in Modules : ToggleModule(w, m)) \/ SetFormOpen(w)
  BY <1>1 DEF ToggleModule, SetFormOpen, Idle
<1>2. CASE ~((\E m \in Modules : ToggleModule(w, m)) \/ SetFormOpen(w))
  <2>1. SetRegistrationOpen(w) \/ ToggleMaintenance(w) \/ Archive(w) \/ UpdateEvent(w)
          => UNCHANGED <<modules, formOpen>>
    BY ConfiguredEvent DEF WriteEvent
  <2>2. UNCHANGED <<modules, formOpen>>
    BY <1>2, <2>1
       DEF NextOf, LoadEvent, SaveRow, CheckSeats, CheckDuplicate, Register, LoadRow, SoftDelete,
           StartImport, Import, Create, Configure, Abandon
  <2> QED
    BY <2>2, WhoWritesRows
<1> QED
  BY <1>1, <1>2

\* A worker comes to hold a promise only by the two checks of register_participant.
LEMMA WhoIsPromised ==
  ASSUME TypeOK, NEW w \in Workers, NextOf(w), NEW v \in Workers,
         local'[v].pc \in {"counted", "unique"}
  PROVE  local'[v] = local[v] \/ (v = w /\ (CheckSeats(w) \/ CheckDuplicate(w)))
<1>1. ASSUME NEW l, Become(w, l), l.pc \notin {"counted", "unique"}
      PROVE  local'[v] = local[v]
  BY <1>1, BecomeOne
<1>2. ASSUME NEW l, Become(w, l), v # w
      PROVE  local'[v] = local[v]
  BY <1>2, BecomeOne
<1>3. ASSUME CheckSeats(w) \/ CheckDuplicate(w)
      PROVE  v = w \/ local'[v] = local[v]
  BY <1>2, <1>3 DEF CheckSeats, CheckDuplicate
<1>4. ASSUME NEW i \in Identities, LoadEvent(w, i)
      PROVE  local'[v] = local[v]
  BY <1>1, <1>4 DEF LoadEvent
<1>5. ASSUME NEW S \in SUBSET Identities, StartImport(w, S)
      PROVE  local'[v] = local[v]
  BY <1>1, <1>5 DEF StartImport
<1>6. ASSUME NEW n \in Ids, LoadRow(w, n)
      PROVE  local'[v] = local[v]
  BY <1>1, <1>6 DEF LoadRow
<1>7. ASSUME Configure(w)
      PROVE  local'[v] = local[v]
  BY <1>1, <1>7 DEF Configure
<1>8. ASSUME Become(w, Idle)
      PROVE  local'[v] = local[v]
  BY <1>1, <1>8 DEF Idle
<1>9. SetRegistrationOpen(w) \/ ToggleMaintenance(w) \/ Archive(w) \/ UpdateEvent(w)
        => Become(w, Idle)
  BY ConfiguredEvent DEF WriteEvent
<1> QED
  BY <1>3, <1>4, <1>5, <1>6, <1>7, <1>8, <1>9
     DEF NextOf, SaveRow, Register, SoftDelete, Import, Create, ToggleModule, SetFormOpen, Abandon

LEMMA PromisesHoldInductive ==
  ASSUME TypeOK, PromisesHold, [Next]_vars
  PROVE  PromisesHold'
<1> SUFFICES ASSUME Undisturbed, NEW v \in Workers, local'[v].pc \in {"counted", "unique"}
             PROVE  PromiseHolds(v)'
  BY DEF PromisesHold, PromiseHolds
<1>1. PromiseHolds(v)
  BY DEF PromisesHold
<1>2. ASSUME UNCHANGED <<rows, modules, formOpen>>
      PROVE  Full' = Full /\ Entry' = Entry
  BY <1>2 DEF Full, Entry, Live
<1>3. CASE UNCHANGED vars
  BY <1>1, <1>2, <1>3 DEF vars, PromiseHolds
<1>4. ASSUME NEW w \in Workers, NextOf(w), ~UNCHANGED <<rows, modules, formOpen>>
      PROVE  FALSE
  <2>1. MayWrite(w) /\ local'[w].pc = "idle" /\ (v # w => local'[v] = local[v])
    BY <1>4, WhoWritesTheList
  <2>2. v # w => ~InTransaction(v)
    BY <2>1 DEF MayWrite, Undisturbed
  <2> QED
    BY <2>1, <2>2 DEF InTransaction
<1>5. ASSUME NEW w \in Workers, NextOf(w), UNCHANGED <<rows, modules, formOpen>>
      PROVE  PromiseHolds(v)'
  <2>1. CASE local'[v] = local[v]
    BY <1>1, <1>2, <1>5, <2>1 DEF PromiseHolds
  <2>2. CASE v = w /\ CheckSeats(w)
    <3> DEFINE l == [pc |-> "counted", identity |-> local[w].identity, entry |-> Entry]
    <3>1. \/ local'[v] = Idle
          \/ local'[v] = l /\ Open(local[w].event) /\ (Full => "waitlist" \in modules)
      BY <2>2, BecomeOne DEF CheckSeats
    <3>2. local'[v] = l /\ Open(local[w].event) /\ (Full => "waitlist" \in modules)
      BY <3>1 DEF Idle
    <3> QED
      BY <1>2, <1>5, <3>2 DEF PromiseHolds, Open
  <2>3. CASE v = w /\ CheckDuplicate(w)
    <3>1. local[w] \in Counted /\ local[w].pc = "counted"
      BY <2>3, RequestShape DEF CheckDuplicate
    <3>2. local'[v] = Idle \/ local'[v] = [local[w] EXCEPT !.pc = "unique"]
      BY <2>3, BecomeOne DEF CheckDuplicate
    <3>3. local'[v].entry = local[v].entry
      BY <2>3, <3>1, <3>2 DEF Idle, Counted
    <3> QED
      BY <1>1, <1>2, <1>5, <2>3, <3>1, <3>3 DEF PromiseHolds
  <2> QED
    BY <1>5, <2>1, <2>2, <2>3, WhoIsPromised
<1> QED
  BY <1>3, <1>4, <1>5 DEF Next

\* The roster's view of one row.
LEMMA WhoIsListed ==
  ASSUME TypeOK
  PROVE  /\ List!Listed = Live
         /\ \A i \in Identities : List!Known(i) <=> IsDuplicate(i)
         /\ List!Full <=> Full
         /\ \A i \in Identities : i # NoRow
<1> DEFINE listed == [n \in Ids |-> IF n \in Live THEN rows[n].identity ELSE NoRow]
<1>1. \A i \in Identities : i # NoRow
  BY DEF Identities, NoRow
<1>2. \A n \in Live : n \in Ids /\ rows[n].identity \in Identities
  BY LiveAreRows DEF Row
<1>3. List!Listed = {n \in Ids : listed[n] # NoRow}
  BY DEF List!Listed
<1>4. List!Listed = Live
  BY <1>1, <1>2, <1>3
<1>5. \A i \in Identities : List!Known(i) <=> IsDuplicate(i)
  <2>1. \A i \in Identities : List!Known(i) <=> \E n \in Live : listed[n] = i
    BY <1>4 DEF List!Known
  <2> QED
    BY <1>2, <2>1 DEF IsDuplicate
<1>6. List!Full <=> Full
  BY <1>4 DEF List!Full, Full, List!Cardinality, Cardinality
<1> QED
  BY <1>1, <1>4, <1>5, <1>6

\* On SQLite or with one worker a registration acts as one step (ImplementsRoster):
\* what it counted and looked up, and the doors it found open, are still so when it
\* inserts; an import brings in new people only, and an edit never changes how somebody
\* came in.
THEOREM RegistrationImplementsRoster ==
  ASSUME Undisturbed
  PROVE  Spec => ImplementsRoster
<1> DEFINE listed == [n \in Ids |-> IF n \in Live THEN rows[n].identity ELSE NoRow]
           came   == [n \in Ids |-> IF rows[n] = NoRow THEN "none" ELSE rows[n].entry]
           open   == modules \union (IF formOpen THEN {"form"} ELSE {})
<1>1. Init => List!RosterInit
  <2> SUFFICES ASSUME Init PROVE List!RosterInit
    OBVIOUS
  <2>1. listed = [n \in Ids |-> NoRow] /\ came = [n \in Ids |-> "none"]
    BY DEF Init, Live
  <2>2. open \subseteq {"public_registration", "form", "waitlist"}
    BY DEF Init, Modules
  <2> QED
    BY <2>1, <2>2 DEF List!RosterInit
<1>2. Init => ReadsStillHold /\ PromisesHold
  BY DEF Init, ReadsStillHold, ReadsHold, PromisesHold, PromiseHolds, Idle
<1>3. TypeOK /\ TypeOK' /\ HeldRowsExist /\ ReadsStillHold /\ PromisesHold /\ [Next]_vars
        => [List!RosterNext]_(List!rosterVars)
  <2> SUFFICES ASSUME TypeOK, TypeOK', HeldRowsExist, ReadsStillHold, PromisesHold, [Next]_vars
               PROVE  \/ listed' = listed /\ came' = came /\ open' = open
                      \/ List!RosterNext
    BY DEF List!rosterVars
  <2>1. ASSUME UNCHANGED <<rows, modules, formOpen>>
        PROVE  listed' = listed /\ came' = came /\ open' = open
    BY <2>1 DEF Live
  <2>2. ASSUME UNCHANGED rows
        PROVE  listed' = listed /\ came' = came
    BY <2>2 DEF Live
  <2>3. ASSUME UNCHANGED <<modules, formOpen>>
        PROVE  open' = open
    BY <2>3
  <2>4. ASSUME NEW n \in Free, NEW i \in Identities,
               NEW entry \in {"seat", "waitlist", "direct"}, Insert(n, i, entry),
               UNCHANGED <<modules, formOpen>>
        PROVE  List!Fill(n, i, entry)
    <3> DEFINE r == [identity |-> i, entry |-> entry, is_deleted |-> FALSE]
    <3>1. rows' = [rows EXCEPT ![n] = r] /\ r # NoRow /\ n \in Ids /\ rows[n] = NoRow
      BY <2>4, RowsArePresent DEF Insert, Free, Row
    <3>2. Live' = Live \union {n}
      BY <3>1 DEF Live, TypeOK
    <3>3. came[n] = "none" /\ came' = [came EXCEPT ![n] = entry]
      BY <3>1 DEF TypeOK
    <3>4. listed' = [listed EXCEPT ![n] = i]
      BY <3>1, <3>2 DEF TypeOK
    <3> QED
      BY <2>3, <2>4, <3>3, <3>4 DEF List!Fill
  <2>5. ASSUME NEW w \in Workers, NEW n \in Ids, Register(w, n)
        PROVE  List!RosterNext
    <3>1. local[w] \in Counted /\ local[w].pc = "unique" /\ n \in Free
      BY <2>5, RequestShape DEF Register
    <3>2. ReadsHold(w) /\ PromiseHolds(w)
      BY DEF ReadsStillHold, PromisesHold
    <3> DEFINE i == local[w].identity
    <3>3. i \in Identities /\ Entry \in {"seat", "waitlist"} /\ local[w].entry = Entry
      BY <3>1, <3>2 DEF Counted, PromiseHolds, Entry
    <3>4. {"public_registration", "form"} \subseteq open /\ (Full => "waitlist" \in open)
      BY <3>1, <3>2 DEF PromiseHolds
    <3>5. ~List!Known(i)
      BY <3>1, <3>2, <3>3, WhoIsListed DEF ReadsHold
    <3>6. Insert(n, i, Entry) /\ UNCHANGED <<modules, formOpen>>
      BY <2>5, <3>3 DEF Register
    <3>7. CASE Full
      <4>1. Entry = "waitlist" /\ List!Full /\ "waitlist" \in open
        BY <3>4, <3>7, WhoIsListed DEF Entry
      <4>2. List!Fill(n, i, "waitlist")
        BY <2>4, <2>5, <3>1, <3>3, <3>6, <4>1
      <4>3. List!SignUp(n, i)
        BY <3>4, <3>5, <4>1, <4>2 DEF List!SignUp, List!Fill
      <4> QED
        BY <3>3, <4>3 DEF List!RosterNext
    <3>8. CASE ~Full
      <4>1. Entry = "seat" /\ ~List!Full
        BY <3>8, WhoIsListed DEF Entry
      <4>2. List!Fill(n, i, "seat")
        BY <2>4, <2>5, <3>1, <3>3, <3>6, <4>1
      <4>3. List!SignUp(n, i)
        BY <3>4, <3>5, <4>1, <4>2 DEF List!SignUp, List!Fill
      <4> QED
        BY <3>3, <4>3 DEF List!RosterNext
    <3> QED
      BY <3>7, <3>8
  <2>6. ASSUME NEW w \in Workers, NEW n \in Ids, NEW i \in Identities, Create(w, n, i)
        PROVE  List!RosterNext
    <3>1. List!Fill(n, i, "direct")
      BY <2>4, <2>6 DEF Create
    <3> QED
      BY <3>1 DEF List!WriteDown, List!RosterNext
  <2>7. ASSUME NEW w \in Workers, Import(w)
        PROVE  List!RosterNext
    <3>1. local[w] \in Importing /\ local[w].new \subseteq Identities
      BY <2>7, RequestShape DEF Import, Importing
    <3>2. \A i \in local[w].new : ~IsDuplicate(i)
      BY <2>7 DEF ReadsStillHold, ReadsHold, Import
    <3>3. PICK key \in [local[w].new -> Free] :
            /\ \A i, j \in local[w].new : key[i] = key[j] => i = j
            /\ rows' = [n \in Ids |->
                 IF n \in {key[i] : i \in local[w].new}
                   THEN [identity |-> CHOOSE i \in local[w].new : key[i] = n,
                         entry |-> "import", is_deleted |-> FALSE]
                   ELSE rows[n]]
      BY <2>7 DEF Import
    <3> DEFINE at(n) == CHOOSE i \in local[w].new : key[i] = n
               r(n) == [identity |-> at(n), entry |-> "import", is_deleted |-> FALSE]
    <3>4. PICK new \in SUBSET Ids : new = {key[i] : i \in local[w].new}
      <4> DEFINE new == {key[i] : i \in local[w].new}
      <4>1. new \subseteq Free /\ Free \subseteq Ids
        BY <3>3, LiveAreRows
      <4> QED
        BY <4>1
    <3>5. \A n \in new : n \in Ids /\ rows[n] = NoRow /\ at(n) \in local[w].new /\ key[at(n)] = n
      BY <3>3, <3>4 DEF Free
    <3> HIDE DEF at
    <3>6. \A n \in new : /\ rows'[n] # NoRow /\ ~rows'[n].is_deleted
                         /\ rows'[n].identity = at(n) /\ rows'[n].entry = "import"
      <4>1. \A n \in new : rows'[n] = r(n)
        BY <3>3, <3>5, <3>4 DEF at
      <4>2. \A n \in new : r(n) \in Row
        BY <3>1, <3>5 DEF Row
      <4>3. \A n \in new : rows'[n] # NoRow
        BY <4>1, <4>2, RowsArePresent
      <4> TAKE n \in new
      <4>4. PICK i : rows'[n] = [identity |-> i, entry |-> "import", is_deleted |-> FALSE]
                     /\ i = at(n)
        BY <4>1
      <4>5. ~rows'[n].is_deleted /\ rows'[n].entry = "import" /\ rows'[n].identity = i
        BY <4>4
      <4> QED
        BY <4>3, <4>4, <4>5
    <3>7. \A n \in Ids : n \notin new => rows'[n] = rows[n]
      BY <3>3, <3>4
    <3>8. \A n \in new : n \in Live' /\ listed'[n] = at(n)
      BY <3>5, <3>6 DEF Live
    <3>9. \A n \in Ids : n \notin new => (n \in Live' <=> n \in Live)
      BY <3>7 DEF Live
    <3>10. listed' = [n \in Ids |-> IF n \in new THEN listed'[n] ELSE listed[n]]
      BY <3>7, <3>9
    <3>11. came' = [n \in Ids |-> IF n \in new THEN "import" ELSE came[n]]
      BY <3>6, <3>7
    <3>12. \A n \in new : came[n] = "none" /\ listed'[n] \in Identities /\ ~List!Known(listed'[n])
      BY <3>1, <3>2, <3>5, <3>8, WhoIsListed
    <3>13. \A m, n \in new : listed'[m] = listed'[n] => m = n
      BY <3>5, <3>8
    <3>14. open' = open
      BY <2>3, <2>7 DEF Import
    <3>15. List!BringIn(new) /\ new \in SUBSET Ids
      BY <3>5, <3>10, <3>11, <3>12, <3>13, <3>14 DEF List!BringIn
    <3> QED
      BY <3>15 DEF List!RosterNext
  <2>8. ASSUME NEW w \in Workers, NEW i \in Identities, SaveRow(w, i)
        PROVE  List!RosterNext
    <3> DEFINE n == local[w].id
               r == [local[w].row EXCEPT !.identity = i]
    <3>1. local[w] \in Editing /\ n \in Ids /\ local[w].row \in Row
      BY <2>8, RequestShape DEF SaveRow, Editing
    <3>2. rows[n] # NoRow /\ rows[n].entry = local[w].row.entry /\ ~local[w].row.is_deleted
      BY <2>8 DEF SaveRow, HeldRowsExist, HeldRowExists
    <3>3. rows' = [rows EXCEPT ![n] = r]
      BY <2>8 DEF SaveRow
    <3>4. r \in Row /\ r.identity = i /\ r.entry = rows[n].entry /\ ~r.is_deleted
      BY <3>1, <3>2 DEF Row
    <3> HIDE DEF n, r
    <3>5. rows'[n] = r /\ r # NoRow /\ \A m \in Ids : m # n => rows'[m] = rows[m]
      BY <3>1, <3>3, <3>4, RowsArePresent DEF TypeOK, n
    <3>6. Live' = Live \union {n}
      BY <3>1, <3>4, <3>5 DEF Live, n
    <3>7. listed' = [listed EXCEPT ![n] = i]
      BY <3>1, <3>4, <3>5, <3>6 DEF n
    <3>8. came' = came /\ came[n] # "none"
      BY <3>1, <3>2, <3>4, <3>5, LiveAreRows DEF Row, n
    <3>9. open' = open
      BY <2>3, <2>8 DEF SaveRow
    <3>10. List!Correct(n, i) /\ n \in Ids
      BY <3>1, <3>7, <3>8, <3>9 DEF List!Correct, n
    <3> QED
      BY <3>10 DEF List!RosterNext
  <2>9. ASSUME NEW w \in Workers, NEW n \in Ids, SoftDelete(w, n)
        PROVE  List!RosterNext
    <3>1. n \in Live /\ rows[n] \in Row /\ rows' = [rows EXCEPT ![n].is_deleted = TRUE]
      BY <2>9, LiveAreRows DEF SoftDelete
    <3>2. rows'[n] # NoRow /\ rows'[n].is_deleted /\ rows'[n].entry = rows[n].entry
      BY <3>1, RowsArePresent DEF TypeOK, Row
    <3>3. \A m \in Ids : m # n => rows'[m] = rows[m]
      BY <3>1 DEF TypeOK
    <3>4. Live' = Live \ {n}
      BY <3>2, <3>3 DEF Live
    <3>5. listed' = [listed EXCEPT ![n] = NoRow]
      BY <3>3, <3>4
    <3>6. came' = came
      BY <3>1, <3>2, <3>3, RowsArePresent
    <3>7. open' = open
      BY <2>3, <2>9 DEF SoftDelete
    <3>8. List!Remove(n)
      BY <3>5, <3>6, <3>7 DEF List!Remove
    <3> QED
      BY <3>8 DEF List!RosterNext
  <2>10. ASSUME UNCHANGED rows, modules' \subseteq Modules
         PROVE  List!RosterNext
    <3>1. open' \subseteq {"public_registration", "form", "waitlist"}
      BY <2>10 DEF Modules
    <3>2. List!OpenAndClose
      BY <2>2, <2>10, <3>1 DEF List!OpenAndClose
    <3> QED
      BY <3>2 DEF List!RosterNext
  <2>11. CASE UNCHANGED rows
    BY <2>10, <2>11 DEF TypeOK
  <2>12. CASE ~UNCHANGED rows
    <3>1. PICK w \in Workers : NextOf(w)
      BY <2>12 DEF Next, vars
    <3>2. ~(SetRegistrationOpen(w) \/ ToggleMaintenance(w) \/ Archive(w) \/ UpdateEvent(w))
      BY <2>12, ConfiguredEvent DEF WriteEvent
    <3> QED
      BY <2>5, <2>6, <2>7, <2>8, <2>9, <2>12, <3>1, <3>2
         DEF NextOf, LoadEvent, CheckSeats, CheckDuplicate, LoadRow, StartImport, Configure,
             ToggleModule, SetFormOpen, Abandon
  <2> QED
    BY <2>11, <2>12
<1> QED
  BY <1>1, <1>2, <1>3, RegistrationTypeCorrect, HeldRowsExistInductive, ReadsStillHoldInductive,
     PromisesHoldInductive, PTL DEF Spec, ImplementsRoster, List!RosterSpec
=============================================================================
