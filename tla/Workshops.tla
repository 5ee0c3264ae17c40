------------------------------- MODULE Workshops -------------------------------
(***************************************************************************)
(* Seats in the workshops of one event: enrolment (the public page and     *)
(* REST, services.enroll_workshop), workshop attendance (the WORKSHOP      *)
(* branch of services.perform_checkin), and plain REST writes and deletes  *)
(* of WorkshopRegistration rows and of workshop times.                     *)
(*                                                                         *)
(* An enrolment counts the taken seats, looks for the registration, and    *)
(* saves; WorkshopRegistration.save() first reads whether the participant  *)
(* has a seat in an overlapping workshop (clean).  Each is a statement of  *)
(* its own, so on PostgreSQL another commit may fall between any two; on   *)
(* SQLite a transaction that has read keeps writers out (ParticipantDesk). *)
(* A REST write runs in no transaction: its clean and its write have a gap *)
(* on either database.                                                     *)
(*                                                                         *)
(* Whether the desk admits the participant at all, and the points that     *)
(* attendance earns, are modelled elsewhere.                               *)
(***************************************************************************)
EXTENDS Naturals, FiniteSets

CONSTANTS
  Titles,        \* the workshops of the event
  Participants,
  Workers,       \* worker processes, one request each at a time
  Database,      \* "postgresql" or "sqlite"
  Capacity,      \* Workshop.capacity by title, 0 for unlimited
  WithWaitlist,  \* the titles with waitlist_enabled
  Slots,         \* times a workshop can have, each a set of hours
  Ops,           \* the kinds of request clients send
  MaxBypasses    \* bound: REST writes start only below this many seats taken by REST

VARIABLES
  reg,       \* the status of each WorkshopRegistration row, "none" where there is no row
  slot,      \* the time of each workshop
  local,     \* what each worker holds of the request it is serving
  bypasses   \* history: by title, how often a REST write took a seat

vars == <<reg, slot, local, bypasses>>
-----------------------------------------------------------------------------
\* Rows are identified by their workshop and participant (unique_together).
Registrations == Titles \X Participants
TitleOf(x)    == x[1]
WhoOf(x)      == x[2]

Statuses == {"registered", "waitlisted", "attended", "cancelled"}
Seated   == {"registered", "attended"}

ASSUME WorkshopsAssumption ==
  /\ IsFiniteSet(Titles) /\ IsFiniteSet(Participants)
  /\ IsFiniteSet(Workers) /\ Workers # {}
  /\ Database \in {"postgresql", "sqlite"}
  /\ Capacity \in [Titles -> Nat]
  /\ WithWaitlist \subseteq Titles
  /\ Slots \subseteq SUBSET Nat
  /\ Ops \subseteq {"enroll", "attend", "rest", "cancel", "delete", "reschedule"}
  /\ MaxBypasses \in Nat

Idle      == [pc |-> "idle"]
\* An enrolment with its workshop loaded; with its status decided; with the row to
\* write and its save() found valid.
Loaded    == [pc: {"loaded"}, key: Registrations, slot: Slots]
Counted   == [pc: {"counted"}, key: Registrations, slot: Slots, status: {"registered", "waitlisted"}]
Found     == [pc: {"found"}, key: Registrations, slot: Slots, status: {"registered", "waitlisted"},
              how: {"insert", "update"}]
\* A scan, and a REST write, past the checks.
Attending == [pc: {"attending"}, key: Registrations]
Saving    == [pc: {"saving"}, key: Registrations, status: Statuses]

Request == {Idle} \union Loaded \union Counted \union Found \union Attending \union Saving

TypeOK ==
  /\ reg \in [Registrations -> Statuses \union {"none"}]
  /\ slot \in [Titles -> Slots]
  /\ local \in [Workers -> Request]
  /\ bypasses \in [Titles -> Nat]

Init ==
  /\ reg = [x \in Registrations |-> "none"]
  /\ slot \in [Titles -> Slots]
  /\ local = [w \in Workers |-> Idle]
  /\ bypasses = [k \in Titles |-> 0]
-----------------------------------------------------------------------------
Seats(k) == {x \in Registrations : TitleOf(x) = k /\ reg[x] \in Seated}

\* Faulty variant: people who have attended no longer take their seat.
Full_OnlyRegistered(k) ==
  Capacity[k] > 0
  /\ Cardinality({x \in Registrations : TitleOf(x) = k /\ reg[x] = "registered"}) >= Capacity[k]

Full(k) == Capacity[k] > 0 /\ Cardinality(Seats(k)) >= Capacity[k]

\* Faulty variant: two workshops overlap only when their times are the same.
Clashes_SameTimeOnly(x, s) ==
  \E y \in Registrations \ {x} :
    WhoOf(y) = WhoOf(x) /\ reg[y] \in Seated /\ slot[TitleOf(y)] = s

\* clean(): the participant has a seat in another workshop at an overlapping time.
Clashes(x, s) ==
  \E y \in Registrations \ {x} :
    WhoOf(y) = WhoOf(x) /\ reg[y] \in Seated /\ slot[TitleOf(y)] \intersect s # {}

Valid(x, s, status) == status \in Seated => ~Clashes(x, s)

InTransaction(w) == local[w].pc \in {"counted", "found", "attending"}

\* Faulty variant: the transaction's reads keep nobody out.
MayWrite_Unlocked(w) == w \in Workers

MayWrite(w) == Database = "sqlite" => \A v \in Workers \ {w} : ~InTransaction(v)

Become(w, l) == local' = [local EXCEPT ![w] = l]
-----------------------------------------------------------------------------
(* enroll_workshop. *)

\* The view loads the workshop, open for registration, before the transaction.
LoadWorkshop(w, x) ==
  /\ "enroll" \in Ops
  /\ local[w] = Idle
  /\ Become(w, [pc |-> "loaded", key |-> x, slot |-> slot[TitleOf(x)]])
  /\ UNCHANGED <<reg, slot, bypasses>>

EntryStatus(k) == IF Full(k) THEN "waitlisted" ELSE "registered"

CountSeats(w) ==
  /\ local[w].pc = "loaded"
  /\ LET k == TitleOf(local[w].key)
     IN Become(w, IF Full(k) /\ k \notin WithWaitlist
                    THEN Idle
                    ELSE [pc |-> "counted", key |-> local[w].key, slot |-> local[w].slot,
                          status |-> EntryStatus(k)])
  /\ UNCHANGED <<reg, slot, bypasses>>

\* What an enrolment may write over.
Reusable == {"none", "cancelled"}

\* get_or_create's get, and the clean() of the save that follows.  A registration
\* that is not cancelled is returned as it is.
FindRegistration(w) ==
  /\ local[w].pc = "counted"
  /\ LET x == local[w].key
         valid == Valid(x, local[w].slot, local[w].status)
     IN Become(w, IF reg[x] \in Reusable /\ valid
                    THEN [pc |-> "found", key |-> x, slot |-> local[w].slot,
                          status |-> local[w].status,
                          how |-> IF reg[x] = "none" THEN "insert" ELSE "update"]
                    ELSE Idle)
  /\ UNCHANGED <<reg, slot, bypasses>>

\* The write.  An insert that meets a row inserted meanwhile is an IntegrityError
\* that get_or_create answers by getting that row; an update of a row deleted
\* meanwhile inserts it again.
SaveEnrolment(w) ==
  /\ local[w].pc = "found"
  /\ MayWrite(w)
  /\ LET x == local[w].key
     IN IF local[w].how = "insert" /\ reg[x] # "none"
          THEN /\ Become(w, [pc |-> "counted", key |-> x, slot |-> local[w].slot,
                             status |-> local[w].status])
               /\ UNCHANGED reg
          ELSE /\ reg' = [reg EXCEPT ![x] = local[w].status]
               /\ Become(w, Idle)
  /\ UNCHANGED <<slot, bypasses>>
-----------------------------------------------------------------------------
(* Attendance: the WORKSHOP branch of perform_checkin. *)

\* Only somebody registered or attended already is let in, and the save's clean()
\* must pass once more.
ScanAttendance(w, x) ==
  /\ "attend" \in Ops
  /\ local[w] = Idle
  /\ reg[x] \in Seated /\ ~Clashes(x, slot[TitleOf(x)])
  /\ Become(w, [pc |-> "attending", key |-> x])
  /\ UNCHANGED <<reg, slot, bypasses>>

\* The registration is saved in full, whatever has become of the row.
MarkAttended(w) ==
  /\ local[w].pc = "attending"
  /\ MayWrite(w)
  /\ reg' = [reg EXCEPT ![local[w].key] = "attended"]
  /\ Become(w, Idle)
  /\ UNCHANGED <<slot, bypasses>>
-----------------------------------------------------------------------------
(* The generic REST viewsets. *)

\* POST or PATCH of a registration with any status: no capacity is asked for, and
\* clean() is no part of a transaction.  (A POST that loses to another insert is an
\* error, the effect of Abandon.)  Clients may be known to do no more than cancel.
CleanRest(w, x, status) ==
  /\ "rest" \in Ops \/ ("cancel" \in Ops /\ status = "cancelled")
  /\ local[w] = Idle
  /\ bypasses[TitleOf(x)] < MaxBypasses
  /\ Valid(x, slot[TitleOf(x)], status)
  /\ Become(w, [pc |-> "saving", key |-> x, status |-> status])
  /\ UNCHANGED <<reg, slot, bypasses>>

SaveRest(w) ==
  /\ local[w].pc = "saving"
  /\ MayWrite(w)
  /\ LET x == local[w].key
         takes == reg[x] \notin Seated /\ local[w].status \in Seated
     IN /\ reg' = [reg EXCEPT ![x] = local[w].status]
        /\ bypasses' = [bypasses EXCEPT ![TitleOf(x)] = IF takes THEN @ + 1 ELSE @]
  /\ Become(w, Idle)
  /\ UNCHANGED slot

\* WorkshopRegistration has no soft delete: the row is gone.
Delete(w, x) ==
  /\ "delete" \in Ops
  /\ local[w] = Idle
  /\ MayWrite(w)
  /\ reg' = [reg EXCEPT ![x] = "none"]
  /\ UNCHANGED <<slot, local, bypasses>>

\* A REST update of the workshop's times asks nobody who is registered.
Reschedule(w, k) ==
  /\ "reschedule" \in Ops
  /\ local[w] = Idle
  /\ MayWrite(w)
  /\ \E s \in Slots : slot' = [slot EXCEPT ![k] = s]
  /\ UNCHANGED <<reg, local, bypasses>>

\* The request ends without writing: a refusal, an error, the death of the worker.
Abandon(w) ==
  /\ local[w] # Idle
  /\ Become(w, Idle)
  /\ UNCHANGED <<reg, slot, bypasses>>
-----------------------------------------------------------------------------
NextOf(w) ==
  \/ \E x \in Registrations : LoadWorkshop(w, x) \/ ScanAttendance(w, x) \/ Delete(w, x)
  \/ CountSeats(w) \/ FindRegistration(w) \/ SaveEnrolment(w)
  \/ MarkAttended(w)
  \/ \E x \in Registrations, status \in Statuses : CleanRest(w, x, status)
  \/ SaveRest(w)
  \/ \E k \in Titles : Reschedule(w, k)
  \/ Abandon(w)

Next == \E w \in Workers : NextOf(w)

Spec == Init /\ [][Next]_vars
-----------------------------------------------------------------------------
(* Properties. *)

\* However enrolments, scans, deletions and moves interleave, the seats of a
\* workshop exceed its capacity by fewer than the number of workers, and by one
\* more for each seat REST took without asking: scans that revive a seat given up
\* meanwhile cannot add to what enrolments overbook.
SeatsAreBounded ==
  \A k \in Titles :
    Capacity[k] > 0 =>
      Cardinality(Seats(k)) < Capacity[k] + Cardinality(Workers) + bypasses[k]

\* On a database whose readers keep writers out, enrolment and attendance never
\* overbook: the seats are within the capacity and what REST took.
SeatsAreExact ==
  \A k \in Titles :
    Capacity[k] > 0 => Cardinality(Seats(k)) <= Capacity[k] + bypasses[k]

\* Nobody has seats in two overlapping workshops: "it is not possible to register
\* in two workshops that conflict" (WorkshopRegistration.clean).
NoClash ==
  \A x, y \in Registrations :
    x # y /\ WhoOf(x) = WhoOf(y) /\ reg[x] \in Seated /\ reg[y] \in Seated
      => slot[TitleOf(x)] \intersect slot[TitleOf(y)] = {}

\* The step is the write of a REST request of w to x.
RestSaves(w, x) == local[w].pc = "saving" /\ local[w].key = x /\ local'[w] = Idle

\* A recorded attendance is never overwritten by an enrolment, not by one that found
\* the row cancelled either: only a REST write or a deletion takes it away.
AttendanceIsKept ==
  [][\A x \in Registrations :
       reg[x] = "attended" /\ reg'[x] # "attended" =>
         \/ reg'[x] = "none"
         \/ \E w \in Workers : RestSaves(w, x)]_vars

\* A seat is taken by an enrolment or by REST; attendance alone gives nobody a seat.
ScansGiveNoSeat ==
  [][\A x \in Registrations :
       reg[x] \notin Seated /\ reg'[x] = "attended" =>
         \E w \in Workers : RestSaves(w, x)]_vars

Plan == INSTANCE SeatPlan WITH held <- {x \in Registrations : reg[x] \in Seated}, times <- slot

\* On a database whose readers keep writers out, and while REST at most cancels
\* registrations and moves no workshop, enrolment and attendance are a seat plan: the
\* counting, the look at the other workshops and the write act as one step.
ImplementsSeatPlan == Plan!PlanSpec
-----------------------------------------------------------------------------
(* Inductive strengthenings. *)

\* What was read in a transaction is not disturbed before it is written: SQLite keeps
\* other writers out, and a worker that serves everybody alone has nobody to fear.
Undisturbed == Database = "sqlite" \/ \A v, w \in Workers : v = w

\* The enrolments that were promised a seat in k, and the seats in k that scans may
\* still write back.
Promised(k) == {w \in Workers : /\ local[w].pc \in {"counted", "found"}
                                /\ TitleOf(local[w].key) = k
                                /\ local[w].status = "registered"}
Scanned(k)  == {x \in Registrations :
                  TitleOf(x) = k /\ \E w \in Workers : local[w].pc = "attending" /\ local[w].key = x}

SeatsAndPromises ==
  \A k \in Titles :
    Capacity[k] > 0 =>
      Cardinality(Seats(k) \union Scanned(k)) + Cardinality(Promised(k))
        < Capacity[k] + Cardinality(Workers) + bypasses[k]

\* While an open transaction keeps writers out, what it has read stays true.
ReadsHold(w) ==
  /\ local[w].pc \in {"counted", "found"} /\ local[w].status = "registered"
       => ~Full(TitleOf(local[w].key))
  /\ local[w].pc = "found" =>
       /\ reg[local[w].key] = IF local[w].how = "insert" THEN "none" ELSE "cancelled"
       /\ local[w].status = "registered" => ~Clashes(local[w].key, local[w].slot)
  /\ local[w].pc = "attending" => reg[local[w].key] \in Seated

ReadsStillHold == Undisturbed => \A w \in Workers : ReadsHold(w)

\* Unless workshops are moved, the time an enrolment works with is the workshop's.
HeldSlotsAreCurrent ==
  \A w \in Workers : local[w].pc \in {"loaded", "counted", "found"} =>
    local[w].slot = slot[TitleOf(local[w].key)]
=============================================================================
