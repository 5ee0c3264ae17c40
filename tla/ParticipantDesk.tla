--------------------------- MODULE ParticipantDesk ---------------------------
(***************************************************************************)
(* The participant rows of one event and the requests that read and write  *)
(* them: the check-in desk (services.perform_checkin), the review of       *)
(* registrations (review_participant, bulk_review_participants), the       *)
(* dashboard's edit form and the REST update, violations and soft delete.  *)
(*                                                                         *)
(* A request is served by a worker process.  What it reads and what it     *)
(* writes are separate steps, because that is where another worker's       *)
(* commit can fall.  Two things decide how much can fall in between:       *)
(*   - perform_checkin reads and writes inside one transaction.  On        *)
(*     PostgreSQL (READ COMMITTED) that transaction does not stop others   *)
(*     from writing the row; on SQLite an open reader keeps every other    *)
(*     writer out, and one of two open readers is turned away;             *)
(*   - review, edit and REST update load the row before any transaction    *)
(*     and later save every column of it (Model.save without               *)
(*     update_fields), on either database.                                 *)
(*                                                                         *)
(* PointTransaction and ParticipantBadge rows that a check-in also writes  *)
(* are other tables and are left to the model of points.                   *)
(***************************************************************************)
EXTENDS Naturals, FiniteSets

CONSTANTS
  Participants,      \* rows of core_participant of the event
  Workers,           \* worker processes, one request each at a time
  Database,          \* "postgresql" or "sqlite" (config/settings.py)
  PreventDuplicate,  \* event.prevent_duplicate_checkin
  Ops,               \* the kinds of request clients send
  ReviewActions,     \* the review verbs they send
  EditStatuses,      \* the statuses they pick in the edit form
  MaxScans,          \* bound: a participant admitted this often is not scanned again
  MaxErasures        \* bound: full-row saves start only below this many erasures

VARIABLES
  row,         \* the committed Participant rows
  admissions,  \* committed CheckInLog rows with action=checkin, success=True
  failedLogs,  \* participants with a committed CheckInLog row with success=False
  local,       \* what each worker holds of the request it is serving
  erasures,    \* history: how often a save took checked_in_at from set to null
  refusals     \* history: participants whose code was scanned and turned away

vars == <<row, admissions, failedLogs, local, erasures, refusals>>
-----------------------------------------------------------------------------
Statuses == {"draft", "submitted", "pending_review", "need_more_info", "approved",
             "rejected", "waitlisted", "checked_in", "checked_out", "attended",
             "no_show", "banned", "certificate_blocked"}

\* The columns of Participant that the handlers below read or write.
Row == [status: Statuses, checked_in: BOOLEAN, is_blacklisted: BOOLEAN,
        certificate_blocked: BOOLEAN, is_deleted: BOOLEAN]

\* The dictionary "transitions" of review_participant.
Transition == [approve |-> "approved", reject |-> "rejected", waitlist |-> "waitlisted",
               need_info |-> "need_more_info", ban |-> "banned",
               block_certificate |-> "certificate_blocked"]

FullRowOps == {"review", "edit", "patch"}
ScanOps    == {"checkin", "checkout"}
OtherOps   == {"bulk_review", "violation", "delete"}

ASSUME DeskAssumption ==
  /\ IsFiniteSet(Workers)
  /\ Database \in {"postgresql", "sqlite"}
  /\ PreventDuplicate \in BOOLEAN
  /\ Ops \subseteq FullRowOps \union ScanOps \union OtherOps
  /\ ReviewActions \subseteq DOMAIN Transition
  /\ EditStatuses \subseteq Statuses
  /\ MaxScans \in Nat
  /\ MaxErasures \in Nat

Idle     == [op |-> "idle"]
\* perform_checkin after its checks: about to write, or about to raise.
Scanning == [op: ScanOps \union {"refused"}, who: Participants]
\* A handler that holds a Participant instance it will save in full.
Holding  == [op: FullRowOps, who: Participants, row: Row]

TypeOK ==
  /\ row \in [Participants -> Row]
  /\ admissions \in [Participants -> Nat]
  /\ failedLogs \subseteq Participants
  /\ local \in [Workers -> {Idle} \union Scanning \union Holding]
  /\ erasures \in [Participants -> Nat]
  /\ refusals \subseteq Participants
-----------------------------------------------------------------------------
Fresh(s) == [status |-> s, checked_in |-> FALSE, is_blacklisted |-> FALSE,
             certificate_blocked |-> FALSE, is_deleted |-> FALSE]

\* Rows as register_participant leaves them.
Init ==
  /\ row \in [Participants -> {Fresh(s) : s \in {"approved", "pending_review",
                                                 "submitted", "waitlisted"}}]
  /\ admissions = [p \in Participants |-> 0]
  /\ failedLogs = {}
  /\ local = [w \in Workers |-> Idle]
  /\ erasures = [p \in Participants |-> 0]
  /\ refusals = {}

InTransaction(w) == local[w].op \in ScanOps \union {"refused"}

\* Faulty variant: the transaction's reads keep nobody out.
MayWrite_Unlocked(w) == w \in Workers

\* SQLite lets a worker write only while no other worker is inside a
\* transaction that has read; PostgreSQL makes no such promise.
MayWrite(w) == Database = "sqlite" => \A v \in Workers \ {w} : ~InTransaction(v)

Done(w) == local' = [local EXCEPT ![w] = Idle]
-----------------------------------------------------------------------------
(* Reading a row to save it in full later. *)

LoadRow(w, p, op) ==
  /\ op \in Ops \intersect FullRowOps
  /\ local[w] = Idle
  /\ ~row[p].is_deleted
  /\ erasures[p] < MaxErasures
  /\ local' = [local EXCEPT ![w] = [op |-> op, who |-> p, row |-> row[p]]]
  /\ UNCHANGED <<row, admissions, failedLogs, erasures, refusals>>

\* Participant.save() without update_fields: every column, as loaded or as set.
FullSave(w, r) ==
  LET p == local[w].who
      erases == row[p].checked_in /\ ~r.checked_in
  IN /\ MayWrite(w)
     /\ row' = [row EXCEPT ![p] = r]
     /\ erasures' = [erasures EXCEPT ![p] = IF erases THEN @ + 1 ELSE @]
     /\ Done(w)
     /\ UNCHANGED <<admissions, failedLogs, refusals>>

\* Faulty variant: the ban flag assigned instead of only ever set.
Reviewed_ResetsBan(r, a) ==
  [r EXCEPT !.status = Transition[a],
            !.is_blacklisted = a = "ban",
            !.certificate_blocked = @ \/ a = "block_certificate"]

Reviewed(r, a) ==
  [r EXCEPT !.status = Transition[a],
            !.is_blacklisted = @ \/ a = "ban",
            !.certificate_blocked = @ \/ a = "block_certificate"]

Review(w) ==
  /\ local[w].op = "review"
  /\ \E a \in ReviewActions : FullSave(w, Reviewed(local[w].row, a))

\* ParticipantUpdateForm, or a REST update of the same columns.
Edit(w) ==
  /\ local[w].op = "edit"
  /\ \E s \in EditStatuses, b, c \in BOOLEAN :
       FullSave(w, [local[w].row EXCEPT !.status = s, !.is_blacklisted = b,
                                        !.certificate_blocked = c])

\* A REST update that names checked_in_at: ParticipantSerializer lists it under
\* read_only_fields, but outside Meta, where the framework does not look.
Patch(w) ==
  /\ local[w].op = "patch"
  /\ \E c \in BOOLEAN : FullSave(w, [local[w].row EXCEPT !.checked_in = c])
-----------------------------------------------------------------------------
(* Writes that do not depend on an instance read earlier. *)

\* The rows are read and saved in one transaction.  The query joins nullable
\* relations, so on PostgreSQL select_for_update() is an error: nothing changes.
BulkReview(w, S, a) ==
  /\ "bulk_review" \in Ops
  /\ local[w] = Idle
  /\ Database = "sqlite" /\ MayWrite(w)
  /\ row' = [p \in Participants |->
               IF p \in S /\ ~row[p].is_deleted THEN Reviewed(row[p], a) ELSE row[p]]
  /\ UNCHANGED <<admissions, failedLogs, local, erasures, refusals>>

\* A violation whose type blocks certificates; save(update_fields=...).
RecordViolation(w, p) ==
  /\ "violation" \in Ops
  /\ local[w] = Idle
  /\ MayWrite(w)
  /\ ~row[p].is_deleted
  /\ row' = [row EXCEPT ![p].certificate_blocked = TRUE, ![p].status = "certificate_blocked"]
  /\ UNCHANGED <<admissions, failedLogs, local, erasures, refusals>>

SoftDelete(w, p) ==
  /\ "delete" \in Ops
  /\ local[w] = Idle
  /\ MayWrite(w)
  /\ ~row[p].is_deleted
  /\ row' = [row EXCEPT ![p].is_deleted = TRUE]
  /\ UNCHANGED <<admissions, failedLogs, local, erasures, refusals>>
-----------------------------------------------------------------------------
(* perform_checkin: the checks, then the writes. *)

Admissible == {"approved", "checked_in", "checked_out", "attended"}

\* Faulty variants: the duplicate check reads the status; the flag is not read.
Refused_ByStatus(r, a) ==
  \/ r.is_deleted
  \/ r.is_blacklisted
  \/ r.status \notin Admissible
  \/ a = "checkin" /\ PreventDuplicate /\ r.status = "checked_in"

Refused_ByBannedStatus(r, a) ==
  \/ r.is_deleted
  \/ r.status \notin Admissible
  \/ a = "checkin" /\ PreventDuplicate /\ r.checked_in

Refused(r, a) ==
  \/ r.is_deleted
  \/ r.is_blacklisted
  \/ r.status \notin Admissible
  \/ a = "checkin" /\ PreventDuplicate /\ r.checked_in

Scan(w, p, a) ==
  /\ a \in Ops \intersect ScanOps
  /\ local[w] = Idle
  /\ Refused(row[p], a) \/ admissions[p] < MaxScans
  /\ local' = [local EXCEPT ![w] =
                 [op |-> IF Refused(row[p], a) THEN "refused" ELSE a, who |-> p]]
  /\ UNCHANGED <<row, admissions, failedLogs, erasures, refusals>>

\* Faulty variant: no transaction around the handler, and it dies after the
\* participant is saved.
CheckIn_NotAtomic(w) ==
  /\ local[w].op = "checkin"
  /\ MayWrite(w)
  /\ row' = [row EXCEPT ![local[w].who].status = "checked_in", ![local[w].who].checked_in = TRUE]
  /\ Done(w)
  /\ UNCHANGED <<admissions, failedLogs, erasures, refusals>>

CheckIn(w) ==
  /\ local[w].op = "checkin"
  /\ MayWrite(w)
  /\ LET p == local[w].who
     IN /\ row' = [row EXCEPT ![p].status = "checked_in", ![p].checked_in = TRUE]
        /\ admissions' = [admissions EXCEPT ![p] = @ + 1]
  /\ Done(w)
  /\ UNCHANGED <<failedLogs, erasures, refusals>>

CheckOut(w) ==
  /\ local[w].op = "checkout"
  /\ MayWrite(w)
  /\ row' = [row EXCEPT ![local[w].who].status = "checked_out"]
  /\ Done(w)
  /\ UNCHANGED <<admissions, failedLogs, erasures, refusals>>

\* The CheckInLog row with success=False was created in the transaction that
\* the ValidationError now rolls back: the scanner is answered, no row stays.
Refuse(w) ==
  /\ local[w].op = "refused"
  /\ refusals' = refusals \union {local[w].who}
  /\ Done(w)
  /\ UNCHANGED <<row, admissions, failedLogs, erasures>>

\* The request ends without writing: an unknown review verb, an invalid form,
\* "database is locked", or the death of the worker (its transaction rolls back).
Abandon(w) ==
  /\ local[w] # Idle
  /\ Done(w)
  /\ UNCHANGED <<row, admissions, failedLogs, erasures, refusals>>
-----------------------------------------------------------------------------
Next ==
  \E w \in Workers :
    \/ \E p \in Participants :
         \/ \E op \in FullRowOps : LoadRow(w, p, op)
         \/ \E a \in ScanOps : Scan(w, p, a)
         \/ RecordViolation(w, p)
         \/ SoftDelete(w, p)
    \/ \E S \in SUBSET Participants, a \in ReviewActions : BulkReview(w, S, a)
    \/ Review(w) \/ Edit(w) \/ Patch(w)
    \/ CheckIn(w) \/ CheckOut(w) \/ Refuse(w)
    \/ Abandon(w)

Spec == Init /\ [][Next]_vars
-----------------------------------------------------------------------------
(* Properties. *)

\* A participant marked as checked in really was: the mark, which stale full-row
\* saves copy around and may bring back, never exists without a committed
\* attendance log behind it (perform_checkin writes both in one transaction).
AdmissionIsLogged == \A p \in Participants : row[p].checked_in => admissions[p] > 0

\* With duplicate prevention on, one code is admitted at most once per worker,
\* and once more per worker each time a full-row save has erased its mark: what
\* the unlocked check-then-write of perform_checkin can do wrong is bounded.
AdmissionsBounded ==
  PreventDuplicate =>
    \A p \in Participants : admissions[p] <= Cardinality(Workers) * (1 + erasures[p])

\* With duplicate prevention on, a second admission of the same code has only one
\* explanation: a full-row save erased the mark of the first (it is what the
\* check on checked_in_at is for; it needs reads that keep writers out).
ReAdmissionNeedsErasure ==
  PreventDuplicate =>
    \A p \in Participants :
      admissions[p] <= erasures[p] + (IF row[p].checked_in THEN 1 ELSE 0)

\* The safety flags is_blacklisted and certificate_blocked, once committed, are
\* cleared only by the end of a review, edit or REST update that holds the row;
\* scans, bulk reviews, violations and deletion keep them.
OnlyFullSaveClearsFlags ==
  [][\A p \in Participants :
       \/ row[p].is_blacklisted /\ ~row'[p].is_blacklisted
       \/ row[p].certificate_blocked /\ ~row'[p].certificate_blocked
       => \E w \in Workers : /\ local[w].op \in FullRowOps
                             /\ local[w].who = p
                             /\ local'[w] = Idle]_vars

\* Nobody is admitted while blacklisted: services.perform_checkin answers such a
\* scan with "a banned participant cannot be checked in".
BannedNotAdmitted ==
  [][\A p \in Participants :
       admissions'[p] > admissions[p] => ~row[p].is_blacklisted]_vars

\* With duplicate prevention on, a participant has at most one admission.
NoDoubleAdmission ==
  PreventDuplicate => \A p \in Participants : admissions[p] <= 1

\* Every scan turned away leaves its attendance log row.
RefusalsAreLogged == refusals \subseteq failedLogs

Desk == INSTANCE Door WITH
          entries <- admissions,
          marked  <- {p \in Participants : row[p].checked_in},
          barred  <- {p \in Participants : \/ row[p].is_deleted
                                           \/ row[p].is_blacklisted
                                           \/ row[p].status \notin Admissible}

\* With duplicate prevention on and reads that keep writers out, the desk is a
\* door: the check and the mark of a successful scan act as one step, whatever
\* reviews and edits do to the rows meanwhile.
DeskIsADoor == Desk!DoorSpec

-----------------------------------------------------------------------------
(* Inductive strengthenings, for ParticipantDeskProofs. *)

\* AdmissionIsLogged also holds of the marks that requests in progress hold and
\* may write back, provided nobody writes the mark by hand ("patch").
HeldMarksAreLogged ==
  /\ AdmissionIsLogged
  /\ \A w \in Workers : local[w].op \in FullRowOps =>
       /\ local[w].op \in Ops
       /\ local[w].row.checked_in => admissions[local[w].who] > 0

\* The scans of p that have passed the duplicate check and not written yet.
Passed(p) == {w \in Workers : local[w].op = "checkin" /\ local[w].who = p}

\* A marked row lets no further scan pass, so those that did are all that can
\* still come; an unmarked row has used up only what erasures gave back.
PassedAreBounded ==
  PreventDuplicate =>
    \A p \in Participants :
      IF row[p].checked_in
        THEN admissions[p] + Cardinality(Passed(p)) <= Cardinality(Workers) * (1 + erasures[p])
        ELSE admissions[p] <= Cardinality(Workers) * erasures[p]

\* No save has erased a mark, and none that is under way would: a row that is marked was
\* marked when it was loaded.
NothingErased ==
  /\ \A p \in Participants : erasures[p] = 0
  /\ \A w \in Workers : local[w].op \in FullRowOps =>
       /\ local[w].op \in Ops
       /\ row[local[w].who].checked_in => local[w].row.checked_in

\* What was read in a transaction is not disturbed before it is written: SQLite keeps
\* other writers out, and a worker that serves everybody alone has nobody to fear.
Undisturbed == Database = "sqlite" \/ \A v, w \in Workers : v = w

\* While an open transaction keeps writers out, what a scan has checked stays true.
ChecksStillHold ==
  Undisturbed =>
    \A w \in Workers : local[w].op = "checkin" => ~Refused(row[local[w].who], "checkin")
=============================================================================
