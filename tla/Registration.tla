----------------------------- MODULE Registration -----------------------------
(***************************************************************************)
(* How participant rows of one event come to exist: public registration    *)
(* (web form and REST, services.register_participant), the import of a      *)
(* workbook, and plain REST creation, against the administration that      *)
(* opens, closes and configures the event and edits and deletes rows.      *)
(*                                                                         *)
(* A registration loads the event outside any transaction; then, inside    *)
(* one, it checks the switches and the free seats, looks for a duplicate   *)
(* and inserts.  Nothing in the schema makes a second row impossible       *)
(* (duplicate_hash is indexed, not unique), so what another worker commits *)
(* between those steps matters.  PostgreSQL lets it; on SQLite an open     *)
(* reader keeps every other writer out (see ParticipantDesk).              *)
(*                                                                         *)
(* Review statuses are abstracted to how a row came in: the capacity check *)
(* counts rows whatever their status is.                                   *)
(***************************************************************************)
EXTENDS Naturals, FiniteSets

CONSTANTS
  Ids,         \* primary keys; bound: as many rows as there are keys
  Phones,      \* phone numbers
  Emails,      \* e-mail addresses (a national id would be one more of the kind)
  Workers,     \* worker processes, one request each at a time
  Database,    \* "postgresql" or "sqlite"
  Capacity,    \* event.capacity, 0 for unlimited
  Ops,         \* the kinds of request clients send
  MaxRevivals  \* bound: rows are loaded for a full save only below this many revivals

VARIABLES
  rows,      \* the committed Participant rows
  event,     \* the switches in the committed Event row
  modules,   \* the enabled EventModule codes, of those registration consults
  formOpen,  \* RegistrationForm.is_open
  local,     \* what each worker holds of the request it is serving
  late,      \* history: registrations committed since the event stopped accepting them
  revivals   \* history: how often a full-row save brought a deleted row back

vars == <<rows, event, modules, formOpen, local, late, revivals>>
-----------------------------------------------------------------------------
\* What duplicate_hash distinguishes: equal hashes are equal identities.
Identities == [phone: Phones, email: Emails]

\* A row, and how it came in: on a seat, on the waitlist, or by another door.
Row == [identity: Identities, entry: {"seat", "waitlist", "import", "direct"},
        is_deleted: BOOLEAN]
NoRow == [absent |-> TRUE]

Event == [registration_open: BOOLEAN, maintenance_mode: BOOLEAN, archived: BOOLEAN]
Modules == {"public_registration", "waitlist"}

AllOps == {"register", "import", "create", "edit", "delete", "flags", "update_event",
           "modules", "form"}

ASSUME RegistrationAssumption ==
  /\ IsFiniteSet(Ids)
  /\ IsFiniteSet(Workers) /\ Workers # {}
  /\ Database \in {"postgresql", "sqlite"}
  /\ Capacity \in Nat
  /\ Ops \subseteq AllOps
  /\ MaxRevivals \in Nat

Idle        == [pc |-> "idle"]
Loaded      == [pc: {"loaded"}, identity: Identities, event: Event]
\* register_participant after the capacity check, and after the duplicate check.
Counted     == [pc: {"counted", "unique"}, identity: Identities, entry: {"seat", "waitlist"}]
Importing   == [pc: {"importing"}, new: SUBSET Identities]
Editing     == [pc: {"editing"}, id: Ids, row: Row]
Configuring == [pc: {"configuring"}, event: Event]

Request == {Idle} \union Loaded \union Counted \union Importing \union Editing \union Configuring

TypeOK ==
  /\ rows \in [Ids -> Row \union {NoRow}]
  /\ event \in Event
  /\ modules \subseteq Modules
  /\ formOpen \in BOOLEAN
  /\ local \in [Workers -> Request]
  /\ late \in Nat
  /\ revivals \in Nat

Init ==
  /\ rows = [n \in Ids |-> NoRow]
  /\ event = [registration_open |-> TRUE, maintenance_mode |-> FALSE, archived |-> FALSE]
  /\ modules \in SUBSET Modules
  /\ formOpen = TRUE
  /\ local = [w \in Workers |-> Idle]
  /\ late = 0
  /\ revivals = 0
-----------------------------------------------------------------------------
Live  == {n \in Ids : rows[n] # NoRow /\ ~rows[n].is_deleted}
Seats == {n \in Live : rows[n].entry = "seat"}
Free  == {n \in Ids : rows[n] = NoRow}

\* Faulty variant: the lookup forgets the people on the waitlist.
IsDuplicate_NotWaitlisted(i) ==
  \E n \in Live : rows[n].identity = i /\ rows[n].entry # "waitlist"

IsDuplicate(i) == \E n \in Live : rows[n].identity = i

\* What register_participant asks of the event; the views before it also want an
\* event that is not archived.
Admits(e)    == e.registration_open /\ ~e.maintenance_mode
Accepting(e) == Admits(e) /\ ~e.archived

InTransaction(w) == local[w].pc \in {"counted", "unique", "importing"}

\* Faulty variant: the transaction's reads keep nobody out.
MayWrite_Unlocked(w) == w \in Workers

MayWrite(w) == Database = "sqlite" => \A v \in Workers \ {w} : ~InTransaction(v)

Become(w, l) == local' = [local EXCEPT ![w] = l]

\* A new row, by its own transaction.
Insert(n, i, how) ==
  rows' = [rows EXCEPT ![n] = [identity |-> i, entry |-> how, is_deleted |-> FALSE]]
-----------------------------------------------------------------------------
(* Public registration. *)

\* public_register and PublicRegistrationAPIView: the event is loaded, the input
\* validated; nothing of this is in register_participant's transaction.
LoadEvent(w, i) ==
  /\ "register" \in Ops
  /\ local[w] = Idle
  /\ ~event.archived
  /\ Become(w, [pc |-> "loaded", identity |-> i, event |-> event])
  /\ UNCHANGED <<rows, event, modules, formOpen, late, revivals>>

\* Faulty variant: the last seat is taken for a free one twice.
Full_OffByOne == Capacity > 0 /\ Cardinality(Live) > Capacity

Full == Capacity > 0 /\ Cardinality(Live) >= Capacity

Entry == IF Full THEN "waitlist" ELSE "seat"

\* Faulty variant: the switches of the event are not consulted again.
Open_IgnoresEvent(e) ==
  /\ e \in Event
  /\ "public_registration" \in modules
  /\ formOpen

\* Faulty variant: the module is checked by the view only, when it shows the form.
Open_AnyModule(e) == Admits(e) /\ formOpen

\* The event as loaded; its modules and its form as they are now.
Open(e) ==
  /\ Admits(e)
  /\ "public_registration" \in modules
  /\ formOpen

\* The refusals of register_participant end the request and roll back.
CheckSeats(w) ==
  /\ local[w].pc = "loaded"
  /\ Become(w, IF Open(local[w].event) /\ (Full => "waitlist" \in modules)
                 THEN [pc |-> "counted", identity |-> local[w].identity, entry |-> Entry]
                 ELSE Idle)
  /\ UNCHANGED <<rows, event, modules, formOpen, late, revivals>>

CheckDuplicate(w) ==
  /\ local[w].pc = "counted"
  /\ Become(w, IF IsDuplicate(local[w].identity) THEN Idle
                                                  ELSE [local[w] EXCEPT !.pc = "unique"])
  /\ UNCHANGED <<rows, event, modules, formOpen, late, revivals>>

Register(w, n) ==
  /\ local[w].pc = "unique"
  /\ MayWrite(w)
  /\ n \in Free
  /\ Insert(n, local[w].identity, local[w].entry)
  /\ late' = IF Accepting(event) THEN late ELSE late + 1
  /\ Become(w, Idle)
  /\ UNCHANGED <<event, modules, formOpen, revivals>>
-----------------------------------------------------------------------------
(* The other ways in. *)

\* import_participants_workbook looks each line of the sheet up, the lines before
\* it included, so a sheet adds the set of its new identities.
StartImport(w, S) ==
  /\ "import" \in Ops
  /\ local[w] = Idle
  /\ Become(w, [pc |-> "importing", new |-> {i \in S : ~IsDuplicate(i)}])
  /\ UNCHANGED <<rows, event, modules, formOpen, late, revivals>>

\* The sheet is one transaction; it counts no seats and asks no switch.
Import(w) ==
  /\ local[w].pc = "importing"
  /\ MayWrite(w)
  /\ \E key \in [local[w].new -> Free] :
       /\ \A i, j \in local[w].new : key[i] = key[j] => i = j
       /\ rows' = [n \in Ids |->
            IF n \in {key[i] : i \in local[w].new}
              THEN [identity |-> CHOOSE i \in local[w].new : key[i] = n,
                    entry |-> "import", is_deleted |-> FALSE]
              ELSE rows[n]]
  /\ Become(w, Idle)
  /\ UNCHANGED <<event, modules, formOpen, late, revivals>>

\* POST to the participants collection: the serializer's create, no check at all.
Create(w, n, i) ==
  /\ "create" \in Ops
  /\ local[w] = Idle
  /\ MayWrite(w)
  /\ n \in Free
  /\ Insert(n, i, "direct")
  /\ UNCHANGED <<event, modules, formOpen, local, late, revivals>>
-----------------------------------------------------------------------------
(* The administration of rows: loaded first, every column saved later. *)

LoadRow(w, n) ==
  /\ "edit" \in Ops
  /\ local[w] = Idle
  /\ n \in Live
  /\ revivals < MaxRevivals
  /\ Become(w, [pc |-> "editing", id |-> n, row |-> rows[n]])
  /\ UNCHANGED <<rows, event, modules, formOpen, late, revivals>>

\* A review, an edit or a REST update; contact data may change, and
\* Participant.save() hashes it anew without looking for a duplicate.
SaveRow(w, i) ==
  /\ local[w].pc = "editing"
  /\ MayWrite(w)
  /\ rows' = [rows EXCEPT ![local[w].id] = [local[w].row EXCEPT !.identity = i]]
  /\ revivals' = IF rows[local[w].id].is_deleted THEN revivals + 1 ELSE revivals
  /\ Become(w, Idle)
  /\ UNCHANGED <<event, modules, formOpen, late>>

SoftDelete(w, n) ==
  /\ "delete" \in Ops
  /\ local[w] = Idle
  /\ MayWrite(w)
  /\ n \in Live
  /\ rows' = [rows EXCEPT ![n].is_deleted = TRUE]
  /\ UNCHANGED <<event, modules, formOpen, local, late, revivals>>
-----------------------------------------------------------------------------
(* The administration of the event. *)

\* event_state_action and the REST update both load the event first.
Configure(w) ==
  /\ {"flags", "update_event"} \intersect Ops # {}
  /\ local[w] = Idle
  /\ Become(w, [pc |-> "configuring", event |-> event])
  /\ UNCHANGED <<rows, event, modules, formOpen, late, revivals>>

WriteEvent(w, e) ==
  /\ MayWrite(w)
  /\ event' = e
  /\ late' = IF Accepting(e) THEN 0 ELSE late
  /\ Become(w, Idle)
  /\ UNCHANGED <<rows, modules, formOpen, revivals>>

\* open_registration and close_registration, save(update_fields=...).
SetRegistrationOpen(w) ==
  /\ local[w].pc = "configuring" /\ "flags" \in Ops
  /\ \E b \in BOOLEAN : WriteEvent(w, [event EXCEPT !.registration_open = b])

\* toggle_maintenance negates the flag as it was loaded.
ToggleMaintenance(w) ==
  /\ local[w].pc = "configuring" /\ "flags" \in Ops
  /\ WriteEvent(w, [event EXCEPT !.maintenance_mode = ~local[w].event.maintenance_mode])

Archive(w) ==
  /\ local[w].pc = "configuring" /\ "flags" \in Ops
  /\ WriteEvent(w, [event EXCEPT !.archived = TRUE])

\* A REST update of anything else of the event saves the switches as loaded.
UpdateEvent(w) ==
  /\ local[w].pc = "configuring" /\ "update_event" \in Ops
  /\ WriteEvent(w, local[w].event)

ToggleModule(w, m) ==
  /\ "modules" \in Ops
  /\ local[w] = Idle
  /\ MayWrite(w)
  /\ modules' \in {modules \union {m}, modules \ {m}}
  /\ UNCHANGED <<rows, event, formOpen, local, late, revivals>>

SetFormOpen(w) ==
  /\ "form" \in Ops
  /\ local[w] = Idle
  /\ MayWrite(w)
  /\ formOpen' \in BOOLEAN
  /\ UNCHANGED <<rows, event, modules, local, late, revivals>>

\* The request ends without writing: invalid input, a locked database, a crash.
Abandon(w) ==
  /\ local[w] # Idle
  /\ Become(w, Idle)
  /\ UNCHANGED <<rows, event, modules, formOpen, late, revivals>>
-----------------------------------------------------------------------------
NextOf(w) ==
  \/ \E i \in Identities : LoadEvent(w, i) \/ SaveRow(w, i)
  \/ CheckSeats(w) \/ CheckDuplicate(w)
  \/ \E n \in Ids : Register(w, n) \/ LoadRow(w, n) \/ SoftDelete(w, n)
  \/ \E S \in SUBSET Identities : StartImport(w, S)
  \/ Import(w)
  \/ \E n \in Ids, i \in Identities : Create(w, n, i)
  \/ Configure(w) \/ SetRegistrationOpen(w) \/ ToggleMaintenance(w)
  \/ Archive(w) \/ UpdateEvent(w)
  \/ \E m \in Modules : ToggleModule(w, m)
  \/ SetFormOpen(w)
  \/ Abandon(w)

Next == \E w \in Workers : NextOf(w)

Spec == Init /\ [][Next]_vars
-----------------------------------------------------------------------------
(* Properties. *)

\* Overbooking is bounded on either database: however the unlocked capacity check
\* of register_participant races, live rows on seats exceed the capacity by fewer
\* than the number of workers, and by one more for each deleted row that a stale
\* full-row save brought back.
OverbookingIsBounded ==
  Capacity > 0 => Cardinality(Seats) < Capacity + Cardinality(Workers) + revivals

\* Closing drains: once registration is closed, the event in maintenance or
\* archived, at most one more registration per worker is committed, by a request
\* that loaded the event before (register_participant trusts the instance it is
\* handed).
ClosingDrains == ~Accepting(event) => late <= Cardinality(Workers)

\* On a database whose readers keep writers out the seats are exact: never more
\* live rows on seats than the capacity and the revived rows account for.
SeatsAreExact ==
  Capacity > 0 => Cardinality(Seats) <= Capacity + revivals

\* A registration or an import never commits a row for somebody who has a live
\* row already ("a previous registration with the same contact data exists").
NoDuplicateRegistration ==
  [][\A n \in Ids :
       (rows[n] = NoRow /\ rows'[n] # NoRow) =>
         \/ rows'[n].entry = "direct"
         \/ \A m \in Live : rows[m].identity # rows'[n].identity]_vars

\* The list of live rows, how each row came in, and the switches of modules and form.
List ==
  INSTANCE Roster WITH
    Places <- Ids,
    Nobody <- NoRow,
    who <- [n \in Ids |-> IF n \in Live THEN rows[n].identity ELSE NoRow],
    how <- [n \in Ids |-> IF rows[n] = NoRow THEN "none" ELSE rows[n].entry],
    doors <- modules \union (IF formOpen THEN {"form"} ELSE {})

\* On a database whose readers keep writers out, registration is a roster: counting the
\* seats, looking for a duplicate, asking modules and form, and the insert act as one
\* step.  (The event's own switches are left out: they are read before the transaction.)
ImplementsRoster == List!RosterSpec
-----------------------------------------------------------------------------
(* Inductive strengthenings. *)

\* What was read in a transaction is not disturbed before it is written: SQLite keeps
\* other writers out, and a worker that serves everybody alone has nobody to fear.
Undisturbed == Database = "sqlite" \/ \A v, w \in Workers : v = w

\* The registrations that were promised a seat and have not inserted yet.
Promised == {w \in Workers : local[w].pc \in {"counted", "unique"} /\ local[w].entry = "seat"}

SeatsAndPromises ==
  Capacity > 0 =>
    Cardinality(Seats) + Cardinality(Promised) < Capacity + Cardinality(Workers) + revivals

\* The registrations that saw the event accepting and may still go through.
InFlight == {w \in Workers : \/ local[w].pc \in {"counted", "unique"}
                             \/ local[w].pc = "loaded" /\ Admits(local[w].event)}

LateAndInFlight ==
  IF Accepting(event) THEN late = 0
                      ELSE late + Cardinality(InFlight) <= Cardinality(Workers)

\* A row in somebody's hands exists, came in the way the copy says, and the copy
\* was taken while it was live.
HeldRowExists(w) ==
  local[w].pc = "editing" =>
    /\ rows[local[w].id] # NoRow
    /\ rows[local[w].id].entry = local[w].row.entry
    /\ ~local[w].row.is_deleted

HeldRowsExist == \A w \in Workers : HeldRowExists(w)

\* While an open transaction keeps writers out, what it has read stays true.
ReadsHold(w) ==
  /\ local[w].pc \in {"counted", "unique"} /\ local[w].entry = "seat" => ~Full
  /\ local[w].pc = "unique" => ~IsDuplicate(local[w].identity)
  /\ local[w].pc = "importing" => \A i \in local[w].new : ~IsDuplicate(i)

ReadsStillHold == Undisturbed => \A w \in Workers : ReadsHold(w)

\* What register_participant was promised: the doors it found open, and the entry
\* that the count of its own transaction gives it.
PromiseHolds(w) ==
  local[w].pc \in {"counted", "unique"} =>
    /\ "public_registration" \in modules /\ formOpen
    /\ Full => "waitlist" \in modules
    /\ local[w].entry = Entry

PromisesHold == Undisturbed => \A w \in Workers : PromiseHolds(w)

\* The seats are counted, and what is still to be written is what was read.
SeatsAndReads == SeatsAreExact /\ ReadsStillHold
=============================================================================
