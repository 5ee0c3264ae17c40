# Event Operating System: models, checks and proofs

TLA+ modules of the Django application under `src/`, TLC configurations that check
them on small instances, and TLAPS proofs of what holds on instances of every size.

Contents: 1 the system, 2 what is hard about it, 3 modules and plan, 4 how the
modules correspond to the code, 5 runs and bounds, 6 fairness, 7 proofs, 8 what
disagrees, 9 what is not modelled, 10 running it.

## 1. The system

A server-rendered and REST application (Django 5.2, DRF) that runs events:
registration, review, check-in at the door, workshops, points, certificates, tickets
and so on. Web pages (`core/views.py`), REST viewsets (`core/api.py`) and forms
(`core/forms.py`) call the services of `core/services.py`, which read and write the
models of `core/models.py`. There is no other shared state: processes meet only in
the database. A request is handled by one worker of gunicorn (`Procfile`), from start
to end; Celery is configured and has no tasks.

| component | state | operations | interacts with |
|---|---|---|---|
| check-in desk and review | `Participant` (status, `checked_in_at`, flags, soft delete), `CheckInLog` | `perform_checkin` (check-in, check-out), `review_participant`, `bulk_review_participants`, edit form, REST update, soft delete | violations block, workshops take attendance through the same service, points are awarded on the way |
| registration | `Participant` rows, the switches of `Event`, `EventModule`, `RegistrationForm` | `register_participant` by web and REST, Excel import, REST creation, open, close, maintenance, archive, module and form switches | gives the desk its rows |
| workshops | `Workshop`, `WorkshopRegistration` | `enroll_workshop`, the workshop branch of `perform_checkin`, generic REST writes, moving a workshop | desk (attendance), points |
| certificates and violations | `Certificate`, `IncidentViolation`, `SurveyResponse`, the flags of `Participant` | `issue_certificate` (public page, one by one, bulk, reissue, REST), cancel, `certificate_eligibility`, violations and appeals | desk (flags, attendance), surveys, modules |
| points and badges | `PointTransaction`, `ParticipantBadge` | `award_points`, `apply_auto_badges`, manual awards | desk, workshops, violations |
| tickets and finance | `Ticket`, `Invoice`, `Coupon`, `Refund`, `Expense` | issue, payment, cancel, reissue, refund | participants |
| communications | `EmailLog`, `NotificationLog`, `Broadcast`, `Certificate.sent_count` | broadcasts, single and templated e-mails, `resend_email`, `send_certificate_email`, `send_event_email` under all of them | the mail server, participants, certificates |
| support and SOS | `SupportTicket`, `SupportReply`, `SOSReport` | `public_support`, `crisis_admin`, replies over REST, `close`, REST writes | - |
| roles and scopes | `User`, `UserProfile`, capabilities per role | `has_capability`, `scope_queryset`, `can_access_event`; `users_admin`, the `post_save` signal, REST writes of profiles | every view |
| reports and exports | `AIInsight`, `ReportSnapshot`; reads all else | `dashboard_stats`, `final_report_data`, `rule_based_duplicate_insights`, exports | participants, check-in logs |
| platform, settings, migrations, demo data | - | read-only or plain create and save | - |

What makes the modelled ones correct:

- **desk**: a mark has an admission behind it; with duplicate prevention one code is
  admitted once; nobody banned is admitted; safety flags do not vanish.
- **registration**: seats within the capacity; one live row per identity; a closed
  event takes in nobody.
- **workshops**: seats within the capacity; nobody in two places at once; attendance
  is only recorded of those who have a seat, and is not lost.
- **certificates**: one certificate of a type per participant; issued only to the
  eligible; a block takes effect.
- **points**: an automatic badge goes to whoever has the points for it, and to nobody
  else.
- **finance**: a coupon's limit; one ticket per participant and one invoice per ticket;
  a ticket names its own invoice; a payment that was entered stays.
- **communications**: the log says what the mail server did; nobody gets more copies
  than sendings had him on their list; "sent" means that a whole list was gone through;
  a counter counts only what was written; every sending ends.
- **support and SOS**: a ticket that says it was answered has its answer; a status
  stands until another one is entered.
- **roles and scopes**: nobody acts by the role of one grant in the organization of another;
  an event in a scope was given to the user; role and organization stand; a revocation takes effect.
- **reports**: the numbers of one report fit together; one group of duplicates has one
  insight, or a bounded number.

## 2. What is hard about it

Every hard behaviour here comes from the same two habits of the code.

*Check, then write, without a lock.* Services run in `transaction.atomic`, but none of
those modelled locks a row (the one `select_for_update`, in the bulk review,
cannot work on PostgreSQL), and the schema has no constraint for what they check: a
capacity, a duplicate hash, a pair of overlapping workshops, one certificate per
participant. Two requests can pass the same check. How far that goes depends on the
database (`config/settings.py:92`; PostgreSQL in production, SQLite locally):

- PostgreSQL, READ COMMITTED: a transaction's reads stop nobody, and each statement
  sees what was committed before it.
- SQLite: a transaction that has read holds a shared lock; nobody else can commit
  until it ends, and of two readers that both want to write one gets "database is
  locked". So what a transaction has read is still true when it writes.

`Database` is therefore a constant of the modules whose services check in a
transaction, `MayWrite(w)` says who may commit there, and most of their properties come
in pairs: an exact one for SQLite, and the strongest bound that still holds on
PostgreSQL. (With a single worker there is nobody to interfere: the exact ones then hold on
either database, and the theorems say so.) `PointsLedger` is about PostgreSQL only.
`Finance`, `Messages`, `CaseDesk`, `Access` and `Reports` are without transactions, and so
the same on both: there every statement is a step, and another request, or the death of
the worker, falls between any two.

*Load, then save every column.* Reviews, edit forms and REST updates load an instance
before any transaction and end in `save()` without `update_fields`. Whatever was
committed to the row meanwhile is overwritten, on either database: a check-in mark is
erased, a ban is lifted, a deleted row lives again. These saves are modelled as two
steps (load; save what was loaded, as changed), and the properties count their damage
in history variables (`erasures`, `revivals`, `bypasses`) instead of assuming it away.

*Ask the mail server in between.* An e-mail is a row, a call of the server and an update
of the row. The server may take the message and its answer be lost (`send_mail` raises),
the worker may die before the call, after it, or between two e-mails of a broadcast, and
nothing resumes what it left; whoever sends again sends to all.

*Judge, then act.* Profiles are read when a request is admitted, and the request writes
later, when role, organization or events may be others. Accounts and profiles are
themselves written in up to four statements.

Worker deaths, "database is locked", validation errors and server errors end a request
without a write; each module's `Abandon` (`Die`, `Leave`, `Drop` or `Close` in the later
ones) does that at any point of any request.

The full list of hazards, each at its line and with the properties that would catch
it, is in `PROJECT.json` under `hazards`.

## 3. Modules and plan

| | module | content | state |
|---|---|---|---|
| 1 | `ParticipantDesk` | the rows of an event, their reviews and edits, and the desk | checked, proved |
| | `Door` | what the desk promises: checking and marking are one step | refined by 1 |
| | `ParticipantDeskProofs` | | proved |
| 2 | `Registration` | the ways in, and the switches of the event | checked, proved |
| | `Roster` | what registration promises | refined by 2 |
| | `RegistrationProofs` | | proved |
| 3 | `Workshops` | enrolment and attendance | checked, proved |
| | `SeatPlan` | what enrolment promises | refined by 3 |
| | `WorkshopsProofs` | | proved |
| 4 | `Certificates` | issue, cancellation and eligibility | checked, proved |
| | `CertificateRegistry` | what issue promises | refined by 4 |
| | `CertificatesProofs` | | proved |
| 5 | `PointsLedger` | `award_points` and the automatic badges | checked, proved |
| | `PointsLedgerProofs` | | proved |
| 6 | `Finance` | tickets, coupons, invoices, payment statuses | checked, proved |
| | `FinanceProofs` | | proved |
| 7 | `Access` | capabilities, the two notions of scope, accounts and profiles, staff requests | checked, proved |
| | `AccessProofs` | | proved |
| 8 | `Messages` | e-mails, broadcasts, the mail server, deaths and repetitions | checked, proved but for liveness |
| 9 | `CaseDesk` | tickets, replies, SOS reports | checked, proved |
| 10 | `Reports` | reports and insights while the event goes on | checked, proved |
| | `OfficeProofs` | theorems about 8, 9 and 10 | proved |

The `MC*` modules give TLC its symmetry sets and function-valued constants. `MCOffice`
puts 7 to 10 next to `Workshops` in one run (section 5).

Each component is a module of its own, because each decides on its own tables; where
one writes a table that another reads, the reader has an action for the effect:
`Certificates` has `CheckIn`, `SaveParticipant` and the two steps of a violation,
`ParticipantDesk` has the violation's block, and both name the module that has the
writer in detail. `PointsLedger` has scans and violations as the awards they make,
`Messages` the full saves of a certificate, `Reports` the writes of participants and logs.

## 4. Correspondence

The conventions are the same in all modules.

- A committed table is a function from keys to rows or to an absent value; a row has
  only the columns that decide something. Keys are model values.
- `local[w]` (`job`, `req`, `desk`, `study` in the later modules) is what worker `w` holds
  of its request: the local variables of the view
  and the service, and where it stands. One action reads, another writes; in between
  every other worker may take steps.
- `MayWrite(w)` guards every commit; `InTransaction(w)` is what it looks at (1 to 4).
- Everything a handler writes in one transaction is one step (its row, its log);
  what it writes in two is two (`RecordViolation` and `FlagParticipant`).
- A refusal that rolls back is the request's end: `Idle` again, nothing written.
- History variables record what no table does. They are named in a comment and no
  guard of the program depends on them; bounds do (below).

`ParticipantDesk`: `Scan` is `perform_checkin` up to its last check, `CheckIn`,
`CheckOut`, `Refuse` what follows. `LoadRow` with `Review`, `Edit`, `Patch` are the
three kinds of full-row save. `Transition` is the table in `review_participant`.
`BulkReview` reads and saves in one transaction, and on PostgreSQL does nothing since
its query is an error there. The workshop branch of the service is in `Workshops`.

`Registration`: `LoadEvent` is the view (it hands its instance of the event on),
`CheckSeats`, `CheckDuplicate`, `Register` the three parts of `register_participant`.
A row keeps how it came in (`entry`), because reviews may change its status and the
capacity check does not look at statuses. `StartImport`/`Import` are one transaction,
as is each switch of the event. `ToggleMaintenance` negates what was loaded,
`UpdateEvent` saves all switches as loaded: both are in the code. As a `Roster` it is the
list of live rows, the way each row came in, and as doors the modules and the form, which
`register_participant` asks inside its transaction. The event's own switches are no doors
of the roster: the view read them before.

`Workshops`: a registration is keyed by workshop and participant, as the schema's
unique constraint has it. `LoadWorkshop` is the view, `CountSeats`,
`FindRegistration`, `SaveEnrolment` the parts of `enroll_workshop`; `get_or_create`
and the validation inside `save()` are folded into the last two, and an insert that
loses to another one gets that row and tries again. `slot` is the set of hours, so
that overlap is an intersection. `ScanAttendance`/`MarkAttended` are the workshop
branch of `perform_checkin`, `CleanRest`/`SaveRest` the generic viewset; with "cancel" in
`Ops` instead of "rest" clients only cancel over it (no service and no view cancels
a workshop registration).

`Certificates`: `LoadParticipant` is any caller of `issue_certificate` (a bulk issue
loads everybody first, each of them then is an issue of its own); `CheckEligibility`
takes the flags from that instance and everything else from the database, as
`certificate_eligibility` does; `FindCertificate`, `CreateCertificate`,
`UpdateCertificate` are `get_or_create` and the save after it. `LoadCertificate`/`RestUpdate`
are a PUT or PATCH, which may also change whom the certificate is of: `CertificateSerializer`
leaves participant, type and event writable, and `Elsewhere` is every owner, type and event
that is left out. A certificate given to a participant who did not have it counts as one
REST added (`bypasses`). `Abandon` after `RecordViolation` is a crash, and also what the
REST creation of a violation does.

`PointsLedger`: `AwardByHand` is the insert without a transaction, `AwardByScan` and
`AwardByViolation` the one inside; `SumPoints`, `ListBadges`, then `GiveOne` or
`CommitAward` are the statements of `apply_auto_badges`. A badge saved on the dashboard is
applied to one participant after the other (`VisitParticipant`). The module is about
PostgreSQL only. `owed` holds the participants the code leaves unattended without anybody
racing: those of a broken-off call, and those of REST writes, which apply nothing.

`Finance`: `StartIssue` to `SaveNumber` are the statements of `TicketIssueForm.save`, each
a step, since nothing there is a transaction. `LoadTicket`/`Cancel` is `cancel_ticket`,
which writes the payment status it was given; payment, refund and reissue write values
that do not depend on what they loaded and are one step each.

`Access`: `RoleCapabilities` and `ModelsOf` are the two tables of `permissions.py`,
`ScopedEvents` is `scope_queryset`, `CanAccess` is `can_access_event`, and `Allowed` what
both make of a request for the rows of an event. `CreateUser`, `MakeProfile`, `SaveRole`,
`SaveEvents`, `SaveActive` are the writes of the two forms of `users_admin`, one by one
(the profile comes from the `post_save` signal, or from a request of the user that was
faster); `LoadProfile` and `LoadRewrite` begin the REST updates, with and without a role,
`SaveRewrite` saves what the latter loaded. `Begin` and `Act` are a staff request: when it
is judged and when it last writes.

`Messages`: an e-mail is what is written and to whom, and `logs` counts its rows by
status. `Queue`, then `Mock` or `HandOver` and `Record`, are `send_event_email`; `Count` is
what `send_certificate_email` does after it. `LoadList` and `Finish` are `send_broadcast`
around them, `Write`, `Resend` and `SendDiplomas` the other callers, the last with all
certificates of a bulk loaded at the beginning (so a counter may be written back). The
mail server is two outcomes of `HandOver`, of which "failed" goes with and without a
message taken. `Die` ends a request anywhere.

`CaseDesk`: `LoadTicket`, `Reply` and `Answer` are `SupportTicketViewSet.reply` with the two
writes of a reply with a status; the form of the dashboard never gets to them (section 8).
`LoadToEnter`
and `LoadToRewrite` a full-row save that sets the status and one that does not
(`SOSReportViewSet.close`, PUT, PATCH), `Save` ends both. A row that was deleted meanwhile
is inserted again by `Save`, and is an error for `Reply` and `Answer`.

`Reports`: `CountAll`, `CountChecked`, three times `CountStatus` and `CountSheet` are the
queries of a report in their order; `FindGroups`, `ListCodes`, `FindInsight`,
`CreateInsight` the statements of `rule_based_duplicate_insights`, where the last two are
`get_or_create`. `SignUp`, `SetStatus`, `LogScan`, `SetDeleted`, `SetContact` are what the
other components do to the rows counted.

The line ranges of every definition are in `PROJECT.json` under `map`.

## 5. Runs and bounds

| run | database | shows |
|---|---|---|
| `desk_pg` | PostgreSQL | marks are backed by admissions; admissions of one code are at most the workers, times one more than the erasures |
| `desk_sqlite` | SQLite | re-admission needs an erased mark; no banned admission; flags are cleared by full-row saves only; `ParticipantDesk` implements `Door` |
| `desk_stale_review` | SQLite | *violated*: one code, one admission |
| `desk_lost_refusal` | SQLite | *violated*: refused scans leave a log row |
| `reg_pg` | PostgreSQL | overbooking and late registrations are bounded |
| `reg_sqlite` | SQLite | seats are exact; no second row of an identity by registration or import; `Registration` implements `Roster` |
| `ws_pg` | PostgreSQL | overbooking of a workshop is bounded |
| `ws_sqlite` | SQLite for `Workshops` | no clash, attendance kept also after a cancellation, no seat by a scan; `Workshops` implements `SeatPlan`, which has the exact seats |
| | either | `Access`: scopes and acts are granted, roles stand, late acts are bounded, who is moved has left |
| | either | `Messages`: the log tells the truth, copies are bounded, "sent" is complete, counters are backed; every request ends |
| | either | `CaseDesk`: answers have replies, statuses stand |
| | either | `Reports`: the numbers fit together, insights are bounded |
| `cert_pg` | PostgreSQL | certificates per participant and issues after a block are bounded |
| `cert_sqlite` | SQLite | one certificate; `Certificates` implements `CertificateRegistry` |
| `points_pg` | PostgreSQL | a badge is missed, or given early, only within the awards that cannot see each other |
| `finance` | either | the discounts of a coupon, the tickets of a participant and the invoices of a ticket are bounded; numbers name the ticket's invoice; what was entered stands but for cancellations under way |

`ws_sqlite` (module `MCOffice`) hosts five parts. They share no state, so their common
behaviours say nothing that each alone does not; the run explores each in full while the
other four rest in an initial state (`OfficeNext`), and the number of its states is the sum
and not the product of theirs.

The type invariants are theorems, and no run repeats them.

Bounds, and why they are enough:

- *Workers*: two or three. A race needs two; the third tells a bound "number of
  workers" from "two", and lets two transactions overlap with an outside writer.
- *Participants, workshops, identities*: one where the property is about one row (all
  of the desk's and certificates' properties are per participant, and requests touch
  one participant), two or more where it relates rows: seats (four participants for
  one seat with two workers in `ws_pg`), duplicates, clashes.
- *Capacity* 1: the first seat is the last one, so that "full" and "one left" both
  occur; one more row than seats and workers exists, so that the bound can be passed.
- *Keys*: `Ids` is one more than the property allows rows, where there are rows enough
  to break it; a run out of keys only stops creation.
- `MaxScans`, `MaxErasures`, `MaxRevivals`, `MaxBypasses`: limits on when a request of
  a kind may start, which keep counters finite; each is at least 1, so that the event
  it counts happens, and more requests than the limit may be under way when it is
  reached. `MaxScans` is 7 in `desk_pg`, above the 3·(1+1) admissions allowed.
- `Low`, `High` in `points_pg`: totals between 0 and 2, where `gold` asks for 2 points
  and `silver` for none; awards under way may lead beyond.
- In `finance`: a coupon of two uses and two workers, so that the bound is 5 and not twice
  the limit (five discounts do occur); one participant, whose tickets are deleted and
  issued again; three tickets and invoices, one more than the bound. `MaxEntered` is 1:
  `EntriesStand` is about each ticket alone.
- In `ws_sqlite`: two workers of each kind. `Workshops` has two workshops of one seat at one
  timetable (`Timetable`): the times overlap without being the same, and without moves only
  that they overlap matters. REST writes are cancellations, since any other takes a seat
  unasked or may clash; `ws_pg` has them all. `Access` has two organizations with one and
  two events, a superuser and one managed user, and three grants that differ in role,
  organization, events and activity: whoever has one can be given another in every respect.
  `Messages` has one broadcast to two people, a certificate and a letter, one worker with a
  provider and one without, and `MaxRequests` 2: two requests at a time, or one after the
  other's death, make every overlap of two sendings. `CaseDesk` has one ticket and one
  report, `Answers` {"closed"} besides the defaults, `MaxReplies` 2. `Reports` has two
  participants, two hashes, one worker that is asked for reports and two that search,
  `MaxWrites` 3 (a registration, its check-in, and a deletion fit into one report) and
  `MaxAdded` 1.
- *Ops*: the requests clients send in a run. The runs of a component together send all.

Every passing property has a mutated definition under which the same run finds it
violated (the operators with an underscore in their names, `PROJECT.json` `mutants`).
They are the mistakes one could make there: the check reads the status instead of the
timestamp, `>` for `>=`, a status left out of a filter, reads that keep nobody out.

Deadlock is checked everywhere but in `ws_sqlite`, where a case may be deleted with nobody
left to ask for anything. Workers are interchangeable, and so are participants
and keys; the runs use that symmetry, all but `ws_sqlite`, which has the liveness property.

## 6. Fairness

The system reacts to requests: no scheduler, no background task, no retry of its own.
Most of the code promises nothing that must eventually happen, and no fairness is assumed
there. In particular nobody on a waitlist is ever promoted, of an event or of a workshop;
that is a gap in the program and not a liveness property it fails to satisfy under some
scheduling. "Draining" properties (`ClosingDrains`, `BlockingDrains`, `LateActsAreBounded`)
say what can be said: not when requests under way end, but how many of them can still act.

The one loop whose end is not obvious is the sending of e-mails: over a list, with an
external server in it that may refuse every message, while other workers send the same
list. `RequestsEnd` says that every request ends. It is checked under weak fairness of
`Work(s)` for each worker (`FairMessagesSpec`, in the run as `OfficeSpec`): a worker goes on
with the request it has. The code justifies that as far as its own steps go, since nothing
in them waits for another worker; that `send_mail` comes back is an assumption about the
environment, because `EMAIL_TIMEOUT` is not set and Django then waits as long as the socket
does. A worker killed meanwhile is `Die`, which needs no fairness and ends the request too.

## 7. Proofs

All results hold for every number of participants, workers, keys and so on, within the
assumptions named in each module (`DeskAssumption`, `RegistrationAssumption`,
`WorkshopsAssumption`, `CertificatesAssumption`, `PointsAssumption`,
`FinanceAssumption`, `AccessAssumption`, `MessagesAssumption`, `CaseDeskAssumption`,
`ReportsAssumption`): finitely many workers and keys, numbers that are natural, sets that
are subsets of what the code knows. Bounds are arbitrary numbers in them, so the theorems
do not depend on their values.

| theorem | needs | property |
|---|---|---|
| `DeskTypeCorrect` | | `TypeOK` |
| `MarksAreLogged` | no REST update writes `checked_in_at` | `AdmissionIsLogged` |
| `AdmissionsAreBounded` | | `AdmissionsBounded` |
| `ReAdmissionsNeedErasures` | undisturbed | `ReAdmissionNeedsErasure` |
| `OneAdmissionWithoutStaleSaves` | undisturbed, no REST update of the mark, and no full-row saves or one worker | `NoDoubleAdmission` |
| `BannedAreNotAdmitted` | undisturbed | `BannedNotAdmitted` |
| `DeskImplementsDoor` | undisturbed, duplicate prevention | `DeskIsADoor` |
| `OnlyFullSavesClearFlags` | | `OnlyFullSaveClearsFlags` |
| `RegistrationTypeCorrect` | | `TypeOK` |
| `OverbookingBounded` | | `OverbookingIsBounded` |
| `ClosingIsDrained` | | `ClosingDrains` |
| `SeatsStayExact` | undisturbed | `SeatsAreExact` |
| `NobodyRegistersTwice` | undisturbed | `NoDuplicateRegistration` |
| `RegistrationImplementsRoster` | undisturbed | `ImplementsRoster` |
| `WorkshopsTypeCorrect` | | `TypeOK` |
| `SeatsBounded` | | `SeatsAreBounded` |
| `SeatsStayExact` | undisturbed | `SeatsAreExact` |
| `AttendanceStays`, `ScansNeedSeats` | undisturbed | `AttendanceIsKept`, `ScansGiveNoSeat` |
| `NobodyClashes` | undisturbed, REST only cancels, no moves | `NoClash` |
| `WorkshopsImplementSeatPlan` | undisturbed, REST only cancels, no moves | `ImplementsSeatPlan` |
| `SeatPlanIsSound` | | what `SeatPlan` is for: nothing overfull, nobody in two places |
| `CertificatesTypeCorrect` | | `TypeOK` |
| `CertificatesBounded` | | `CertificatesAreBounded` |
| `BlockingIsDrained` | | `BlockingDrains` |
| `OneCertificateEach` | undisturbed | `OneCertificate` |
| `CertificatesImplementRegistry` | undisturbed, no REST writes of certificates | `ImplementsRegistry` |
| `RegistryStaysSound` | | what `CertificateRegistry` is for: one certificate each, one holder for a number |
| `PointsTypeCorrect` | | `TypeOK` |
| `MissesBounded` | | `MissesAreBounded` |
| `BadgesEarned` | | `BadgesAreEarned` |
| `FinanceTypeCorrect` | | `TypeOK` |
| `TicketsBounded` | | `TicketsAreBounded` |
| `InvoicesBounded` | | `InvoicesAreBounded` |
| `NumbersReal` | | `NumbersAreReal` |
| `DuplicatesBounded` | | `DuplicatesAreBounded` |
| `DiscountsBounded` | | `DiscountsAreBounded` |
| `DiscountsExactAlone` | one worker | a coupon with a limit is used at most that often |
| `EntriesAlwaysStand` | | `EntriesStand` |
| `AccessTypeCorrect` | | `AccessTypeOK` |
| `ActsAlwaysGranted` | | `ActsAreGranted` |
| `ScopesAreGranted` | | `ScopeIsGranted` |
| `LateActsBounded` | | `LateActsAreBounded` |
| `RolesAlwaysStand` | | `RolesStand` |
| `MoversAlwaysLeave` | | `MoversLeave` |
| `MessagesTypeCorrect` | | `MessagesTypeOK`, `QueuedAreCut` |
| `LogsAlwaysTrue` | | `LogsTellTheTruth` |
| `CopiesAlwaysBounded` | | `CopiesAreBounded` |
| `SentAlwaysComplete` | | `SentIsComplete` |
| `CountsAlwaysBacked` | | `CountsAreBacked` |
| `CaseTypeCorrect` | | `CaseTypeOK` |
| `AnswersAlwaysHaveReplies` | | `AnswersHaveReplies` |
| `AnswersAlwaysStand` | | `AnswersStand` |
| `ReportsTypeCorrect` | | `ReportsTypeOK` |
| `SnapshotsAlwaysAddUp` | | `SnapshotsAddUp` |
| `InsightsAlwaysBounded` | | `InsightsAreBounded` |

"Undisturbed" is the operator `Undisturbed` of the first four modules: the database is
SQLite, or there is one worker on either. The needs are not convenience: `NoClash` fails
when workshops are moved, and the properties that need to be undisturbed fail with several
workers on PostgreSQL (section 8).

Three arguments carry nearly all of it, and one bound has an argument of its own.

*Promises* (the bounds). The property alone is not inductive: a request that has passed
its check and not written yet can still add to the count. The strengthening counts what
is written together with what is promised. In `Registration`, `SeatsAndPromises` is:
rows on seats, plus registrations that were promised one, stay below capacity plus
workers plus revived rows. A promise is given only while the count is below the
capacity, and the workers that hold promises are at most all but the one that now
gets one; keeping a promise moves one from the second summand to the first. The same
shape is `PassedAreBounded` (desk: a marked row lets no further scan pass; an erasure
gives every worker one more), `SeatsAndPromises` in `Workshops` (with the seats that
scans may write back), `CertificatesAndPromises` (with the instances that updates may
write back), and both `LateAndInFlight` (what was issued late, plus what is under way
with old flags in hand). `TicketsAndCreators` and `InvoicesAndBillers` of `Finance` are
its simplest form: whoever is about to create one found none, and at that moment the
workers are all there can be. `InsightsAndCreators` of `Reports` is the same once more,
`CopiesAndDue` of `Messages` counts the workers that have the e-mail still before them, and
`RepliesPayAnswers` of `CaseDesk` those that have written a reply and owe its status. The steps are finite-cardinality lemmas
(`GrowsByOne`, `RoomForOne`) and a lemma per module that says what any step does to the sets counted
(`WhatRowsDo`, `WhatWorkersDo`, `WhatFlightsDo`). In registration an
auxiliary invariant, `HeldRowExists`, says that the rows requests will save are there.

*Reads that stay true* (the exact properties and the refinements). `ChecksStillHold`
and `ReadsStillHold` say that where nobody disturbs whatever an open transaction has read is
still so. They are inductive since a commit needs `MayWrite`, which is false while another
transaction is open (`WhoWrites`), and a step that commits nothing changes no answer
(`ReadsAreTrue`). With that, the write of a service may be taken for an atomic check
and write, which is what the abstract modules have: `Door`'s `LetIn`, `Roster`'s
`SignUp` (for which `PromisesHold` adds what was promised: the doors found open, and the
entry that the count gives), `SeatPlan`'s `Take`, `CertificateRegistry`'s `Issue`. The
mappings are in the modules next to the instances; reads, refusals and the end of a request are stutters. In
`CertificateRegistry` those barred are those the database would bar at the moment of
issue; the flags are left out there, as the code takes them from an instance that may
be older, and `BlockingDrains` bounds what that costs.

*What requests hold is still good* (points and finance, where no lock keeps a read
true). The strengthenings say what a value in a request's hands is worth although it is
old. `HeldNumbersAreReal`: the invoice whose number is about to be written is the
ticket's, since invoices go only with their ticket. `EntriesAreHeld`: a cancellation
that loaded the ticket after the last entry writes that entry back, or failed for
pending. `SumsAreEarned`: a sum exceeds the highest total by its own award at most,
since totals of others are in it only when committed. `MissesAreShort` is the hardest:
it adds one award for every open transaction that has summed up already (`Looked`),
but counts the one that looked last with what it really inserted. That one saw the
committed total and its own points, so total and own points are too few for the badge;
every other commits at most one award more, and each commit moves an award from one
summand to the other.

Of the same kind are those of the last four. In `Messages`, rows are never taken away
(`RowsGrow`), so what a worker has seen of them stays true: `SendingsProgress` says that
whatever is off a worker's list has its row, that a broadcast in hand has its channel for
good, and that who writes back "sent" without having entered it has read so when it was
true; `CountersAreBacked` that a counter in hand is below the rows once the row of its
e-mail is there. `AnswersAreTrue` follows an e-mail through the server: rows that say sent,
plus workers that were told so, are at most what was taken, and what was taken, plus workers
that have no answer yet, at most the rows that may stand for it. `ReportsProgress` adds to
what a report has counted what it still would count (`Uncounted`), which only writes since
its first query can raise. In `Access` and `CaseDesk` a full-row save holds what was
entered last (`RewritesAgree`, `HoldersAgree`), unless it was entered while the save was under way.
`ActsAlwaysGranted` rests on the same history: a role and an organization are always
written together, from one grant or from a profile that had them from one
(`ProfilesAreBacked`), so that a gate that is passed leads back to one grant, and a request
past it holds that grant although the profile may be another one by now.

*Profiles* (the coupon, the one bound that is not linear). A request that read a count and
is late puts `used_count` back to one more than it read, and every count in between can
be used again. What never goes back is the profile: for each v up to the limit, how many
workers are at v or more, where a worker is at the count it holds if that is below the
stored one, and else at the stored one (`Levels`). Profiles are compared at the lowest v where they differ. A
read or an ending leaves each profile or raises it (`CountsKept`); a counted use raises it
(`CountsCounted`): the worker that saves goes up, and who comes down with the stored count
stays above where that worker was. So the counted discounts are at most the profiles below the
present one (`DiscountsAreBelow`), and those are fewer than all profiles
(`BelowAll`), of which there are at most choose(MaxUses + |Workers|, |Workers|)
(`ProfilesAreFew`: those that start at the top and those that do not, as in Pascal's
triangle). Two things of that are about data: the last lemma is an induction on both
numbers, and `choose` divides factorials. `Induct` is induction for sets of numbers instead
of predicates, from a least element (`Least`) that the strict subsets of a finite set
provide; with it the recursive `factorial` gets its equation (`FactorialDef`) and `choose`
its inequality (`ChooseInside`).

Each strengthening was also run as an invariant in TLC before it was proved.

The two violated properties are refuted by their runs (for one a theorem says what it takes
to hold). Only model-checked is `RequestsEnd`, since liveness under fairness, which needs
`ENABLED`, is out of the prover's reach. No module that is proved about declares a
recursive operator.

## 8. Where the program and its documents disagree

With a run that shows it:

- A review that loaded a row before its check-in erases the mark, and the code is
  admitted again (`desk_stale_review`; `Prompt.txt:1119`). Saves
  of rows loaded earlier are the only cause where reads keep writers out and no REST update
  writes the mark (`OneAdmissionWithoutStaleSaves`).
- The log row of a refused scan is rolled back with the refusal (`desk_lost_refusal`;
  `Prompt.txt:429`).

Seen while modelling, without a run: the configured duplicate rules name phone, e-mail
and national id each (`services.py:121`), the code compares a hash of all three, so a
phone number registers again with another e-mail. A workshop can be moved over another
one of the same participants (`Prompt.txt:231` asks that nobody be in two at once).
`violations_admin` writes violations itself and takes no points, although types have a
penalty and `record_violation` takes it. A ticket that was cancelled and reissued stays
"failed". A broadcast can be sent again by anybody at any time, and repeats what it did.
The attendance rate of a report divides everybody with a check-in log, deleted or not, by
the participants that are not deleted, and so passes 100 % after deletions. The insight
about duplicates lists deleted participants too.

The reply form of the dashboard never answers a ticket: `support_admin` slices its query
(`views.py:1202`) and looks the ticket up in the slice (`views.py:1205`), which Django
refuses with a `TypeError`, so tickets are answered over REST only.

Covered by the bounds of the passing runs and not by runs of their own: two scans of
one code are both admitted; a ban committed between a scan's check and its write does
not stop it; a capacity can be exceeded and one identity
register twice; one participant can enrol in two overlapping workshops at once; a row
deleted meanwhile comes back on a seat given away (both databases); two issues at once
create two certificates, after which every later issue to that participant fails with an
exception that no caller handles, and a bulk issue stops there. On PostgreSQL the bulk
review fails on its `select_for_update` over outer joins. `read_only_fields` of
`ParticipantSerializer` stands outside `Meta` and has no effect, so a REST update may
set `checked_in_at` by hand (`Patch`). Two awards can each miss the other's points, so
that a badge is due and not given; a coupon of two uses can be used five times by two
clerks; a cancellation undoes a payment or refund entered while it was under way. A message
that was taken is logged as failed when its answer is lost, and stays queued when the
worker dies over it. A REST write can set a broadcast to "sent" and can save an older
status, role or organization over one entered meanwhile. Two searches at once create the
same insight twice, after which every search that meets it fails with
`MultipleObjectsReturned`. A request judged before a profile changed still writes after it.

## 9. What is not modelled

- In `Messages`, REST writes of log rows, e-mail templates and direct pushes (plain
  inserts), broadcasts created over REST, edits of a channel, counters entered over REST,
  and the deletion of a certificate while it is being sent.
- In `CaseDesk`, priorities, notes, assignments and attachments.
- In `Access`, a PUT that gives a profile to another user, `is_staff`, passwords, the
  Django admin site, and visitors without an account.
- In `Reports`, the sums over other tables, which nothing ties to each other, and the
  exports, each of which is one query written to a workbook.
- In `PointsLedger`, point rules and what a badge asks for, which are configuration, and
  SQLite, where a transaction that has read keeps other commits out.
- In `Finance`, amounts (but for tickets that are free), expenses, the rows of refunds,
  and REST updates of tickets, coupons and invoices, which may write anything.
- Platform administration, settings, migrations, demo data: plain inserts and updates, or
  no control logic.
- Validation of form fields, texts, codes, mails, PDF and QR rendering: they decide
  nothing that the properties speak of. A request that fails validation is `Abandon`.
- Permissions in the modules other than `Access`: they let any client send any request of
  `Ops`.
- In `Workshops`, a REST update that moves a registration to another workshop or
  participant, and the creation and deletion of workshops themselves.
- In `Certificates`, several types of certificate (the code never relates two types),
  the counters of mails and downloads, and the choice of a template. The participant's
  rows change there in every way `ParticipantDesk` allows and more.
- `attendance_percent` is modelled with exact integer division, the code divides
  floating-point numbers and truncates.
- SQLite's locks are modelled by their effect on commits; its timeouts are `Abandon`.

## 10. Running it

    tlc -workers 2 -config desk_pg.cfg MCParticipantDesk.tla
    tlapm CertificatesProofs.tla

The run's module is the `MC` module of its component (`PROJECT.json` `runs`); the last
four share `MCOffice` and `ws_sqlite.cfg`. The
longest run takes two to three minutes; proving a proof module from nothing takes several
minutes.
