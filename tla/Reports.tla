-------------------------------- MODULE Reports --------------------------------
(***************************************************************************)
(* Reports about an event while it goes on: dashboard_stats and            *)
(* final_report_data, and the insights about duplicate registrations       *)
(* (core/services.py, event_final_report, reports_admin, EventViewSet).    *)
(*                                                                         *)
(* A report is a row of queries outside any transaction: each counts the   *)
(* rows as they are then.  An insight is looked up and created if it is    *)
(* missing, without a unique constraint.                                   *)
(***************************************************************************)
EXTENDS Naturals, FiniteSets

CONSTANTS
  Guests,     \* Participant rows of the event
  Contacts,   \* values of duplicate_hash
  Analysts,   \* worker processes, one request each at a time
  Reporters,  \* bound: those of them that are asked for reports
  MaxWrites,  \* bound: writes of participants and logs
  MaxAdded    \* bound: insights that REST writes add

VARIABLES
  status,    \* of each participant, "absent" before there is a row
  deleted,   \* the participants with is_deleted
  scans,     \* by participant, the CheckInLog rows of successful check-ins
  contact,   \* duplicate_hash of each participant
  insights,  \* AIInsight rows, by the participants in their evidence
  study,     \* what each worker has found out for the request it is serving
  moves,     \* history: rows that came or went while a worker was counting
  turns,     \* history: statuses that changed while it was counting
  added,     \* history: the insights that REST writes added
  writes     \* history: writes of participants and logs

reportVars == <<status, deleted, scans, contact, insights, study, moves, turns, added, writes>>

ASSUME ReportsAssumption ==
  /\ IsFiniteSet(Guests) /\ IsFiniteSet(Analysts) /\ Reporters \subseteq Analysts
  /\ MaxWrites \in Nat /\ MaxAdded \in Nat
-----------------------------------------------------------------------------
(* State. *)

GuestStatuses == {"approved", "rejected", "waitlisted", "checked_in"}

\* The statuses a report counts one by one, and what it does next.
After == [approved |-> "rejected", rejected |-> "waitlisted", waitlisted |-> "sheet"]

Unasked == [pc |-> "idle"]
\* A report: all participants were counted; those who checked in; the statuses so far; the
\* sheet by status.  "gone" are deleted participants among those who checked in.
Counting == [pc: {"checked", "sheet", "shown"} \union DOMAIN After, total: Nat, checked: Nat,
             gone: Nat, listed: Nat, sheet: Nat]
\* The hashes that occur twice, and one of them with its participants: to be looked up, and
\* missing.
Searching == [pc: {"groups"}, todo: SUBSET Contacts]
Naming    == [pc: {"find", "create"}, todo: SUBSET Contacts, evidence: SUBSET Guests]

ReportsTypeOK ==
  /\ status \in [Guests -> GuestStatuses \union {"absent"}]
  /\ deleted \subseteq Guests
  /\ scans \in [Guests -> Nat]
  /\ contact \in [Guests -> Contacts]
  /\ insights \in [SUBSET Guests -> Nat]
  /\ study \in [Analysts -> {Unasked} \union Counting \union Searching \union Naming]
  /\ moves \in [Analysts -> Nat]
  /\ turns \in [Analysts -> Nat]
  /\ added \in Nat
  /\ writes \in Nat

ReportsInit ==
  /\ status = [g \in Guests |-> "absent"]
  /\ deleted = {}
  /\ scans = [g \in Guests |-> 0]
  /\ contact \in {[g \in Guests |-> h] : h \in Contacts}
  /\ insights = [e \in SUBSET Guests |-> 0]
  /\ study = [a \in Analysts |-> Unasked]
  /\ moves = [a \in Analysts |-> 0]
  /\ turns = [a \in Analysts |-> 0]
  /\ added = 0
  /\ writes = 0

Rowed == {g \in Guests : status[g] # "absent"}
Alive == Rowed \ deleted
-----------------------------------------------------------------------------
(* What goes on meanwhile: registration, review, check-in, deletion. *)

Written == writes < MaxWrites /\ writes' = writes + 1

\* The workers that are in the middle of a report.
IsCounting(a) == study[a].pc \in {"checked", "sheet"} \union DOMAIN After
Moved  == moves' = [a \in Analysts |-> IF IsCounting(a) THEN moves[a] + 1 ELSE moves[a]]
Turned == turns' = [a \in Analysts |-> IF IsCounting(a) THEN turns[a] + 1 ELSE turns[a]]

SignUp(g, s) ==
  /\ Written /\ Moved
  /\ status[g] = "absent" /\ s \in {"approved", "waitlisted"}
  /\ status' = [status EXCEPT ![g] = s]
  /\ UNCHANGED <<deleted, scans, contact, insights, study, turns, added>>

SetStatus(g, s) ==
  /\ Written /\ Turned
  /\ g \in Rowed /\ s \in GuestStatuses
  /\ status' = [status EXCEPT ![g] = s]
  /\ UNCHANGED <<deleted, scans, contact, insights, study, moves, added>>

\* perform_checkin, or a log row over REST.
LogScan(g) ==
  /\ Written /\ Turned
  /\ g \in Alive
  /\ scans' = [scans EXCEPT ![g] = @ + 1]
  /\ status' = [status EXCEPT ![g] = "checked_in"]
  /\ UNCHANGED <<deleted, contact, insights, study, moves, added>>

\* SoftDeleteModel.delete, and the full save of an older instance.
SetDeleted(g) ==
  /\ Written /\ Moved
  /\ g \in Rowed
  /\ deleted' = IF g \in deleted THEN deleted \ {g} ELSE deleted \union {g}
  /\ UNCHANGED <<status, scans, contact, insights, study, turns, added>>

\* Participant.save with other contact data.
SetContact(g, h) ==
  /\ Written
  /\ contact' = [contact EXCEPT ![g] = h]
  /\ UNCHANGED <<status, deleted, scans, insights, study, moves, turns, added>>
-----------------------------------------------------------------------------
(* Reports. *)

Learns(a, r) == study' = [study EXCEPT ![a] = r]

\* participants.count(), with which a report begins.
CountAll(a) ==
  /\ study[a] = Unasked
  /\ Learns(a, [pc |-> "checked", total |-> Cardinality(Alive), checked |-> 0, gone |-> 0,
                listed |-> 0, sheet |-> 0])
  /\ moves' = [moves EXCEPT ![a] = 0] /\ turns' = [turns EXCEPT ![a] = 0]
  /\ UNCHANGED <<status, deleted, scans, contact, insights, added, writes>>

\* Whoever has a check-in log, once, deleted or not.
CheckedIn == {g \in Guests : scans[g] > 0}

CountChecked(a) ==
  /\ study[a].pc = "checked"
  /\ Learns(a, [study[a] EXCEPT !.pc = "approved", !.checked = Cardinality(CheckedIn),
                                !.gone = Cardinality(CheckedIn \intersect deleted)])
  /\ UNCHANGED <<status, deleted, scans, contact, insights, moves, turns, added, writes>>

CountStatus(a) ==
  /\ study[a].pc \in DOMAIN After
  /\ Learns(a, [study[a] EXCEPT !.pc = After[study[a].pc],
                                !.listed = @ + Cardinality({g \in Alive : status[g] = study[a].pc})])
  /\ UNCHANGED <<status, deleted, scans, contact, insights, moves, turns, added, writes>>

\* Faulty variant: the sheet has the deleted participants in it.
CountSheet_All(a) ==
  /\ study[a].pc = "sheet"
  /\ Learns(a, [study[a] EXCEPT !.pc = "shown", !.sheet = Cardinality(Rowed)])
  /\ UNCHANGED <<status, deleted, scans, contact, insights, moves, turns, added, writes>>

\* by_status, added up; then the report is shown, or kept as a ReportSnapshot.
CountSheet(a) ==
  /\ study[a].pc = "sheet"
  /\ Learns(a, [study[a] EXCEPT !.pc = "shown", !.sheet = Cardinality(Alive)])
  /\ UNCHANGED <<status, deleted, scans, contact, insights, moves, turns, added, writes>>
-----------------------------------------------------------------------------
(* rule_based_duplicate_insights. *)

Twins(h) == {g \in Alive : contact[g] = h}

\* The hashes that more than one participant has.
FindGroups(a) ==
  /\ study[a] = Unasked
  /\ Learns(a, [pc |-> "groups", todo |-> {h \in Contacts : Cardinality(Twins(h)) > 1}])
  /\ UNCHANGED <<status, deleted, scans, contact, insights, moves, turns, added, writes>>

\* The codes of one of them, those of deleted participants too.
ListCodes(a) ==
  /\ study[a].pc = "groups"
  /\ \E h \in study[a].todo :
       Learns(a, [pc |-> "find", todo |-> study[a].todo \ {h},
                  evidence |-> {g \in Rowed : contact[g] = h}])
  /\ UNCHANGED <<status, deleted, scans, contact, insights, moves, turns, added, writes>>

\* Faulty variant: the insight is always created.
Lookup_Never(a) == "create"

\* get_or_create: one is found; none is; MultipleObjectsReturned.
Lookup(a) ==
  CASE insights[study[a].evidence] = 0 -> "create"
    [] insights[study[a].evidence] = 1 -> "groups"
    [] OTHER -> "idle"

Proceed(a, pc) ==
  CASE pc = "create" -> [study[a] EXCEPT !.pc = "create"]
    [] pc = "groups" -> [pc |-> "groups", todo |-> study[a].todo]
    [] OTHER -> Unasked

FindInsight(a) ==
  /\ study[a].pc = "find"
  /\ Learns(a, Proceed(a, Lookup(a)))
  /\ UNCHANGED <<status, deleted, scans, contact, insights, moves, turns, added, writes>>

CreateInsight(a) ==
  /\ study[a].pc = "create"
  /\ insights' = [insights EXCEPT ![study[a].evidence] = @ + 1]
  /\ Learns(a, Proceed(a, "groups"))
  /\ UNCHANGED <<status, deleted, scans, contact, moves, turns, added, writes>>

\* The ai-insights of the REST interface: POST, a PUT that sets the evidence or saves a row
\* that was deleted; DELETE.
AddInsight(e) ==
  /\ added < MaxAdded
  /\ insights' = [insights EXCEPT ![e] = @ + 1]
  /\ added' = added + 1
  /\ UNCHANGED <<status, deleted, scans, contact, study, moves, turns, writes>>

DropInsight(e) ==
  /\ insights[e] > 0
  /\ insights' = [insights EXCEPT ![e] = @ - 1]
  /\ UNCHANGED <<status, deleted, scans, contact, study, moves, turns, added, writes>>

\* The request ends: it is done, it is refused, or the worker dies.
Close(a) ==
  /\ study[a] # Unasked
  /\ Learns(a, Unasked)
  /\ UNCHANGED <<status, deleted, scans, contact, insights, moves, turns, added, writes>>
-----------------------------------------------------------------------------
Report(a) == CountAll(a) \/ CountChecked(a) \/ CountStatus(a) \/ CountSheet(a)

Search(a) == FindGroups(a) \/ ListCodes(a) \/ FindInsight(a) \/ CreateInsight(a)

ReportsNext ==
  \/ \E g \in Guests :
       \/ \E s \in GuestStatuses : SignUp(g, s) \/ SetStatus(g, s)
       \/ \E h \in Contacts : SetContact(g, h)
       \/ LogScan(g) \/ SetDeleted(g)
  \/ \E a \in Reporters : Report(a)
  \/ \E a \in Analysts : Search(a) \/ Close(a)
  \/ \E e \in SUBSET Guests : AddInsight(e) \/ DropInsight(e)

ReportsSpec == ReportsInit /\ [][ReportsNext]_reportVars
-----------------------------------------------------------------------------
(* Properties. *)

\* The numbers of one report were true at different moments.  They fit together up to what
\* was written meanwhile: an attendance above the total needs participants who were deleted
\* after they checked in, or who came or went during the report, and likewise the sheet by
\* status and the sum of the statuses.
SnapshotsAddUp ==
  \A a \in Analysts : study[a].pc = "shown" =>
    LET r == study[a]
    IN /\ r.checked <= r.total + r.gone + moves[a]
       /\ r.listed <= r.total + moves[a] + turns[a]
       /\ r.sheet <= r.total + moves[a]
       /\ r.total <= r.sheet + moves[a]

\* However requests race: one group of duplicates has no more insights than there are
\* workers, and those REST writes added.
InsightsAreBounded ==
  \A e \in SUBSET Guests : insights[e] <= Cardinality(Analysts) + added
-----------------------------------------------------------------------------
(* Inductive strengthenings. *)

\* The statuses counted before a report is at pc, and the participants that have another.
Before == [checked |-> {}, approved |-> {}, rejected |-> {"approved"},
           waitlisted |-> {"approved", "rejected"}, sheet |-> {"approved", "rejected", "waitlisted"}]
Uncounted(pc) == {g \in Alive : status[g] \notin Before[pc]}

\* What a report has counted, and what it still would, is at most what was there, and what
\* came or turned meanwhile.
Progress(a) ==
  LET r == study[a]
  IN /\ r.total <= Cardinality(Alive) + moves[a]
     /\ Cardinality(Alive) <= r.total + moves[a]
     /\ r.listed + Cardinality(Uncounted(r.pc)) <= r.total + moves[a] + turns[a]
     /\ r.pc # "checked" => r.checked <= r.total + r.gone + moves[a]

ReportsProgress ==
  /\ CheckedIn \subseteq Rowed
  /\ \A a \in Analysts : IsCounting(a) => Progress(a)
  /\ SnapshotsAddUp

\* The workers that found no insight with this evidence and have not created it yet.
Creators(e) == {a \in Analysts : study[a].pc = "create" /\ study[a].evidence = e}

InsightsAndCreators ==
  \A e \in SUBSET Guests : insights[e] + Cardinality(Creators(e)) <= Cardinality(Analysts) + added
=============================================================================
