------------------------------ MODULE MCOffice ------------------------------
(***************************************************************************)
(* Instances of Access, Messages, CaseDesk and Reports for TLC, next to    *)
(* the one of Workshops.  The five share no state, so it is enough that    *)
(* each of them moves while the others are still at rest.                  *)
(***************************************************************************)
EXTENDS MCWorkshops, Access, Messages, CaseDesk, Reports

CONSTANTS root, ann, o1, o2, e1, e2, e3, p1, p2, b1, d1, l1

\* An organization with one event and one with two.
TwoOrganizations == (e1 :> o1) @@ (e2 :> o2) @@ (e3 :> o2)

\* One organization to administer, one event to check in at, and a job that is over.
ThreeGrants ==
  {[role |-> "organization_admin", org |-> o1, events |-> {}, active |-> TRUE],
   [role |-> "checkin_staff", org |-> o1, events |-> {e1}, active |-> TRUE],
   [role |-> "finance_manager", org |-> o2, events |-> {e2}, active |-> FALSE]}

\* A broadcast to both participants, a certificate of one, a letter to the other.
Both     == b1 :> {p1, p2}
OneForEach == (d1 :> p1) @@ (l1 :> p2)

\* The workshops overlap, at different times; nobody moves them.
Timetable == (k1 :> {9, 10}) @@ (k2 :> {10, 11})

\* One of the initial states of Workshops, and of Reports, is enough.
WorkshopsRest == Init /\ slot = Timetable /\ UNCHANGED vars
ReportsRest   == ReportsInit /\ contact = [g \in Guests |-> "h1"] /\ UNCHANGED reportVars
AccessRests   == AccessInit /\ UNCHANGED accessVars
MessagesRest  == MessagesInit /\ UNCHANGED mailVars
CasesRest     == CaseInit /\ UNCHANGED caseVars

OfficeInit ==
  /\ Init /\ slot = Timetable /\ AccessInit /\ MessagesInit /\ CaseInit
  /\ ReportsInit /\ contact = [g \in Guests |-> "h1"]

OfficeNext ==
  \/ AccessRests /\ MessagesRest /\ CasesRest /\ ReportsRest /\ Next
  \/ WorkshopsRest /\ MessagesRest /\ CasesRest /\ ReportsRest /\ AccessNext
  \/ WorkshopsRest /\ AccessRests /\ CasesRest /\ ReportsRest /\ MessagesNext
  \/ WorkshopsRest /\ AccessRests /\ MessagesRest /\ ReportsRest /\ CaseNext
  \/ WorkshopsRest /\ AccessRests /\ MessagesRest /\ CasesRest /\ ReportsNext

officeVars == <<vars, accessVars, mailVars, caseVars, reportVars>>

\* The fairness of FairMessagesSpec: other requests than those of Messages may stop.
OfficeSpec ==
  /\ OfficeInit /\ [][OfficeNext]_officeVars
  /\ \A s \in Senders : WF_mailVars(Work(s))
=============================================================================
