--------------------------------- MODULE Access ---------------------------------
(***************************************************************************)
(* Who may do what: roles and their capabilities, organizations and        *)
(* assigned events (core/permissions.py), the accounts and profiles that   *)
(* administrators write (users_admin, UserProfileViewSet), and the staff   *)
(* requests that are judged by them.                                       *)
(*                                                                         *)
(* Nothing here runs in a transaction.  Creating a user writes the user,   *)
(* the profile of the post_save signal, its role and organization, and its *)
(* events; updating one writes role and organization, then events, then    *)
(* is_active: other requests, and the death of the worker, fall between.   *)
(* A request is judged when it loads, and writes later, when the profile   *)
(* may be another.                                                         *)
(*                                                                         *)
(* The is_staff flag, phone and passwords decide nothing here.  A user is  *)
(* told apart from an inactive one by the authentication backends, which   *)
(* look at is_active on each request.                                      *)
(***************************************************************************)
EXTENDS Naturals, FiniteSets

CONSTANTS
  Users,
  Superusers,   \* the users with is_superuser
  Managed,      \* bound: the users whose accounts are administered
  Organizations,
  Events,
  OrgOf,        \* Event.organization
  Grants,       \* bound: what administrators enter for a user
  Models,       \* bound: the models whose rows staff work on
  Servers,      \* worker processes, one request each at a time
  AccessOps     \* the kinds of request clients send

VARIABLES
  account,   \* of each user: no row, active, or inactive
  profile,   \* the UserProfile row of each user
  req,       \* what each server holds of the request it is serving
  granted,   \* history: what was entered for a user so far
  given,     \* history: the role and organization last entered for a user
  contested, \* history: the users it was entered for while a rewrite held the profile
  lateActs   \* history: by user, acts since the last change that it forbids

accessVars == <<account, profile, req, granted, given, contested, lateActs>>
-----------------------------------------------------------------------------
(* Roles and capabilities. *)

\* ROLE_CAPABILITIES; "*" is every capability.
RoleCapabilities == [
  super_admin           |-> {"*"},
  organization_admin    |-> {"manage_org", "manage_event", "registrations", "checkin", "workshops",
                             "certificates", "communications", "volunteers", "crisis", "finance",
                             "media", "vip", "speakers", "sponsors", "support", "reports", "audit",
                             "view"},
  event_manager         |-> {"manage_event", "registrations", "checkin", "workshops", "certificates",
                             "communications", "volunteers", "crisis", "media", "vip", "speakers",
                             "sponsors", "support", "reports", "view"},
  registration_manager  |-> {"registrations", "reports", "view"},
  checkin_staff         |-> {"checkin", "view"},
  workshop_manager      |-> {"workshops", "checkin", "view"},
  certificate_manager   |-> {"certificates", "reports", "view"},
  communication_manager |-> {"communications", "support", "view"},
  volunteer_manager     |-> {"volunteers", "checkin", "view"},
  crisis_manager        |-> {"crisis", "violations", "support", "view"},
  finance_manager       |-> {"finance", "reports", "view"},
  media_manager         |-> {"media", "view"},
  vip_manager           |-> {"vip", "checkin", "view"},
  speaker_manager       |-> {"speakers", "workshops", "view"},
  sponsor_manager       |-> {"sponsors", "reports", "view"},
  support_agent         |-> {"support", "view"},
  auditor               |-> {"audit", "reports", "view"},
  viewer                |-> {"view"},
  mobile_student        |-> {"mobile_student"},
  mobile_supervisor     |-> {"mobile_supervisor", "checkin", "crisis", "violations", "view"},
  mobile_volunteer      |-> {"mobile_volunteer", "support", "view"}]

Roles == DOMAIN RoleCapabilities

\* CAPABILITY_BY_METHOD, by capability.  A model it does not name needs "manage_event".
ModelsOf == [
  manage_org     |-> {"UserProfile", "Organization"},
  manage_event   |-> {"Event", "EventDay", "EventModule", "Track", "Hall", "Session", "PointRule",
                      "PointTransaction", "Badge", "ParticipantBadge"},
  registrations  |-> {"EducationAdministration", "School", "ParticipantGroup", "RegistrationForm",
                      "RegistrationField", "Participant", "UploadedDocument", "StudentNote"},
  checkin        |-> {"CheckInLog"},
  workshops      |-> {"Workshop", "WorkshopRegistration"},
  certificates   |-> {"Certificate", "CertificateTemplate"},
  communications |-> {"EmailTemplate", "EmailLog", "NotificationLog", "Broadcast"},
  crisis         |-> {"SOSReport"},
  support        |-> {"SupportReply", "SupportTicket"},
  violations     |-> {"ViolationType", "IncidentViolation"},
  volunteers     |-> {"Volunteer", "VolunteerShift"},
  vip            |-> {"VIPInvitation"},
  speakers       |-> {"Speaker"},
  sponsors       |-> {"Sponsor"},
  media          |-> {"MediaItem"},
  reports        |-> {"Survey", "SurveyQuestion", "SurveyResponse", "ReportSnapshot", "AIInsight"},
  finance        |-> {"Ticket", "TicketType", "Coupon", "Invoice", "Refund", "Expense"},
  audit          |-> {"AuditLog"},
  platform       |-> {"AppVersion", "BackupJob", "SubscriptionPlan", "OrganizationSubscription"}]

CapabilityOf(m) ==
  IF \E c \in DOMAIN ModelsOf : m \in ModelsOf[c]
    THEN CHOOSE c \in DOMAIN ModelsOf : m \in ModelsOf[c]
    ELSE "manage_event"
-----------------------------------------------------------------------------
(* State. *)

None      == "none"
NoProfile == [absent |-> TRUE]
Profile   == [role: Roles, org: Organizations \union {None}, events: SUBSET Events]
Grant     == [role: Roles, org: Organizations \union {None}, events: SUBSET Events, active: BOOLEAN]

ASSUME AccessAssumption ==
  /\ Superusers \subseteq Users /\ Managed \subseteq Users
  /\ None \notin Organizations
  /\ OrgOf \in [Events -> Organizations]
  /\ Grants \subseteq Grant
  /\ IsFiniteSet(Servers) /\ Servers # {}
  /\ AccessOps \subseteq {"create", "update", "rest", "act"}

\* What the post_save signal, and the first request of a user without one, create.
NewProfile == [role |-> "viewer", org |-> None, events |-> {}]

Free     == [pc |-> "free"]
\* A user whose profile is still to be made by the signal, and a form or a REST write
\* with a grant to save: role and organization, then events, then is_active.  The
\* profile it loaded may be gone.
SavingGrant == [pc: {"made", "role", "events", "active"}, user: Users, grant: Grants,
             form: BOOLEAN, gone: BOOLEAN]
\* A REST write that leaves role and organization as it loaded them.
RewritingProfile == [pc: {"rewrite"}, user: Users, role: Roles, org: Organizations \union {None},
              gone: BOOLEAN]
\* A staff request past its checks.
ActingStaff == [pc: {"acting"}, user: Users, model: Models, event: Events]

AccessTypeOK ==
  /\ account \in [Users -> {"none", "active", "inactive"}]
  /\ profile \in [Users -> Profile \union {NoProfile}]
  /\ req \in [Servers -> {Free} \union SavingGrant \union RewritingProfile \union ActingStaff]
  /\ granted \in [Users -> SUBSET Grants]
  /\ given \in [Users -> [role: Roles, org: Organizations \union {None}] \union {NoProfile}]
  /\ contested \subseteq Users
  /\ lateActs \in [Users -> Nat]

\* The superusers are there, everybody else is still to be created.
AccessInit ==
  /\ account = [u \in Users |-> IF u \in Superusers THEN "active" ELSE "none"]
  /\ profile = [u \in Users |-> IF u \in Superusers THEN NewProfile ELSE NoProfile]
  /\ req = [s \in Servers |-> Free]
  /\ granted = [u \in Users |-> {}]
  /\ given = [u \in Users |-> NoProfile]
  /\ contested = {}
  /\ lateActs = [u \in Users |-> 0]
-----------------------------------------------------------------------------
(* core/permissions.py. *)

HasProfile(u) == profile[u] # NoProfile

\* has_capability.
HasCapability(u, c) ==
  \/ u \in Superusers
  \/ HasProfile(u) /\ RoleCapabilities[profile[u].role] \intersect {"*", c} # {}

\* Whom scope_queryset leaves unfiltered.
SeesAll(u) == u \in Superusers \/ profile[u].role = "super_admin"

OwnEvents(u)      == {e \in Events : profile[u].org # None /\ OrgOf[e] = profile[u].org}
AssignedEvents(u) == profile[u].events

\* Faulty variant: assigned events count in every organization.
ScopedEvents_Assigned(u) ==
  CASE SeesAll(u)                              -> Events
    [] profile[u].role = "organization_admin"  -> OwnEvents(u)
    [] OTHER                                   -> AssignedEvents(u)

\* scope_queryset of events.
ScopedEvents(u) ==
  CASE SeesAll(u)                              -> Events
    [] profile[u].role = "organization_admin"  -> OwnEvents(u)
    [] OTHER                                   -> OwnEvents(u) \intersect AssignedEvents(u)

\* can_access_event.
CanAccess(u, e) ==
  \/ SeesAll(u)
  \/ e \in OwnEvents(u) /\ (\/ profile[u].role = "organization_admin"
                            \/ e \in AssignedEvents(u)
                            \/ HasCapability(u, "manage_event"))
  \/ e \notin OwnEvents(u) /\ e \in AssignedEvents(u)

\* The models scope_queryset finds no way from to an event or an organization.
Unscoped == {"RegistrationField", "AppVersion", "SubscriptionPlan"}

\* The models whose rows lead to an event over another row, and have no event themselves
\* that EventOSPermission could ask can_access_event about.
Indirect == {"UploadedDocument", "WorkshopRegistration", "StudentNote", "PointTransaction",
             "ParticipantBadge", "SupportReply", "Volunteer", "VolunteerShift", "SurveyQuestion",
             "SurveyResponse"}

\* A user may write the rows of the model that belong to the event: EventOSPermission on
\* top of scope_queryset for REST, require_capability and scope_queryset for the dashboard.
Allowed(u, m, e) ==
  /\ account[u] = "active" /\ HasProfile(u)
  /\ HasCapability(u, CapabilityOf(m))
  /\ m \in Unscoped \/ e \in ScopedEvents(u)
  /\ m \in Unscoped \union Indirect \/ CanAccess(u, e)
-----------------------------------------------------------------------------
Serve(s, r) == req' = [req EXCEPT ![s] = r]

\* Something about u changed: acts from now on are judged anew.
Touched(u) == lateActs' = [lateActs EXCEPT ![u] = 0]

RoleOf(x) == [role |-> x.role, org |-> x.org]

Rewriters(u) == {s \in Servers : req[s].pc = "rewrite" /\ req[s].user = u}

\* An administrator's profile keeps him to his own organization.
Restricted(a) == ~SeesAll(a) /\ profile[a].org # None

\* users_admin and its forms: whom the administrator may pick, and what he may enter.
MayEnter(a, g) ==
  /\ account[a] = "active" /\ HasProfile(a) /\ HasCapability(a, "manage_org")
  /\ Restricted(a) => g.org \in {None, profile[a].org}
  /\ g.events \subseteq ScopedEvents(a)
MayPick(a, u) ==
  Restricted(a) => HasProfile(u) /\ profile[u].org = profile[a].org

\* UserProfileViewSet: the profiles an administrator may write.
MayRewrite(a, u) ==
  /\ account[a] = "active" /\ HasProfile(a) /\ HasCapability(a, "manage_org")
  /\ HasProfile(u)
  /\ \/ SeesAll(a)
     \/ a = u
     \/ profile[a].org # None /\ profile[u].org = profile[a].org
-----------------------------------------------------------------------------
(* Accounts and profiles. *)

\* AdminUserCreateForm.save: create_user writes the user.
CreateUser(s, a, u, g) ==
  /\ "create" \in AccessOps
  /\ req[s] = Free
  /\ account[u] = "none"
  /\ MayEnter(a, g)
  /\ account' = [account EXCEPT ![u] = IF g.active THEN "active" ELSE "inactive"]
  /\ Serve(s, [pc |-> "made", user |-> u, grant |-> g, form |-> FALSE, gone |-> FALSE])
  /\ Touched(u)
  /\ UNCHANGED <<profile, granted, given, contested>>

\* Faulty variant: update_or_create instead of get_or_create.
MakeProfile_Reset(s) ==
  /\ req[s].pc = "made"
  /\ profile' = [profile EXCEPT ![req[s].user] = NewProfile]
  /\ Touched(req[s].user)
  /\ Serve(s, [req[s] EXCEPT !.pc = "role"])
  /\ UNCHANGED <<account, granted, given, contested>>

\* ensure_user_profile, a get_or_create: another request of the user may have been first.
MakeProfile(s) ==
  /\ req[s].pc = "made"
  /\ LET u == req[s].user
     IN /\ profile' = [profile EXCEPT ![u] = IF HasProfile(u) THEN @ ELSE NewProfile]
        /\ Touched(u)
  /\ Serve(s, [req[s] EXCEPT !.pc = "role"])
  /\ UNCHANGED <<account, granted, given, contested>>

\* user_profile and profile_for: a user without a profile gets one with the next request.
FirstRequest(s, u) ==
  /\ req[s] = Free
  /\ account[u] = "active" /\ ~HasProfile(u)
  /\ profile' = [profile EXCEPT ![u] = NewProfile]
  /\ Touched(u)
  /\ UNCHANGED <<account, req, granted, given, contested>>

\* UserRoleUpdateForm, which needs the profile to fill itself in.
LoadUser(s, a, u, g) ==
  /\ "update" \in AccessOps
  /\ req[s] = Free
  /\ account[u] # "none" /\ HasProfile(u)
  /\ MayEnter(a, g) /\ MayPick(a, u)
  /\ Serve(s, [pc |-> "role", user |-> u, grant |-> g, form |-> TRUE, gone |-> FALSE])
  /\ UNCHANGED <<account, profile, granted, given, contested, lateActs>>

\* PUT or PATCH of a profile with a role, an organization and events of any kind.
LoadProfile(s, a, u, g) ==
  /\ "rest" \in AccessOps
  /\ req[s] = Free
  /\ account[u] # "none"
  /\ MayRewrite(a, u)
  /\ Serve(s, [pc |-> "role", user |-> u, grant |-> g, form |-> FALSE, gone |-> FALSE])
  /\ UNCHANGED <<account, profile, granted, given, contested, lateActs>>

\* PATCH of anything else, a phone number say.
LoadRewrite(s, a, u) ==
  /\ "rest" \in AccessOps
  /\ req[s] = Free
  /\ account[u] # "none"
  /\ MayRewrite(a, u)
  /\ Serve(s, [pc |-> "rewrite", user |-> u, role |-> profile[u].role, org |-> profile[u].org,
               gone |-> FALSE])
  /\ UNCHANGED <<account, profile, granted, given, contested, lateActs>>

\* Of a save of all columns: the row it loaded is updated, or inserted again when it is
\* gone, unless the user has got another profile, which is an IntegrityError.
Saves(s) == req[s].gone => ~HasProfile(req[s].user)
Saved(u, x) ==
  IF HasProfile(u) THEN [profile[u] EXCEPT !.role = x.role, !.org = x.org]
                   ELSE [role |-> x.role, org |-> x.org, events |-> {}]

SaveRole(s) ==
  /\ req[s].pc = "role"
  /\ Saves(s)
  /\ LET u == req[s].user
         g == req[s].grant
     IN /\ profile' = [profile EXCEPT ![u] = Saved(u, g)]
        /\ granted' = [granted EXCEPT ![u] = @ \union {g}]
        /\ given' = [given EXCEPT ![u] = RoleOf(g)]
        /\ contested' = IF Rewriters(u) = {} THEN contested \ {u} ELSE contested \union {u}
        /\ Touched(u)
  /\ Serve(s, [req[s] EXCEPT !.pc = "events", !.gone = FALSE])
  /\ UNCHANGED account

\* assigned_events.set: to a profile that is gone no event can be assigned.
SaveEvents(s) ==
  /\ req[s].pc = "events"
  /\ req[s].gone => req[s].grant.events = {}
  /\ LET u == req[s].user
     IN /\ profile' = IF req[s].gone THEN profile
                      ELSE [profile EXCEPT ![u].events = req[s].grant.events]
        /\ Touched(u)
  /\ Serve(s, IF req[s].form THEN [req[s] EXCEPT !.pc = "active"] ELSE Free)
  /\ UNCHANGED <<account, granted, given, contested>>

SaveActive(s) ==
  /\ req[s].pc = "active"
  /\ LET u == req[s].user
     IN /\ account' = [account EXCEPT ![u] = IF req[s].grant.active THEN "active" ELSE "inactive"]
        /\ Touched(u)
  /\ Serve(s, Free)
  /\ UNCHANGED <<profile, granted, given, contested>>

\* Faulty variant: only the role is saved, as it was loaded.
SaveRewrite_RoleOnly(s) ==
  /\ req[s].pc = "rewrite"
  /\ Saves(s)
  /\ LET u == req[s].user
     IN /\ profile' = [profile EXCEPT ![u] = Saved(u, [role |-> req[s].role,
                          org |-> IF HasProfile(u) THEN profile[u].org ELSE req[s].org])]
        /\ Touched(u)
  /\ Serve(s, Free)
  /\ UNCHANGED <<account, granted, given, contested>>

\* Role and organization are saved as they were loaded.
SaveRewrite(s) ==
  /\ req[s].pc = "rewrite"
  /\ Saves(s)
  /\ LET u == req[s].user
     IN /\ profile' = [profile EXCEPT ![u] = Saved(u, req[s])]
        /\ Touched(u)
  /\ Serve(s, Free)
  /\ UNCHANGED <<account, granted, given, contested>>

\* DELETE of a profile: requests that loaded it hold an instance of no row.
DeleteProfile(s, a, u) ==
  /\ "rest" \in AccessOps
  /\ req[s] = Free
  /\ account[u] # "none"
  /\ MayRewrite(a, u)
  /\ profile' = [profile EXCEPT ![u] = NoProfile]
  /\ req' = [v \in Servers |->
               IF req[v].pc \in {"role", "events", "active", "rewrite"} /\ req[v].user = u
                 THEN [req[v] EXCEPT !.gone = TRUE] ELSE req[v]]
  /\ given' = [given EXCEPT ![u] = NoProfile]
  /\ Touched(u)
  /\ UNCHANGED <<account, granted, contested>>
-----------------------------------------------------------------------------
(* Staff requests. *)

\* Faulty variant: only the capability is asked for.
Begin_Unscoped(s, u, m, e) ==
  /\ "act" \in AccessOps
  /\ req[s] = Free
  /\ account[u] = "active" /\ HasProfile(u) /\ HasCapability(u, CapabilityOf(m))
  /\ Serve(s, [pc |-> "acting", user |-> u, model |-> m, event |-> e])
  /\ UNCHANGED <<account, profile, granted, given, contested, lateActs>>

\* A request about rows of a model that belong to an event is judged.
Begin(s, u, m, e) ==
  /\ "act" \in AccessOps
  /\ req[s] = Free
  /\ Allowed(u, m, e)
  /\ Serve(s, [pc |-> "acting", user |-> u, model |-> m, event |-> e])
  /\ UNCHANGED <<account, profile, granted, given, contested, lateActs>>

\* Its last write.
Act(s) ==
  /\ req[s].pc = "acting"
  /\ LET u == req[s].user
     IN lateActs' = [lateActs EXCEPT ![u] =
                       IF Allowed(u, req[s].model, req[s].event) THEN @ ELSE @ + 1]
  /\ Serve(s, Free)
  /\ UNCHANGED <<account, profile, granted, given, contested>>

\* The request ends without another write: a refusal, an error, the death of the worker.
Drop(s) ==
  /\ req[s] # Free
  /\ Serve(s, Free)
  /\ UNCHANGED <<account, profile, granted, given, contested, lateActs>>
-----------------------------------------------------------------------------
\* What administrators do.
Administer(s) ==
  \/ \E a \in Users, u \in Managed, g \in Grants :
       CreateUser(s, a, u, g) \/ LoadUser(s, a, u, g) \/ LoadProfile(s, a, u, g)
  \/ \E a \in Users, u \in Managed : LoadRewrite(s, a, u) \/ DeleteProfile(s, a, u)
  \/ \E u \in Users : FirstRequest(s, u)
  \/ MakeProfile(s) \/ SaveRole(s) \/ SaveEvents(s) \/ SaveActive(s) \/ SaveRewrite(s)

AccessNextOf(s) ==
  \/ Administer(s)
  \/ \E u \in Users, m \in Models, e \in Events : Begin(s, u, m, e)
  \/ Act(s)
  \/ Drop(s)

AccessNext == \E s \in Servers : AccessNextOf(s)

AccessSpec == AccessInit /\ [][AccessNext]_accessVars
-----------------------------------------------------------------------------
(* Properties. *)

\* Whoever got past the gates of EventOSPermission and scope_queryset was granted it in
\* one piece: a single grant holds the capability and the organization.  No save of a
\* stale profile, break-off or race puts the role of one grant into the organization of
\* another, and nobody acts on a profile nobody entered.
ActsAreGranted ==
  \A s \in Servers : req[s].pc = "acting" /\ req[s].user \notin Superusers =>
    \E g \in granted[req[s].user] :
      /\ RoleCapabilities[g.role] \intersect {"*", CapabilityOf(req[s].model)} # {}
      /\ \/ g.role = "super_admin"
         \/ req[s].model \in Unscoped
         \/ g.org = OrgOf[req[s].event]

\* However grants race, break off or are written over: an event is in the scope of a
\* user who does not see all only if its organization was entered for him, and the event
\* too, unless he was entered as the administrator of just that organization.
ScopeIsGranted ==
  \A u \in Users : HasProfile(u) /\ ~SeesAll(u) =>
    \A e \in ScopedEvents(u) :
      \E g, h \in granted[u] :
        /\ g.org = OrgOf[e]
        /\ e \in h.events \/ (h.role = "organization_admin" /\ h.org = OrgOf[e])

\* A change of a user takes effect at once but for the requests under way: at most one
\* act of each other server is still committed that the user may no longer do.
LateActsAreBounded ==
  \A u \in Users : lateActs[u] < Cardinality(Servers)

\* The role and organization entered last stand, unless a REST write of something else
\* held the profile at that moment and saves them as they were.
RolesStand ==
  \A u \in Users \ contested :
    given[u] # NoProfile /\ HasProfile(u) => RoleOf(profile[u]) = given[u]

\* Whoever is moved to another organization leaves the events of the old one with the
\* first write, even if the request dies before it replaces the assigned events.
MoversLeave ==
  \A u \in Users \ contested :
    given[u] # NoProfile /\ HasProfile(u) /\ ~SeesAll(u) =>
      \A e \in ScopedEvents(u) : OrgOf[e] = given[u].org
-----------------------------------------------------------------------------
(* Inductive strengthenings. *)

\* A role and an organization, and events, that come from a new profile or from one of
\* the grants G.
Backed(G, x) == x = RoleOf(NewProfile) \/ \E g \in G : x = RoleOf(g)
Listed(G, x) == x = {} \/ \E g \in G : x = g.events

ProfilesAreBacked ==
  /\ \A u \in Users : HasProfile(u) =>
       Backed(granted[u], RoleOf(profile[u])) /\ Listed(granted[u], profile[u].events)
  /\ \A s \in Servers : req[s].pc = "rewrite" => Backed(granted[req[s].user], RoleOf(req[s]))
  /\ \A s \in Servers : req[s].pc = "events" => req[s].grant \in granted[req[s].user]

\* What rewrites of an uncontested user hold is what was entered last.
RewritesAgree ==
  \A u \in Users : given[u] # NoProfile =>
    /\ HasProfile(u)
    /\ u \notin contested =>
         /\ RoleOf(profile[u]) = given[u]
         /\ \A s \in Rewriters(u) : RoleOf(req[s]) = given[u]

\* The servers whose act the profile of u no longer allows.
Lapsed(u) == {s \in Servers : /\ req[s].pc = "acting" /\ req[s].user = u
                              /\ ~Allowed(u, req[s].model, req[s].event)}

ActsAndLapsed ==
  \A u \in Users : lateActs[u] + Cardinality(Lapsed(u)) < Cardinality(Servers)
=============================================================================
