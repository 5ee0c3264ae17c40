------------------------------ MODULE AccessProofs ------------------------------
(***************************************************************************)
(* Theorems about Access, for every set of users, organizations, events,   *)
(* grants, models and servers, and every kind of request.                  *)
(***************************************************************************)
EXTENDS Access, FiniteSetTheorems, TLAPS

USE AccessAssumption

\* What a server may hold.
Held == {Free} \union SavingGrant \union RewritingProfile \union ActingStaff

LEMMA HeldShape ==
  ASSUME AccessTypeOK, NEW s \in Servers
  PROVE  /\ req[s] \in Held
         /\ req[s].pc \in {"made", "role", "events", "active"} => req[s] \in SavingGrant
         /\ req[s].pc = "rewrite" => req[s] \in RewritingProfile
         /\ req[s].pc = "acting" => req[s] \in ActingStaff
  BY DEF AccessTypeOK, Held, Free, SavingGrant, RewritingProfile, ActingStaff

\* What Serve does to the servers, one by one.
LEMMA ServeOne ==
  ASSUME AccessTypeOK, NEW s \in Servers, NEW r, Serve(s, r)
  PROVE  /\ req'[s] = r
         /\ \A v \in Servers : v # s => req'[v] = req[v]
  BY DEF AccessTypeOK, Serve

LEMMA ServeType ==
  ASSUME AccessTypeOK, NEW s \in Servers, NEW r \in Held, Serve(s, r)
  PROVE  req' \in [Servers -> Held]
  BY DEF AccessTypeOK, Serve, Held

LEMMA ProfilesArePresent == \A x \in Profile : x # NoProfile
<1>1. SUFFICES ASSUME NEW x \in Profile PROVE x # NoProfile
  OBVIOUS
<1>2. DOMAIN x = {"role", "org", "events"}
  BY DEF Profile
<1>3. DOMAIN NoProfile = {"absent"}
  BY DEF NoProfile
<1> QED
  BY <1>2, <1>3

LEMMA GivenArePresent ==
  \A x \in [role: Roles, org: Organizations \union {None}] : x # NoProfile
<1>1. SUFFICES ASSUME NEW x \in [role: Roles, org: Organizations \union {None}]
               PROVE  x # NoProfile
  OBVIOUS
<1>2. DOMAIN x = {"role", "org"}
  OBVIOUS
<1>3. DOMAIN NoProfile = {"absent"}
  BY DEF NoProfile
<1> QED
  BY <1>2, <1>3

LEMMA ViewerIsRole == "viewer" \in Roles
  BY DEF Roles, RoleCapabilities

LEMMA NewProfileTyped == NewProfile \in Profile
  BY ViewerIsRole DEF NewProfile, Profile

LEMMA GrantFields ==
  ASSUME NEW g \in Grants
  PROVE  /\ g.role \in Roles /\ g.org \in Organizations \union {None}
         /\ g.events \in SUBSET Events /\ g.active \in BOOLEAN
  BY DEF Grant

LEMMA ProfileFields ==
  ASSUME AccessTypeOK, NEW u \in Users, HasProfile(u)
  PROVE  /\ profile[u] \in Profile
         /\ profile[u].role \in Roles /\ profile[u].org \in Organizations \union {None}
         /\ profile[u].events \in SUBSET Events
  BY DEF AccessTypeOK, HasProfile, Profile

\* A save of all columns leaves a profile with the role and organization it writes.
LEMMA SavedTyped ==
  ASSUME AccessTypeOK, NEW u \in Users, NEW x,
         x.role \in Roles, x.org \in Organizations \union {None}
  PROVE  /\ Saved(u, x) \in Profile
         /\ RoleOf(Saved(u, x)) = RoleOf(x)
         /\ Saved(u, x).events = IF HasProfile(u) THEN profile[u].events ELSE {}
<1>1. CASE HasProfile(u)
  <2>1. Saved(u, x) = [profile[u] EXCEPT !.role = x.role, !.org = x.org]
    BY <1>1 DEF Saved
  <2>2. profile[u] \in [role: Roles, org: Organizations \union {None}, events: SUBSET Events]
    BY <1>1, ProfileFields DEF Profile
  <2> QED
    BY <1>1, <2>1, <2>2 DEF Profile, RoleOf
<1>2. CASE ~HasProfile(u)
  <2>1. Saved(u, x) = [role |-> x.role, org |-> x.org, events |-> {}]
    BY <1>2 DEF Saved
  <2> QED
    BY <1>2, <2>1 DEF Profile, RoleOf
<1> QED
  BY <1>1, <1>2

LEMMA TouchedType ==
  ASSUME AccessTypeOK, NEW u \in Users, Touched(u)
  PROVE  lateActs' \in [Users -> Nat]
  BY DEF AccessTypeOK, Touched
-----------------------------------------------------------------------------
LEMMA AccessInitTyped == AccessInit => AccessTypeOK
<1> SUFFICES ASSUME AccessInit PROVE AccessTypeOK
  OBVIOUS
<1>1. profile \in [Users -> Profile \union {NoProfile}]
  BY NewProfileTyped DEF AccessInit
<1> QED
  BY <1>1 DEF AccessInit, AccessTypeOK

LEMMA AccessTypeStep == AccessTypeOK /\ [AccessNext]_accessVars => AccessTypeOK'
<1> SUFFICES ASSUME AccessTypeOK, [AccessNext]_accessVars PROVE AccessTypeOK'
  OBVIOUS
<1>1. ASSUME NEW s \in Servers, NEW a \in Users, NEW u \in Managed, NEW g \in Grants,
             CreateUser(s, a, u, g)
      PROVE  AccessTypeOK'
  <2>1. [pc |-> "made", user |-> u, grant |-> g, form |-> FALSE, gone |-> FALSE] \in Held
    BY DEF Held, SavingGrant
  <2>2. req' \in [Servers -> Held]
    BY <1>1, <2>1, ServeType DEF CreateUser
  <2>3. lateActs' \in [Users -> Nat]
    BY <1>1, TouchedType DEF CreateUser
  <2> QED
    BY <1>1, <2>2, <2>3 DEF AccessTypeOK, CreateUser, Held
<1>2. ASSUME NEW s \in Servers, MakeProfile(s)
      PROVE  AccessTypeOK'
  <2>1. req[s] \in SavingGrant
    BY <1>2, HeldShape DEF MakeProfile
  <2>2. [req[s] EXCEPT !.pc = "role"] \in Held
    BY <2>1 DEF Held, SavingGrant
  <2>3. req' \in [Servers -> Held]
    BY <1>2, <2>2, ServeType DEF MakeProfile
  <2>4. req[s].user \in Users
    BY <2>1 DEF SavingGrant
  <2>5. lateActs' \in [Users -> Nat]
    BY <1>2, <2>4, TouchedType DEF MakeProfile
  <2>6. profile' \in [Users -> Profile \union {NoProfile}]
    BY <1>2, <2>4, NewProfileTyped DEF AccessTypeOK, MakeProfile
  <2> QED
    BY <1>2, <2>3, <2>5, <2>6 DEF AccessTypeOK, MakeProfile, Held
<1>3. ASSUME NEW s \in Servers, NEW u \in Users, FirstRequest(s, u)
      PROVE  AccessTypeOK'
  <2>1. lateActs' \in [Users -> Nat]
    BY <1>3, TouchedType DEF FirstRequest
  <2>2. profile' \in [Users -> Profile \union {NoProfile}]
    BY <1>3, NewProfileTyped DEF AccessTypeOK, FirstRequest
  <2> QED
    BY <1>3, <2>1, <2>2 DEF AccessTypeOK, FirstRequest
<1>4. ASSUME NEW s \in Servers, NEW a \in Users, NEW u \in Managed, NEW g \in Grants,
             LoadUser(s, a, u, g)
      PROVE  AccessTypeOK'
  <2>1. [pc |-> "role", user |-> u, grant |-> g, form |-> TRUE, gone |-> FALSE] \in Held
    BY DEF Held, SavingGrant
  <2>2. req' \in [Servers -> Held]
    BY <1>4, <2>1, ServeType DEF LoadUser
  <2> QED
    BY <1>4, <2>2 DEF AccessTypeOK, LoadUser, Held
<1>5. ASSUME NEW s \in Servers, NEW a \in Users, NEW u \in Managed, NEW g \in Grants,
             LoadProfile(s, a, u, g)
      PROVE  AccessTypeOK'
  <2>1. [pc |-> "role", user |-> u, grant |-> g, form |-> FALSE, gone |-> FALSE] \in Held
    BY DEF Held, SavingGrant
  <2>2. req' \in [Servers -> Held]
    BY <1>5, <2>1, ServeType DEF LoadProfile
  <2> QED
    BY <1>5, <2>2 DEF AccessTypeOK, LoadProfile, Held
<1>6. ASSUME NEW s \in Servers, NEW a \in Users, NEW u \in Managed, LoadRewrite(s, a, u)
      PROVE  AccessTypeOK'
  <2>1. HasProfile(u)
    BY <1>6 DEF LoadRewrite, MayRewrite
  <2>2. [pc |-> "rewrite", user |-> u, role |-> profile[u].role, org |-> profile[u].org,
         gone |-> FALSE] \in Held
    BY <2>1, ProfileFields DEF Held, RewritingProfile
  <2>3. req' \in [Servers -> Held]
    BY <1>6, <2>2, ServeType DEF LoadRewrite
  <2> QED
    BY <1>6, <2>3 DEF AccessTypeOK, LoadRewrite, Held
<1>7. ASSUME NEW s \in Servers, SaveRole(s)
      PROVE  AccessTypeOK'
  <2>1. req[s] \in SavingGrant
    BY <1>7, HeldShape DEF SaveRole
  <2>2. [req[s] EXCEPT !.pc = "events", !.gone = FALSE] \in Held
    BY <2>1 DEF Held, SavingGrant
  <2>3. req' \in [Servers -> Held]
    BY <1>7, <2>2, ServeType DEF SaveRole
  <2>4. req[s].user \in Users /\ req[s].grant \in Grants
    BY <2>1 DEF SavingGrant
  <2>5. lateActs' \in [Users -> Nat]
    BY <1>7, <2>4, TouchedType DEF SaveRole
  <2>6. Saved(req[s].user, req[s].grant) \in Profile
    BY <2>4, SavedTyped, GrantFields
  <2>7. profile' \in [Users -> Profile \union {NoProfile}]
    BY <1>7, <2>4, <2>6 DEF AccessTypeOK, SaveRole
  <2>8. given' \in [Users -> [role: Roles, org: Organizations \union {None}] \union {NoProfile}]
    BY <1>7, <2>4, GrantFields DEF AccessTypeOK, SaveRole, RoleOf
  <2>9. contested' \subseteq Users /\ granted' \in [Users -> SUBSET Grants]
    BY <1>7, <2>4 DEF AccessTypeOK, SaveRole
  <2> QED
    BY <1>7, <2>3, <2>5, <2>7, <2>8, <2>9 DEF AccessTypeOK, SaveRole, Held
<1>8. ASSUME NEW s \in Servers, SaveEvents(s)
      PROVE  AccessTypeOK'
  <2>1. req[s] \in SavingGrant
    BY <1>8, HeldShape DEF SaveEvents
  <2>2. [req[s] EXCEPT !.pc = "active"] \in Held /\ Free \in Held
    BY <2>1 DEF Held, SavingGrant
  <2>3. req' \in [Servers -> Held]
    BY <1>8, <2>2, ServeType DEF SaveEvents
  <2>4. req[s].user \in Users /\ req[s].grant \in Grants
    BY <2>1 DEF SavingGrant
  <2>5. lateActs' \in [Users -> Nat]
    BY <1>8, <2>4, TouchedType DEF SaveEvents
  <2>6. ASSUME NEW x \in Profile \union {NoProfile}
        PROVE  [x EXCEPT !.events = req[s].grant.events] \in Profile \union {NoProfile}
    <3>1. CASE x \in Profile
      BY <2>4, <3>1, GrantFields DEF Profile
    <3>2. CASE x = NoProfile
      BY <3>2 DEF NoProfile
    <3> QED
      BY <3>1, <3>2
  <2>7. profile' = profile \/ profile' = [profile EXCEPT ![req[s].user] =
                                            [@ EXCEPT !.events = req[s].grant.events]]
    BY <1>8 DEF SaveEvents
  <2>8. profile' \in [Users -> Profile \union {NoProfile}]
    BY <2>4, <2>6, <2>7 DEF AccessTypeOK
  <2> QED
    BY <1>8, <2>3, <2>5, <2>8 DEF AccessTypeOK, SaveEvents, Held
<1>9. ASSUME NEW s \in Servers, SaveActive(s)
      PROVE  AccessTypeOK'
  <2>1. req[s] \in SavingGrant
    BY <1>9, HeldShape DEF SaveActive
  <2>2. req[s].user \in Users
    BY <2>1 DEF SavingGrant
  <2>3. req' \in [Servers -> Held]
    BY <1>9, ServeType DEF SaveActive, Held
  <2>4. lateActs' \in [Users -> Nat]
    BY <1>9, <2>2, TouchedType DEF SaveActive
  <2> QED
    BY <1>9, <2>2, <2>3, <2>4 DEF AccessTypeOK, SaveActive, Held
<1>10. ASSUME NEW s \in Servers, SaveRewrite(s)
       PROVE  AccessTypeOK'
  <2>1. req[s] \in RewritingProfile
    BY <1>10, HeldShape DEF SaveRewrite
  <2>2. /\ req[s].user \in Users /\ req[s].role \in Roles
        /\ req[s].org \in Organizations \union {None}
    BY <2>1 DEF RewritingProfile
  <2>3. req' \in [Servers -> Held]
    BY <1>10, ServeType DEF SaveRewrite, Held
  <2>4. lateActs' \in [Users -> Nat]
    BY <1>10, <2>2, TouchedType DEF SaveRewrite
  <2>5. Saved(req[s].user, req[s]) \in Profile
    BY <2>2, SavedTyped
  <2>6. profile' \in [Users -> Profile \union {NoProfile}]
    BY <1>10, <2>2, <2>5 DEF AccessTypeOK, SaveRewrite
  <2> QED
    BY <1>10, <2>3, <2>4, <2>6 DEF AccessTypeOK, SaveRewrite, Held
<1>11. ASSUME NEW s \in Servers, NEW a \in Users, NEW u \in Managed, DeleteProfile(s, a, u)
       PROVE  AccessTypeOK'
  <2>1. ASSUME NEW v \in Servers
        PROVE  req'[v] \in Held
    <3>1. CASE req[v].pc \in {"role", "events", "active"}
      <4>1. req[v] \in SavingGrant
        BY <3>1, HeldShape
      <4> QED
        BY <1>11, <3>1, <4>1, HeldShape DEF DeleteProfile, Held, SavingGrant
    <3>2. CASE req[v].pc = "rewrite"
      <4>1. req[v] \in RewritingProfile
        BY <3>2, HeldShape
      <4> QED
        BY <1>11, <3>2, <4>1, HeldShape DEF DeleteProfile, Held, RewritingProfile
    <3>3. CASE req[v].pc \notin {"role", "events", "active", "rewrite"}
      BY <1>11, <3>3, HeldShape DEF DeleteProfile
    <3> QED
      BY <3>1, <3>2, <3>3
  <2>2. req' \in [Servers -> Held]
    BY <1>11, <2>1 DEF DeleteProfile
  <2>3. lateActs' \in [Users -> Nat]
    BY <1>11, TouchedType DEF DeleteProfile
  <2> QED
    BY <1>11, <2>2, <2>3 DEF AccessTypeOK, DeleteProfile, Held
<1>12. ASSUME NEW s \in Servers, NEW u \in Users, NEW m \in Models, NEW e \in Events,
              Begin(s, u, m, e)
       PROVE  AccessTypeOK'
  <2>1. [pc |-> "acting", user |-> u, model |-> m, event |-> e] \in Held
    BY DEF Held, ActingStaff
  <2>2. req' \in [Servers -> Held]
    BY <1>12, <2>1, ServeType DEF Begin
  <2> QED
    BY <1>12, <2>2 DEF AccessTypeOK, Begin, Held
<1>13. ASSUME NEW s \in Servers, Act(s)
       PROVE  AccessTypeOK'
  <2>1. req[s] \in ActingStaff
    BY <1>13, HeldShape DEF Act
  <2>2. req' \in [Servers -> Held]
    BY <1>13, ServeType DEF Act, Held
  <2>3. lateActs' \in [Users -> Nat]
    BY <1>13, <2>1 DEF AccessTypeOK, Act, ActingStaff
  <2> QED
    BY <1>13, <2>2, <2>3 DEF AccessTypeOK, Act, Held
<1>14. ASSUME NEW s \in Servers, Drop(s)
       PROVE  AccessTypeOK'
  <2>1. req' \in [Servers -> Held]
    BY <1>14, ServeType DEF Drop, Held
  <2> QED
    BY <1>14, <2>1 DEF AccessTypeOK, Drop, Held
<1>15. CASE UNCHANGED accessVars
  BY <1>15 DEF AccessTypeOK, accessVars
<1> QED
  BY <1>1, <1>2, <1>3, <1>4, <1>5, <1>6, <1>7, <1>8, <1>9, <1>10, <1>11, <1>12, <1>13,
     <1>14, <1>15 DEF AccessNext, AccessNextOf, Administer

\* Every variable keeps its type: a profile has a role of ROLE_CAPABILITIES, a request
\* holds what its stage has loaded.
THEOREM AccessTypeCorrect == AccessSpec => []AccessTypeOK
BY AccessInitTyped, AccessTypeStep, PTL DEF AccessSpec
-----------------------------------------------------------------------------
\* Which steps write profiles and what was entered.
LEMMA StepWrites ==
  ASSUME [AccessNext]_accessVars
  PROVE  /\ granted' = granted \/ \E s \in Servers : SaveRole(s)
         /\ \/ profile' = profile
            \/ \E s \in Servers : \/ MakeProfile(s) \/ SaveRole(s) \/ SaveEvents(s) \/ SaveRewrite(s)
                                  \/ \E v \in Users : FirstRequest(s, v)
                                  \/ \E a \in Users, v \in Managed : DeleteProfile(s, a, v)
<1>1. ASSUME NEW s \in Servers, NEW a \in Users, NEW u \in Managed, NEW g \in Grants,
             CreateUser(s, a, u, g) \/ LoadUser(s, a, u, g) \/ LoadProfile(s, a, u, g)
      PROVE  UNCHANGED <<profile, granted>>
  BY <1>1 DEF CreateUser, LoadUser, LoadProfile
<1>2. ASSUME NEW s \in Servers, NEW a \in Users, NEW u \in Managed, LoadRewrite(s, a, u)
      PROVE  UNCHANGED <<profile, granted>>
  BY <1>2 DEF LoadRewrite
<1>3. ASSUME NEW s \in Servers, NEW u \in Users, NEW m \in Models, NEW e \in Events,
             Begin(s, u, m, e)
      PROVE  UNCHANGED <<profile, granted>>
  BY <1>3 DEF Begin
<1>4. ASSUME NEW s \in Servers, SaveActive(s) \/ Act(s) \/ Drop(s)
      PROVE  UNCHANGED <<profile, granted>>
  BY <1>4 DEF SaveActive, Act, Drop
<1>5. ASSUME NEW s \in Servers, MakeProfile(s) \/ SaveEvents(s) \/ SaveRewrite(s)
      PROVE  granted' = granted
  BY <1>5 DEF MakeProfile, SaveEvents, SaveRewrite
<1>6. ASSUME NEW s \in Servers, NEW u \in Users, FirstRequest(s, u)
      PROVE  granted' = granted
  BY <1>6 DEF FirstRequest
<1>7. ASSUME NEW s \in Servers, NEW a \in Users, NEW u \in Managed, DeleteProfile(s, a, u)
      PROVE  granted' = granted
  BY <1>7 DEF DeleteProfile
<1>8. CASE UNCHANGED accessVars
  BY <1>8 DEF accessVars
<1> QED
  BY <1>1, <1>2, <1>3, <1>4, <1>5, <1>6, <1>7, <1>8 DEF AccessNext, AccessNextOf, Administer

LEMMA BackedStays ==
  ASSUME NEW G, NEW H, NEW x, G \subseteq H
  PROVE  (Backed(G, x) => Backed(H, x)) /\ (Listed(G, x) => Listed(H, x))
  BY DEF Backed, Listed

\* What was entered once stays entered.
LEMMA GrantsGrow ==
  ASSUME AccessTypeOK, [AccessNext]_accessVars
  PROVE  \A u \in Users : granted[u] \subseteq granted'[u]
<1>1. ASSUME NEW s \in Servers, SaveRole(s)
      PROVE  \A u \in Users : granted[u] \subseteq granted'[u]
  BY <1>1 DEF AccessTypeOK, SaveRole
<1>2. CASE granted' = granted
  BY <1>2
<1> QED
  BY <1>1, <1>2, StepWrites

\* The profiles a step may leave behind.
LEMMA ProfileMoves ==
  ASSUME AccessTypeOK, [AccessNext]_accessVars, NEW u \in Users
  PROVE  \/ profile'[u] = profile[u]
         \/ profile'[u] = NoProfile /\ given'[u] = NoProfile
         \/ ~HasProfile(u) /\ profile'[u] = NewProfile /\ given'[u] = given[u]
         \/ \E s \in Servers : SaveRole(s) /\ req[s].user = u
                               /\ profile'[u] = Saved(u, req[s].grant)
         \/ \E s \in Servers : SaveEvents(s) /\ req[s].user = u /\ ~req[s].gone
                               /\ profile'[u] = [profile[u] EXCEPT !.events = req[s].grant.events]
         \/ \E s \in Servers : SaveRewrite(s) /\ req[s].user = u
                               /\ profile'[u] = Saved(u, req[s])
<1>1. ASSUME NEW s \in Servers, MakeProfile(s)
      PROVE  \/ profile'[u] = profile[u]
             \/ ~HasProfile(u) /\ profile'[u] = NewProfile /\ given'[u] = given[u]
  BY <1>1 DEF AccessTypeOK, MakeProfile
<1>2. ASSUME NEW s \in Servers, NEW v \in Users, FirstRequest(s, v)
      PROVE  \/ profile'[u] = profile[u]
             \/ ~HasProfile(u) /\ profile'[u] = NewProfile /\ given'[u] = given[u]
  BY <1>2 DEF AccessTypeOK, FirstRequest
<1>3. ASSUME NEW s \in Servers, SaveRole(s)
      PROVE  profile'[u] = profile[u] \/ (req[s].user = u /\ profile'[u] = Saved(u, req[s].grant))
  BY <1>3 DEF AccessTypeOK, SaveRole
<1>4. ASSUME NEW s \in Servers, SaveEvents(s)
      PROVE  \/ profile'[u] = profile[u]
             \/ /\ req[s].user = u /\ ~req[s].gone
                /\ profile'[u] = [profile[u] EXCEPT !.events = req[s].grant.events]
  BY <1>4 DEF AccessTypeOK, SaveEvents
<1>5. ASSUME NEW s \in Servers, SaveRewrite(s)
      PROVE  profile'[u] = profile[u] \/ (req[s].user = u /\ profile'[u] = Saved(u, req[s]))
  BY <1>5 DEF AccessTypeOK, SaveRewrite
<1>6. ASSUME NEW s \in Servers, NEW a \in Users, NEW v \in Managed, DeleteProfile(s, a, v)
      PROVE  profile'[u] = profile[u] \/ (profile'[u] = NoProfile /\ given'[u] = NoProfile)
  BY <1>6 DEF AccessTypeOK, DeleteProfile
<1> QED
  BY <1>1, <1>2, <1>3, <1>4, <1>5, <1>6, StepWrites

\* How a server comes to hold what it may save later.
LEMMA RequestMoves ==
  ASSUME AccessTypeOK, [AccessNext]_accessVars, NEW s \in Servers
  PROVE  /\ req'[s].pc = "rewrite" =>
              \/ /\ req[s].pc = "rewrite" /\ req'[s].user = req[s].user
                 /\ RoleOf(req'[s]) = RoleOf(req[s])
              \/ \E a \in Users, u \in Managed : LoadRewrite(s, a, u) /\ req'[s].user = u
                                                /\ RoleOf(req'[s]) = RoleOf(profile[u])
         /\ req'[s].pc = "events" =>
              /\ req'[s].user = req[s].user /\ req'[s].grant = req[s].grant
              /\ req[s].pc = "events" \/ (req[s].pc = "role" /\ SaveRole(s))
<1> DEFINE Kept == /\ req'[s].pc = "rewrite" =>
                        /\ req[s].pc = "rewrite" /\ req'[s].user = req[s].user
                        /\ RoleOf(req'[s]) = RoleOf(req[s])
                   /\ req'[s].pc = "events" =>
                        /\ req'[s].user = req[s].user /\ req'[s].grant = req[s].grant
                        /\ req[s].pc = "events"
<1>1. CASE req'[s] = req[s]
  BY <1>1
<1>2. ASSUME NEW v \in Servers, NEW r, Serve(v, r), r.pc \notin {"rewrite", "events"}
      PROVE  Kept
  BY <1>2, ServeOne
<1>3. ASSUME NEW v \in Servers, NEW a \in Users, NEW u \in Managed, LoadRewrite(v, a, u)
      PROVE  \/ req'[s] = req[s]
             \/ /\ LoadRewrite(s, a, u) /\ req'[s].user = u /\ req'[s].pc = "rewrite"
                /\ RoleOf(req'[s]) = RoleOf(profile[u])
  <2>1. CASE v = s
    BY <1>3, <2>1, ServeOne DEF LoadRewrite, RoleOf
  <2>2. CASE v # s
    BY <1>3, <2>2, ServeOne DEF LoadRewrite
  <2> QED
    BY <2>1, <2>2
<1>4. ASSUME NEW v \in Servers, SaveRole(v)
      PROVE  \/ req'[s] = req[s]
             \/ /\ SaveRole(s) /\ req[s].pc = "role" /\ req'[s].pc = "events"
                /\ req'[s].user = req[s].user /\ req'[s].grant = req[s].grant
  <2>1. req[v] \in SavingGrant
    BY <1>4, HeldShape DEF SaveRole
  <2>2. CASE v = s
    <3>1. req'[s] = [req[s] EXCEPT !.pc = "events", !.gone = FALSE]
      BY <1>4, <2>2, ServeOne DEF SaveRole
    <3> QED
      BY <1>4, <2>1, <2>2, <3>1 DEF SaveRole, SavingGrant
  <2>3. CASE v # s
    BY <1>4, <2>3, ServeOne DEF SaveRole
  <2> QED
    BY <2>2, <2>3
<1>5. ASSUME NEW v \in Servers, NEW a \in Users, NEW u \in Managed, DeleteProfile(v, a, u)
      PROVE  Kept
  <2>1. CASE req[s].pc \in {"role", "events", "active"}
    <3>1. req[s] \in SavingGrant
      BY <2>1, HeldShape
    <3> QED
      BY <1>5, <2>1, <3>1 DEF DeleteProfile, SavingGrant
  <2>2. CASE req[s].pc = "rewrite"
    <3>1. req[s] \in RewritingProfile
      BY <2>2, HeldShape
    <3> QED
      BY <1>5, <2>2, <3>1 DEF DeleteProfile, RewritingProfile, RoleOf
  <2>3. CASE req[s].pc \notin {"role", "events", "active", "rewrite"}
    BY <1>5, <2>3 DEF DeleteProfile
  <2> QED
    BY <2>1, <2>2, <2>3
<1>6. ASSUME NEW v \in Servers, MakeProfile(v)
      PROVE  Kept
  <2>1. req[v] \in SavingGrant
    BY <1>6, HeldShape DEF MakeProfile
  <2>2. [req[v] EXCEPT !.pc = "role"].pc = "role"
    BY <2>1 DEF SavingGrant
  <2> QED
    BY <1>6, <2>2, <1>2 DEF MakeProfile
<1>7. ASSUME NEW v \in Servers, SaveEvents(v)
      PROVE  Kept
  <2>1. req[v] \in SavingGrant
    BY <1>7, HeldShape DEF SaveEvents
  <2>2. [req[v] EXCEPT !.pc = "active"].pc = "active" /\ Free.pc = "free"
    BY <2>1 DEF SavingGrant, Free
  <2>3. CASE req[v].form
    BY <1>7, <2>2, <2>3, <1>2 DEF SaveEvents
  <2>4. CASE ~req[v].form
    BY <1>7, <2>2, <2>4, <1>2 DEF SaveEvents
  <2> QED
    BY <2>3, <2>4
<1>8. ASSUME NEW v \in Servers,
             \/ \E a \in Users, u \in Managed, g \in Grants :
                  CreateUser(v, a, u, g) \/ LoadUser(v, a, u, g) \/ LoadProfile(v, a, u, g)
             \/ \E u \in Users, m \in Models, e \in Events : Begin(v, u, m, e)
      PROVE  Kept
  BY <1>8, <1>2 DEF CreateUser, LoadUser, LoadProfile, Begin
<1>9. ASSUME NEW v \in Servers, SaveActive(v) \/ SaveRewrite(v) \/ Act(v) \/ Drop(v)
      PROVE  Kept
  <2>1. Serve(v, Free) /\ Free.pc = "free"
    BY <1>9 DEF SaveActive, SaveRewrite, Act, Drop, Free
  <2> QED
    BY <2>1, <1>2
<1>10. ASSUME NEW v \in Servers, NEW u \in Users, FirstRequest(v, u)
       PROVE  req'[s] = req[s]
  BY <1>10 DEF FirstRequest
<1>11. CASE UNCHANGED accessVars
  BY <1>11, <1>1 DEF accessVars
<1> QED
  BY <1>1, <1>3, <1>4, <1>5, <1>6, <1>7, <1>8, <1>9, <1>10, <1>11
     DEF AccessNext, AccessNextOf, Administer
-----------------------------------------------------------------------------
LEMMA BackedInit == AccessInit => ProfilesAreBacked
<1> SUFFICES ASSUME AccessInit PROVE ProfilesAreBacked
  OBVIOUS
<1>1. \A s \in Servers : req[s].pc = "free"
  BY DEF AccessInit, Free
<1>2. \A u \in Users : HasProfile(u) => profile[u] = NewProfile
  BY DEF AccessInit, HasProfile
<1>3. NewProfile.events = {}
  BY DEF NewProfile
<1> QED
  BY <1>1, <1>2, <1>3 DEF ProfilesAreBacked, Backed, Listed

LEMMA BackedStep ==
  ASSUME AccessTypeOK, ProfilesAreBacked, [AccessNext]_accessVars
  PROVE  ProfilesAreBacked'
<1>1. ASSUME NEW u \in Users, NEW x
      PROVE  /\ Backed(granted[u], x) => Backed(granted'[u], x)
             /\ Listed(granted[u], x) => Listed(granted'[u], x)
  BY GrantsGrow, BackedStays
<1>2. ASSUME NEW s \in Servers, req'[s].pc = "events"
      PROVE  req'[s].grant \in granted'[req'[s].user]
  <2>1. req'[s].user = req[s].user /\ req'[s].grant = req[s].grant
    BY <1>2, RequestMoves
  <2>2. CASE req[s].pc = "events"
    <3>1. req[s].grant \in granted[req[s].user]
      BY <2>2 DEF ProfilesAreBacked
    <3>2. req[s].user \in Users
      BY <2>2, HeldShape DEF SavingGrant
    <3> QED
      BY <2>1, <3>1, <3>2, GrantsGrow
  <2>3. CASE req[s].pc = "role" /\ SaveRole(s)
    <3>1. req[s].user \in Users
      BY <2>3, HeldShape DEF SavingGrant
    <3> QED
      BY <2>1, <2>3, <3>1 DEF AccessTypeOK, SaveRole
  <2> QED
    BY <1>2, <2>2, <2>3, RequestMoves
<1>3. ASSUME NEW s \in Servers, req'[s].pc = "rewrite"
      PROVE  Backed(granted'[req'[s].user], RoleOf(req'[s]))
  <2>1. CASE /\ req[s].pc = "rewrite" /\ req'[s].user = req[s].user
             /\ RoleOf(req'[s]) = RoleOf(req[s])
    <3>1. Backed(granted[req[s].user], RoleOf(req[s]))
      BY <2>1 DEF ProfilesAreBacked
    <3>2. req[s].user \in Users
      BY <2>1, HeldShape DEF RewritingProfile
    <3> QED
      BY <1>1, <2>1, <3>1, <3>2
  <2>2. ASSUME NEW a \in Users, NEW u \in Managed, LoadRewrite(s, a, u),
               req'[s].user = u, RoleOf(req'[s]) = RoleOf(profile[u])
        PROVE  Backed(granted'[req'[s].user], RoleOf(req'[s]))
    <3>1. HasProfile(u) /\ u \in Users
      BY <2>2 DEF LoadRewrite, MayRewrite
    <3>2. Backed(granted[u], RoleOf(profile[u]))
      BY <3>1 DEF ProfilesAreBacked
    <3> QED
      BY <1>1, <2>2, <3>1, <3>2
  <2> QED
    BY <1>3, <2>1, <2>2, RequestMoves
<1>4. ASSUME NEW u \in Users, profile'[u] # NoProfile
      PROVE  Backed(granted'[u], RoleOf(profile'[u])) /\ Listed(granted'[u], profile'[u].events)
  <2>1. CASE profile'[u] = profile[u]
    <3>1. Backed(granted[u], RoleOf(profile[u])) /\ Listed(granted[u], profile[u].events)
      BY <1>4, <2>1 DEF ProfilesAreBacked, HasProfile
    <3> QED
      BY <1>1, <2>1, <3>1
  <2>2. CASE profile'[u] = NewProfile
    BY <2>2 DEF Backed, Listed, NewProfile
  <2>3. ASSUME NEW r, r.role \in Roles, r.org \in Organizations \union {None},
               Backed(granted'[u], RoleOf(r)), profile'[u] = Saved(u, r)
        PROVE  Backed(granted'[u], RoleOf(profile'[u])) /\ Listed(granted'[u], profile'[u].events)
    <3>1. RoleOf(profile'[u]) = RoleOf(r)
      BY <2>3, SavedTyped
    <3>2. Listed(granted[u], Saved(u, r).events)
      BY <2>3, SavedTyped DEF ProfilesAreBacked, Listed
    <3> QED
      BY <1>1, <2>3, <3>1, <3>2
  <2>4. ASSUME NEW s \in Servers, SaveRole(s), req[s].user = u,
               profile'[u] = Saved(u, req[s].grant)
        PROVE  Backed(granted'[u], RoleOf(profile'[u])) /\ Listed(granted'[u], profile'[u].events)
    <3>1. req[s].grant \in Grants
      BY <2>4, HeldShape DEF SaveRole, SavingGrant
    <3>2. req[s].grant \in granted'[u]
      BY <2>4 DEF AccessTypeOK, SaveRole
    <3>3. Backed(granted'[u], RoleOf(req[s].grant))
      BY <3>2 DEF Backed
    <3> QED
      BY <2>3, <2>4, <3>1, <3>3, GrantFields
  <2>5. ASSUME NEW s \in Servers, SaveEvents(s), req[s].user = u, ~req[s].gone,
               profile'[u] = [profile[u] EXCEPT !.events = req[s].grant.events]
        PROVE  Backed(granted'[u], RoleOf(profile'[u])) /\ Listed(granted'[u], profile'[u].events)
    <3>1. CASE HasProfile(u)
      <4>1. profile[u] \in [role: Roles, org: Organizations \union {None}, events: SUBSET Events]
        BY <3>1, ProfileFields DEF Profile
      <4>2. /\ RoleOf(profile'[u]) = RoleOf(profile[u])
            /\ profile'[u].events = req[s].grant.events
        BY <2>5, <4>1 DEF RoleOf
      <4>3. req[s].grant \in granted[u]
        BY <2>5 DEF SaveEvents, ProfilesAreBacked
      <4>4. Backed(granted[u], RoleOf(profile[u])) /\ Listed(granted[u], req[s].grant.events)
        BY <3>1, <4>3 DEF ProfilesAreBacked, Listed
      <4> QED
        BY <1>1, <4>2, <4>4
    <3>2. CASE ~HasProfile(u)
      <4>1. profile'[u] = NoProfile
        BY <2>5, <3>2 DEF HasProfile, NoProfile
      <4> QED
        BY <1>4, <4>1
    <3> QED
      BY <3>1, <3>2
  <2>6. ASSUME NEW s \in Servers, SaveRewrite(s), req[s].user = u,
               profile'[u] = Saved(u, req[s])
        PROVE  Backed(granted'[u], RoleOf(profile'[u])) /\ Listed(granted'[u], profile'[u].events)
    <3>1. req[s] \in RewritingProfile
      BY <2>6, HeldShape DEF SaveRewrite
    <3>2. Backed(granted[u], RoleOf(req[s]))
      BY <2>6 DEF SaveRewrite, ProfilesAreBacked
    <3>3. Backed(granted'[u], RoleOf(req[s]))
      BY <1>1, <3>2
    <3>4. req[s].role \in Roles /\ req[s].org \in Organizations \union {None}
      BY <3>1 DEF RewritingProfile
    <3> QED
      BY <2>3, <2>6, <3>3, <3>4
  <2> QED
    BY <1>4, <2>1, <2>2, <2>4, <2>5, <2>6, ProfileMoves
<1> QED
  BY <1>2, <1>3, <1>4 DEF ProfilesAreBacked, HasProfile

LEMMA BackedGivesScope == AccessTypeOK /\ ProfilesAreBacked => ScopeIsGranted
<1> SUFFICES ASSUME AccessTypeOK, ProfilesAreBacked, NEW u \in Users, HasProfile(u), ~SeesAll(u),
                    NEW e \in ScopedEvents(u)
             PROVE  \E g, h \in granted[u] :
                      /\ g.org = OrgOf[e]
                      /\ e \in h.events \/ (h.role = "organization_admin" /\ h.org = OrgOf[e])
  BY DEF ScopeIsGranted
<1>1. /\ profile[u].org = OrgOf[e] /\ profile[u].org # None
      /\ profile[u].role = "organization_admin" \/ e \in profile[u].events
  BY DEF ScopedEvents, OwnEvents, AssignedEvents
<1>2. PICK g \in granted[u] : RoleOf(profile[u]) = RoleOf(g)
  BY <1>1 DEF ProfilesAreBacked, Backed, RoleOf, NewProfile
<1>3. g.role = profile[u].role /\ g.org = profile[u].org
  BY <1>2 DEF RoleOf
<1>4. CASE e \in profile[u].events
  <2>1. PICK h \in granted[u] : profile[u].events = h.events
    BY <1>4 DEF ProfilesAreBacked, Listed
  <2> QED
    BY <1>1, <1>3, <1>4, <2>1
<1> QED
  BY <1>1, <1>3, <1>4

\* However grants race, break off or are written over: an event is in the scope of a
\* user who does not see all only if its organization was entered for him, and the event
\* too, unless he was entered as the administrator of just that organization.
THEOREM ScopesAreGranted == AccessSpec => []ScopeIsGranted
<1>1. AccessInit => ProfilesAreBacked
  BY BackedInit
<1>2. AccessTypeOK /\ ProfilesAreBacked /\ [AccessNext]_accessVars => ProfilesAreBacked'
  BY BackedStep
<1>3. AccessTypeOK /\ ProfilesAreBacked => ScopeIsGranted
  BY BackedGivesScope
<1> QED
  BY <1>1, <1>2, <1>3, AccessTypeCorrect, PTL DEF AccessSpec
-----------------------------------------------------------------------------
\* "view" opens no model, so the profile that the signal makes lets nobody act.
LEMMA ViewersDoNothing == \A m : CapabilityOf(m) # "view"
<1> SUFFICES ASSUME NEW m PROVE CapabilityOf(m) # "view"
  OBVIOUS
<1>1. "view" \notin DOMAIN ModelsOf
  BY DEF ModelsOf
<1>2. CASE \E c \in DOMAIN ModelsOf : m \in ModelsOf[c]
  <2>1. (CHOOSE c \in DOMAIN ModelsOf : m \in ModelsOf[c]) \in DOMAIN ModelsOf
    BY <1>2
  <2> QED
    BY <1>1, <1>2, <2>1 DEF CapabilityOf
<1>3. CASE ~ \E c \in DOMAIN ModelsOf : m \in ModelsOf[c]
  BY <1>3 DEF CapabilityOf
<1> QED
  BY <1>2, <1>3

\* Who is let through has a grant that holds all it takes.
LEMMA AllowedIsGranted ==
  ASSUME AccessTypeOK, ProfilesAreBacked, NEW u \in Users \ Superusers, NEW m, NEW e \in Events,
         Allowed(u, m, e)
  PROVE  \E g \in granted[u] :
           /\ RoleCapabilities[g.role] \intersect {"*", CapabilityOf(m)} # {}
           /\ g.role = "super_admin" \/ m \in Unscoped \/ g.org = OrgOf[e]
<1>1. /\ HasProfile(u)
      /\ RoleCapabilities[profile[u].role] \intersect {"*", CapabilityOf(m)} # {}
  BY DEF Allowed, HasCapability
<1>2. profile[u].role # "viewer"
  <2>1. RoleCapabilities["viewer"] = {"view"}
    BY DEF RoleCapabilities
  <2>2. CapabilityOf(m) # "view"
    BY ViewersDoNothing
  <2> QED
    BY <1>1, <2>1, <2>2
<1>3. PICK g \in granted[u] : g.role = profile[u].role /\ g.org = profile[u].org
  BY <1>1, <1>2 DEF ProfilesAreBacked, Backed, RoleOf, NewProfile
<1>4. profile[u].role = "super_admin" \/ m \in Unscoped \/ profile[u].org = OrgOf[e]
  BY DEF Allowed, ScopedEvents, SeesAll, OwnEvents
<1> QED
  BY <1>1, <1>3, <1>4

\* A server that is acting was so before, or has just been let through.
LEMMA ActingBegins ==
  ASSUME AccessTypeOK, [AccessNext]_accessVars, NEW s \in Servers, req'[s].pc = "acting"
  PROVE  \/ req'[s] = req[s]
         \/ Allowed(req'[s].user, req'[s].model, req'[s].event)
<1>1. ASSUME NEW v \in Servers, NEW r, Serve(v, r), r.pc # "acting"
      PROVE  req'[s] = req[s]
  BY <1>1, ServeOne
<1>2. ASSUME NEW v \in Servers, NEW u \in Users, NEW m \in Models, NEW e \in Events,
             Begin(v, u, m, e)
      PROVE  \/ req'[s] = req[s]
             \/ Allowed(req'[s].user, req'[s].model, req'[s].event)
  BY <1>2, ServeOne DEF Begin
<1>3. ASSUME NEW v \in Servers, NEW a \in Users, NEW u \in Managed, NEW g \in Grants,
             CreateUser(v, a, u, g) \/ LoadUser(v, a, u, g) \/ LoadProfile(v, a, u, g)
      PROVE  req'[s] = req[s]
  BY <1>1, <1>3 DEF CreateUser, LoadUser, LoadProfile
<1>4. ASSUME NEW v \in Servers, NEW a \in Users, NEW u \in Managed, LoadRewrite(v, a, u)
      PROVE  req'[s] = req[s]
  BY <1>1, <1>4 DEF LoadRewrite
<1>5. ASSUME NEW v \in Servers, MakeProfile(v) \/ SaveRole(v) \/ SaveEvents(v)
      PROVE  req'[s] = req[s]
  <2>1. req[v] \in SavingGrant
    BY <1>5, HeldShape DEF MakeProfile, SaveRole, SaveEvents
  <2>2. /\ [req[v] EXCEPT !.pc = "role"].pc # "acting"
        /\ [req[v] EXCEPT !.pc = "events", !.gone = FALSE].pc # "acting"
        /\ [req[v] EXCEPT !.pc = "active"].pc # "acting"
        /\ Free.pc # "acting"
    BY <2>1 DEF SavingGrant, Free
  <2> QED
    BY <1>1, <1>5, <2>2 DEF MakeProfile, SaveRole, SaveEvents
<1>6. ASSUME NEW v \in Servers, SaveActive(v) \/ SaveRewrite(v) \/ Act(v) \/ Drop(v)
      PROVE  req'[s] = req[s]
  <2>1. Serve(v, Free) /\ Free.pc # "acting"
    BY <1>6 DEF SaveActive, SaveRewrite, Act, Drop, Free
  <2> QED
    BY <1>1, <2>1
<1>7. ASSUME NEW v \in Servers, NEW u \in Users, FirstRequest(v, u)
      PROVE  req'[s] = req[s]
  BY <1>7 DEF FirstRequest
<1>8. ASSUME NEW v \in Servers, NEW a \in Users, NEW u \in Managed, DeleteProfile(v, a, u)
      PROVE  req'[s] = req[s]
  <2>1. CASE req[s].pc \in {"role", "events", "active"}
    <3>1. req[s] \in SavingGrant
      BY <2>1, HeldShape
    <3> QED
      BY <1>8, <2>1, <3>1 DEF DeleteProfile, SavingGrant
  <2>2. CASE req[s].pc = "rewrite"
    <3>1. req[s] \in RewritingProfile
      BY <2>2, HeldShape
    <3> QED
      BY <1>8, <2>2, <3>1 DEF DeleteProfile, RewritingProfile
  <2>3. CASE req[s].pc \notin {"role", "events", "active", "rewrite"}
    BY <1>8, <2>3 DEF DeleteProfile
  <2> QED
    BY <2>1, <2>2, <2>3
<1>9. CASE UNCHANGED accessVars
  BY <1>9 DEF accessVars
<1> QED
  BY <1>2, <1>3, <1>4, <1>5, <1>6, <1>7, <1>8, <1>9 DEF AccessNext, AccessNextOf, Administer

LEMMA ActsStep ==
  ASSUME AccessTypeOK, AccessTypeOK', ProfilesAreBacked, ActsAreGranted, [AccessNext]_accessVars
  PROVE  ActsAreGranted'
<1> DEFINE Covered(G, r) == \E g \in G :
             /\ RoleCapabilities[g.role] \intersect {"*", CapabilityOf(r.model)} # {}
             /\ g.role = "super_admin" \/ r.model \in Unscoped \/ g.org = OrgOf[r.event]
<1> SUFFICES ASSUME NEW s \in Servers, req'[s].pc = "acting", req'[s].user \notin Superusers
             PROVE  Covered(granted'[req'[s].user], req'[s])
  BY DEF ActsAreGranted
<1>1. req'[s].user \in Users /\ req'[s].event \in Events
  <2>1. req'[s] \in {Free} \union SavingGrant \union RewritingProfile \union ActingStaff
    BY DEF AccessTypeOK
  <2> QED
    BY <2>1 DEF Free, SavingGrant, RewritingProfile, ActingStaff
<1>2. granted[req'[s].user] \subseteq granted'[req'[s].user]
  BY <1>1, GrantsGrow
<1>3. Covered(granted[req'[s].user], req'[s])
  <2>1. CASE req'[s] = req[s]
    BY <2>1 DEF ActsAreGranted
  <2>2. CASE Allowed(req'[s].user, req'[s].model, req'[s].event)
    BY <1>1, <2>2, AllowedIsGranted
  <2> QED
    BY <2>1, <2>2, ActingBegins
<1> QED
  BY <1>2, <1>3

\* Whoever got past the gates of EventOSPermission and scope_queryset was granted it in
\* one piece: a single grant holds the capability and the organization.  A profile is at
\* any time a new one, which opens nothing, or has role and organization of one grant, and
\* what was granted while a request was judged stays granted until it acts.
THEOREM ActsAlwaysGranted == AccessSpec => []ActsAreGranted
<1>1. AccessInit => ProfilesAreBacked /\ ActsAreGranted
  <2>1. AccessInit => ActsAreGranted
    BY DEF AccessInit, ActsAreGranted, Free
  <2> QED
    BY <2>1, BackedInit
<1>2. AccessTypeOK /\ AccessTypeOK' /\ ProfilesAreBacked /\ ActsAreGranted
        /\ [AccessNext]_accessVars => ProfilesAreBacked' /\ ActsAreGranted'
  BY BackedStep, ActsStep
<1> QED
  BY <1>1, <1>2, AccessTypeCorrect, PTL DEF AccessSpec
-----------------------------------------------------------------------------
\* How what was entered last, and who held the profile then, may change.
LEMMA GivenMoves ==
  ASSUME AccessTypeOK, [AccessNext]_accessVars, NEW u \in Users
  PROVE  \/ given'[u] = given[u] /\ (u \in contested <=> u \in contested')
         \/ given'[u] = NoProfile
         \/ \E s \in Servers :
              /\ SaveRole(s) /\ req[s].user = u
              /\ given'[u] = RoleOf(req[s].grant)
              /\ profile'[u] = Saved(u, req[s].grant)
              /\ u \notin contested' => Rewriters(u) = {}
<1> DEFINE Kept == given' = given /\ contested' = contested
<1>1. ASSUME NEW s \in Servers, NEW a \in Users, NEW v \in Managed, NEW g \in Grants,
             CreateUser(s, a, v, g) \/ LoadUser(s, a, v, g) \/ LoadProfile(s, a, v, g)
      PROVE  Kept
  BY <1>1 DEF CreateUser, LoadUser, LoadProfile
<1>2. ASSUME NEW s \in Servers, NEW a \in Users, NEW v \in Managed, LoadRewrite(s, a, v)
      PROVE  Kept
  BY <1>2 DEF LoadRewrite
<1>3. ASSUME NEW s \in Servers, NEW v \in Users, NEW m \in Models, NEW e \in Events,
             Begin(s, v, m, e)
      PROVE  Kept
  BY <1>3 DEF Begin
<1>4. ASSUME NEW s \in Servers, SaveActive(s) \/ Act(s) \/ Drop(s)
      PROVE  Kept
  BY <1>4 DEF SaveActive, Act, Drop
<1>5. ASSUME NEW s \in Servers, MakeProfile(s) \/ SaveEvents(s) \/ SaveRewrite(s)
      PROVE  Kept
  BY <1>5 DEF MakeProfile, SaveEvents, SaveRewrite
<1>6. ASSUME NEW s \in Servers, NEW v \in Users, FirstRequest(s, v)
      PROVE  Kept
  BY <1>6 DEF FirstRequest
<1>7. ASSUME NEW s \in Servers, NEW a \in Users, NEW v \in Managed, DeleteProfile(s, a, v)
      PROVE  /\ given'[u] = given[u] \/ given'[u] = NoProfile
             /\ contested' = contested
  BY <1>7 DEF AccessTypeOK, DeleteProfile
<1>8. ASSUME NEW s \in Servers, SaveRole(s)
      PROVE  \/ given'[u] = given[u] /\ (u \in contested <=> u \in contested')
             \/ /\ req[s].user = u
                /\ given'[u] = RoleOf(req[s].grant)
                /\ profile'[u] = Saved(u, req[s].grant)
                /\ u \notin contested' => Rewriters(u) = {}
  BY <1>8 DEF AccessTypeOK, SaveRole
<1>9. CASE UNCHANGED accessVars
  BY <1>9 DEF accessVars
<1> QED
  BY <1>1, <1>2, <1>3, <1>4, <1>5, <1>6, <1>7, <1>8, <1>9
     DEF AccessNext, AccessNextOf, Administer

LEMMA RewritesInit == AccessInit => RewritesAgree
  BY DEF AccessInit, RewritesAgree

LEMMA RewritesStep ==
  ASSUME AccessTypeOK, RewritesAgree, [AccessNext]_accessVars
  PROVE  RewritesAgree'
<1> SUFFICES ASSUME NEW u \in Users, given'[u] # NoProfile
             PROVE  /\ profile'[u] # NoProfile
                    /\ u \notin contested' =>
                         /\ RoleOf(profile'[u]) = given'[u]
                         /\ \A s \in Servers : req'[s].pc = "rewrite" /\ req'[s].user = u
                                              => RoleOf(req'[s]) = given'[u]
  BY DEF RewritesAgree, HasProfile, Rewriters, RoleOf
<1>1. ASSUME NEW t \in Servers, SaveRole(t), req[t].user = u,
             given'[u] = RoleOf(req[t].grant), profile'[u] = Saved(u, req[t].grant),
             u \notin contested' => Rewriters(u) = {}
      PROVE  /\ profile'[u] # NoProfile
             /\ u \notin contested' =>
                  /\ RoleOf(profile'[u]) = given'[u]
                  /\ \A s \in Servers : req'[s].pc = "rewrite" /\ req'[s].user = u
                                       => RoleOf(req'[s]) = given'[u]
  <2>1. req[t] \in SavingGrant /\ req[t].grant \in Grants
    BY <1>1, HeldShape DEF SaveRole, SavingGrant
  <2>2. profile'[u] \in Profile /\ RoleOf(profile'[u]) = given'[u]
    BY <1>1, <2>1, SavedTyped, GrantFields
  <2>3. req'[t].pc = "events"
    <3>1. req'[t] = [req[t] EXCEPT !.pc = "events", !.gone = FALSE]
      BY <1>1, ServeOne DEF SaveRole
    <3> QED
      BY <2>1, <3>1 DEF SavingGrant
  <2>4. \A s \in Servers : s # t => req'[s] = req[s]
    BY <1>1, ServeOne DEF SaveRole
  <2>5. u \notin contested' => \A s \in Servers : req[s].pc = "rewrite" => req[s].user # u
    BY <1>1 DEF Rewriters
  <2>6. u \notin contested' => \A s \in Servers : req'[s].pc = "rewrite" => req'[s].user # u
    BY <2>3, <2>4, <2>5
  <2> QED
    BY <2>2, <2>6, ProfilesArePresent
<1>2. CASE /\ given'[u] = given[u] /\ (u \in contested <=> u \in contested')
           /\ ~ \E t \in Servers : /\ SaveRole(t) /\ req[t].user = u
                                /\ profile'[u] = Saved(u, req[t].grant)
  <2>1. HasProfile(u)
    BY <1>2 DEF RewritesAgree
  <2>2. u \notin contested => /\ RoleOf(profile[u]) = given[u]
                             /\ \A s \in Servers : req[s].pc = "rewrite" /\ req[s].user = u
                                                  => RoleOf(req[s]) = given[u]
    BY <1>2 DEF RewritesAgree, Rewriters
  <2>3. ASSUME NEW t \in Servers, SaveEvents(t), req[t].user = u,
               profile'[u] = [profile[u] EXCEPT !.events = req[t].grant.events]
        PROVE  profile'[u] \in Profile /\ RoleOf(profile'[u]) = RoleOf(profile[u])
    <3>1. profile[u] \in [role: Roles, org: Organizations \union {None}, events: SUBSET Events]
      BY <2>1, ProfileFields DEF Profile
    <3>2. req[t].grant.events \in SUBSET Events
      BY <2>3, HeldShape, GrantFields DEF SaveEvents, SavingGrant
    <3> QED
      BY <2>3, <3>1, <3>2 DEF Profile, RoleOf
  <2>4. ASSUME NEW t \in Servers, SaveRewrite(t), req[t].user = u,
               profile'[u] = Saved(u, req[t])
        PROVE  /\ profile'[u] \in Profile
               /\ RoleOf(profile'[u]) = RoleOf(req[t]) /\ req[t].pc = "rewrite"
    <3>1. req[t] \in RewritingProfile /\ req[t].pc = "rewrite"
      BY <2>4, HeldShape DEF SaveRewrite
    <3> QED
      BY <2>4, <3>1, SavedTyped DEF RewritingProfile
  <2>5. /\ profile'[u] # NoProfile
        /\ u \notin contested => RoleOf(profile'[u]) = given[u]
    <3>1. CASE profile'[u] = profile[u]
      BY <2>1, <2>2, <3>1 DEF HasProfile
    <3>2. CASE \E t \in Servers : SaveEvents(t) /\ req[t].user = u /\ ~req[t].gone
                   /\ profile'[u] = [profile[u] EXCEPT !.events = req[t].grant.events]
      BY <2>2, <2>3, <3>2, ProfilesArePresent
    <3>3. CASE \E t \in Servers : SaveRewrite(t) /\ req[t].user = u
                   /\ profile'[u] = Saved(u, req[t])
      BY <2>2, <2>4, <3>3, ProfilesArePresent
    <3> QED
      BY <1>2, <2>1, <3>1, <3>2, <3>3, ProfileMoves
  <2>6. ASSUME u \notin contested, NEW s \in Servers, req'[s].pc = "rewrite", req'[s].user = u
        PROVE  RoleOf(req'[s]) = given[u]
    BY <2>2, <2>6, RequestMoves
  <2> QED
    BY <1>2, <2>5, <2>6
<1>3. ASSUME NEW t \in Servers, SaveRole(t), req[t].user = u
      PROVE  given'[u] = RoleOf(req[t].grant) /\ (u \notin contested' => Rewriters(u) = {})
  BY <1>3 DEF AccessTypeOK, SaveRole
<1>4. CASE \E t \in Servers : /\ SaveRole(t) /\ req[t].user = u
                             /\ profile'[u] = Saved(u, req[t].grant)
  BY <1>1, <1>3, <1>4
<1>5. CASE ~ \E t \in Servers : /\ SaveRole(t) /\ req[t].user = u
                               /\ profile'[u] = Saved(u, req[t].grant)
  <2>1. given'[u] = given[u] /\ (u \in contested <=> u \in contested')
    BY <1>5, GivenMoves
  <2> QED
    BY <1>2, <1>5, <2>1
<1> QED
  BY <1>4, <1>5

\* The role and organization entered last stand, unless a REST write of something else
\* held the profile at that moment and saves them as they were.
THEOREM RolesAlwaysStand == AccessSpec => []RolesStand
<1>1. AccessInit => RewritesAgree
  BY RewritesInit
<1>2. AccessTypeOK /\ RewritesAgree /\ [AccessNext]_accessVars => RewritesAgree'
  BY RewritesStep
<1>3. RewritesAgree => RolesStand
  BY DEF RewritesAgree, RolesStand
<1> QED
  BY <1>1, <1>2, <1>3, AccessTypeCorrect, PTL DEF AccessSpec

\* Whoever is moved to another organization leaves the events of the old one with the
\* first write, even if the request dies before it replaces the assigned events.
THEOREM MoversAlwaysLeave == AccessSpec => []MoversLeave
<1>1. RolesStand => MoversLeave
  <2> SUFFICES ASSUME RolesStand, NEW u \in Users \ contested, given[u] # NoProfile,
                      HasProfile(u), ~SeesAll(u), NEW e \in ScopedEvents(u)
               PROVE  OrgOf[e] = given[u].org
    BY DEF MoversLeave
  <2>1. OrgOf[e] = profile[u].org
    BY DEF ScopedEvents, OwnEvents
  <2>2. profile[u].org = given[u].org
    <3>1. RoleOf(profile[u]) = given[u]
      BY DEF RolesStand
    <3>2. RoleOf(profile[u]).org = profile[u].org
      BY DEF RoleOf
    <3> QED
      BY <3>1, <3>2
  <2> QED
    BY <2>1, <2>2
<1> QED
  BY <1>1, RolesAlwaysStand, PTL
-----------------------------------------------------------------------------
\* What a user may do depends on his own account and profile only.
LEMMA AllowedStays ==
  ASSUME NEW u \in Users, NEW m, NEW e,
         account'[u] = account[u], profile'[u] = profile[u]
  PROVE  Allowed(u, m, e)' <=> Allowed(u, m, e)
  BY DEF Allowed, HasProfile, HasCapability, ScopedEvents, CanAccess, OwnEvents,
         AssignedEvents, SeesAll

LEMMA LapsedFinite ==
  ASSUME NEW S \in SUBSET Servers
  PROVE  /\ IsFiniteSet(S) /\ Cardinality(S) \in Nat /\ Cardinality(Servers) \in Nat
         /\ Cardinality(S) <= Cardinality(Servers)
         /\ \A s \in Servers : s \notin S => Cardinality(S) < Cardinality(Servers)
<1>1. IsFiniteSet(S)
  BY FS_Subset
<1>2. Cardinality(S) \in Nat /\ Cardinality(Servers) \in Nat
  BY <1>1, FS_CardinalityType
<1>3. Cardinality(S) <= Cardinality(Servers)
  BY FS_Subset
<1>4. ASSUME NEW s \in Servers, s \notin S
      PROVE  Cardinality(S) < Cardinality(Servers)
  <2>1. S \in SUBSET Servers /\ S # Servers
    BY <1>4
  <2> QED
    BY <1>2, <1>3, <2>1, FS_Subset
<1> QED
  BY <1>1, <1>2, <1>3, <1>4

\* A request that does not begin to act, or is allowed to, adds nothing to the lapsed ones.
LEMMA LapsedShrinks ==
  ASSUME NEW u \in Users, account'[u] = account[u], profile'[u] = profile[u],
         \A s \in Servers : \/ req'[s] = req[s] \/ req'[s].pc # "acting"
                            \/ Allowed(req'[s].user, req'[s].model, req'[s].event)
  PROVE  Lapsed(u)' \subseteq Lapsed(u)
<1> SUFFICES ASSUME NEW s \in Servers, req'[s].pc = "acting", req'[s].user = u,
                    ~Allowed(u, req[s].model, req[s].event)'
             PROVE  s \in Lapsed(u)
  BY DEF Lapsed
<1>1. ~Allowed(u, req'[s].model, req'[s].event)
  BY DEF Allowed, HasProfile, HasCapability, ScopedEvents, CanAccess, OwnEvents,
         AssignedEvents, SeesAll
<1>2. req'[s] = req[s]
  BY <1>1
<1> QED
  BY <1>1, <1>2 DEF Lapsed

\* Whatever leaves a user's account, profile and late acts alone.
LEMMA QuietStep ==
  ASSUME AccessTypeOK, ActsAndLapsed, lateActs' \in [Users -> Nat],
         NEW u \in Users, account'[u] = account[u], profile'[u] = profile[u],
         lateActs'[u] = lateActs[u],
         \A s \in Servers : \/ req'[s] = req[s] \/ req'[s].pc # "acting"
                            \/ Allowed(req'[s].user, req'[s].model, req'[s].event)
  PROVE  lateActs'[u] + Cardinality(Lapsed(u)') < Cardinality(Servers)
<1>1. Lapsed(u)' \subseteq Lapsed(u)
  BY LapsedShrinks
<1>2. Lapsed(u) \in SUBSET Servers
  BY DEF Lapsed
<1>3. Cardinality(Lapsed(u)') <= Cardinality(Lapsed(u))
  BY <1>1, <1>2, LapsedFinite, FS_Subset
<1>4. Cardinality(Lapsed(u)) \in Nat /\ Cardinality(Lapsed(u)') \in Nat
  BY <1>1, <1>2, LapsedFinite
<1> QED
  BY <1>3, <1>4, LapsedFinite DEF ActsAndLapsed, AccessTypeOK

\* Whatever changes a user on a server that is not acting afterwards.
LEMMA TouchingStep ==
  ASSUME AccessTypeOK, ActsAndLapsed, NEW v \in Users, Touched(v),
         NEW t \in Servers, req'[t].pc # "acting",
         \A u \in Users : u # v => account'[u] = account[u] /\ profile'[u] = profile[u],
         \A s \in Servers : req'[s] = req[s] \/ req'[s].pc # "acting"
  PROVE  ActsAndLapsed'
<1> SUFFICES ASSUME NEW u \in Users
             PROVE  lateActs'[u] + Cardinality(Lapsed(u)') < Cardinality(Servers)
  BY DEF ActsAndLapsed
<1>1. CASE u = v
  <2>1. lateActs'[u] = 0
    BY <1>1 DEF AccessTypeOK, Touched
  <2>2. Lapsed(u)' \in SUBSET Servers /\ t \notin Lapsed(u)'
    BY DEF Lapsed
  <2> QED
    BY <2>1, <2>2, LapsedFinite
<1>2. CASE u # v
  <2>1. lateActs'[u] = lateActs[u]
    BY <1>2 DEF AccessTypeOK, Touched
  <2>2. lateActs' \in [Users -> Nat]
    BY TouchedType
  <2> QED
    BY <1>2, <2>1, <2>2, QuietStep
<1> QED
  BY <1>1, <1>2

LEMMA LateInit == AccessInit => ActsAndLapsed
<1> SUFFICES ASSUME AccessInit, NEW u \in Users
             PROVE  lateActs[u] + Cardinality(Lapsed(u)) < Cardinality(Servers)
  BY DEF ActsAndLapsed
<1>1. lateActs[u] = 0 /\ Lapsed(u) = {}
  BY DEF AccessInit, Lapsed, Free
<1>2. PICK s \in Servers : TRUE
  OBVIOUS
<1> QED
  BY <1>1, <1>2, LapsedFinite

LEMMA LateStep ==
  ASSUME AccessTypeOK, AccessTypeOK', ActsAndLapsed, [AccessNext]_accessVars
  PROVE  ActsAndLapsed'
<1> DEFINE Bounded(u) == lateActs'[u] + Cardinality(Lapsed(u)') < Cardinality(Servers)
<1>1. ASSUME NEW s \in Servers, NEW a \in Users, NEW v \in Managed, NEW g \in Grants,
             CreateUser(s, a, v, g)
      PROVE  ActsAndLapsed'
  <2>1. /\ v \in Users /\ Touched(v) /\ req'[s].pc = "made"
        /\ \A u \in Users : u # v => account'[u] = account[u] /\ profile'[u] = profile[u]
        /\ \A t \in Servers : t # s => req'[t] = req[t]
    BY <1>1, ServeOne DEF AccessTypeOK, CreateUser
  <2> QED
    BY <2>1, TouchingStep
<1>2. ASSUME NEW s \in Servers, MakeProfile(s)
      PROVE  ActsAndLapsed'
  <2>1. req[s] \in SavingGrant
    BY <1>2, HeldShape DEF MakeProfile
  <2>2. req[s].user \in Users /\ req'[s].pc = "role"
    BY <1>2, <2>1, ServeOne DEF MakeProfile, SavingGrant
  <2>3. /\ Touched(req[s].user)
        /\ \A u \in Users : u # req[s].user => account'[u] = account[u] /\ profile'[u] = profile[u]
        /\ \A t \in Servers : t # s => req'[t] = req[t]
    BY <1>2, ServeOne DEF AccessTypeOK, MakeProfile
  <2> QED
    BY <2>2, <2>3, TouchingStep
<1>3. ASSUME NEW s \in Servers, NEW v \in Users, FirstRequest(s, v)
      PROVE  ActsAndLapsed'
  <2>1. /\ Touched(v) /\ req'[s].pc = "free"
        /\ \A u \in Users : u # v => account'[u] = account[u] /\ profile'[u] = profile[u]
        /\ \A t \in Servers : req'[t] = req[t]
    BY <1>3 DEF AccessTypeOK, FirstRequest, Free
  <2> QED
    BY <2>1, TouchingStep
<1>4. ASSUME NEW s \in Servers, NEW r, Serve(s, r),
             \/ r.pc # "acting" \/ Allowed(r.user, r.model, r.event),
             UNCHANGED <<account, profile, lateActs>>
      PROVE  ActsAndLapsed'
  <2> SUFFICES ASSUME NEW u \in Users PROVE Bounded(u)
    BY DEF ActsAndLapsed
  <2>1. \A t \in Servers : \/ req'[t] = req[t] \/ req'[t].pc # "acting"
                           \/ Allowed(req'[t].user, req'[t].model, req'[t].event)
    BY <1>4, ServeOne
  <2>2. lateActs' \in [Users -> Nat]
    BY <1>4 DEF AccessTypeOK
  <2> QED
    BY <1>4, <2>1, <2>2, QuietStep
<1>5. ASSUME NEW s \in Servers, NEW a \in Users, NEW v \in Managed, NEW g \in Grants,
             LoadUser(s, a, v, g) \/ LoadProfile(s, a, v, g)
      PROVE  ActsAndLapsed'
  BY <1>4, <1>5 DEF LoadUser, LoadProfile
<1>6. ASSUME NEW s \in Servers, NEW a \in Users, NEW v \in Managed, LoadRewrite(s, a, v)
      PROVE  ActsAndLapsed'
  BY <1>4, <1>6 DEF LoadRewrite
<1>7. ASSUME NEW s \in Servers, SaveRole(s)
      PROVE  ActsAndLapsed'
  <2>1. req[s] \in SavingGrant
    BY <1>7, HeldShape DEF SaveRole
  <2>2. req'[s] = [req[s] EXCEPT !.pc = "events", !.gone = FALSE]
    BY <1>7, ServeOne DEF SaveRole
  <2>3. req[s].user \in Users /\ req'[s].pc = "events"
    BY <2>1, <2>2 DEF SavingGrant
  <2>4. /\ Touched(req[s].user)
        /\ \A u \in Users : u # req[s].user => account'[u] = account[u] /\ profile'[u] = profile[u]
        /\ \A t \in Servers : t # s => req'[t] = req[t]
    BY <1>7, ServeOne DEF AccessTypeOK, SaveRole
  <2> QED
    BY <2>3, <2>4, TouchingStep
<1>8. ASSUME NEW s \in Servers, SaveEvents(s)
      PROVE  ActsAndLapsed'
  <2>1. req[s] \in SavingGrant
    BY <1>8, HeldShape DEF SaveEvents
  <2>2. req'[s] = IF req[s].form THEN [req[s] EXCEPT !.pc = "active"] ELSE Free
    BY <1>8, ServeOne DEF SaveEvents
  <2>3. req[s].user \in Users /\ req'[s].pc # "acting"
    BY <2>1, <2>2 DEF SavingGrant, Free
  <2>4. /\ Touched(req[s].user)
        /\ \A u \in Users : u # req[s].user => account'[u] = account[u] /\ profile'[u] = profile[u]
        /\ \A t \in Servers : t # s => req'[t] = req[t]
    BY <1>8, ServeOne DEF AccessTypeOK, SaveEvents
  <2> QED
    BY <2>3, <2>4, TouchingStep
<1>9. ASSUME NEW s \in Servers, SaveActive(s)
      PROVE  ActsAndLapsed'
  <2>1. req[s].user \in Users
    BY <1>9, HeldShape DEF SaveActive, SavingGrant
  <2>2. /\ Touched(req[s].user) /\ req'[s].pc = "free"
        /\ \A u \in Users : u # req[s].user => account'[u] = account[u] /\ profile'[u] = profile[u]
        /\ \A t \in Servers : t # s => req'[t] = req[t]
    BY <1>9, ServeOne DEF AccessTypeOK, SaveActive, Free
  <2> QED
    BY <2>1, <2>2, TouchingStep
<1>10. ASSUME NEW s \in Servers, SaveRewrite(s)
       PROVE  ActsAndLapsed'
  <2>1. req[s].user \in Users
    BY <1>10, HeldShape DEF SaveRewrite, RewritingProfile
  <2>2. /\ Touched(req[s].user) /\ req'[s].pc = "free"
        /\ \A u \in Users : u # req[s].user => account'[u] = account[u] /\ profile'[u] = profile[u]
        /\ \A t \in Servers : t # s => req'[t] = req[t]
    BY <1>10, ServeOne DEF AccessTypeOK, SaveRewrite, Free
  <2> QED
    BY <2>1, <2>2, TouchingStep
<1>11. ASSUME NEW s \in Servers, NEW a \in Users, NEW v \in Managed, DeleteProfile(s, a, v)
       PROVE  ActsAndLapsed'
  <2>1. \A t \in Servers : req'[t] = req[t] \/ req'[t].pc # "acting"
    <3> SUFFICES ASSUME NEW t \in Servers, req[t].pc \in {"role", "events", "active", "rewrite"}
                 PROVE  req'[t].pc # "acting"
      BY <1>11 DEF DeleteProfile
    <3>1. req'[t] = req[t] \/ req'[t] = [req[t] EXCEPT !.gone = TRUE]
      BY <1>11 DEF DeleteProfile
    <3>2. CASE req[t].pc = "rewrite"
      BY <3>1, <3>2, HeldShape DEF RewritingProfile
    <3>3. CASE req[t].pc # "rewrite"
      BY <3>1, <3>3, HeldShape DEF SavingGrant
    <3> QED
      BY <3>2, <3>3
  <2>2. req'[s].pc # "acting"
    BY <1>11 DEF DeleteProfile, Free
  <2>3. /\ v \in Users /\ Touched(v)
        /\ \A u \in Users : u # v => account'[u] = account[u] /\ profile'[u] = profile[u]
    BY <1>11 DEF AccessTypeOK, DeleteProfile
  <2> QED
    BY <2>1, <2>2, <2>3, TouchingStep
<1>12. ASSUME NEW s \in Servers, NEW u \in Users, NEW m \in Models, NEW e \in Events,
              Begin(s, u, m, e)
       PROVE  ActsAndLapsed'
  BY <1>4, <1>12 DEF Begin
<1>13. ASSUME NEW s \in Servers, Act(s)
       PROVE  ActsAndLapsed'
  <2>1. /\ req[s].pc = "acting" /\ req[s].user \in Users
        /\ req'[s].pc = "free" /\ \A t \in Servers : t # s => req'[t] = req[t]
        /\ UNCHANGED <<account, profile>>
    BY <1>13, ServeOne, HeldShape DEF Act, ActingStaff, Free
  <2>2. lateActs' \in [Users -> Nat]
    BY DEF AccessTypeOK
  <2> SUFFICES ASSUME NEW u \in Users PROVE Bounded(u)
    BY DEF ActsAndLapsed
  <2>3. CASE lateActs'[u] = lateActs[u]
    BY <2>1, <2>2, <2>3, QuietStep
  <2>4. CASE lateActs'[u] # lateActs[u]
    <3>1. /\ u = req[s].user /\ lateActs'[u] = lateActs[u] + 1
          /\ ~Allowed(u, req[s].model, req[s].event)
      BY <1>13, <2>1, <2>4 DEF AccessTypeOK, Act
    <3>2. s \in Lapsed(u) /\ s \notin Lapsed(u)'
      BY <2>1, <3>1 DEF Lapsed
    <3>3. Lapsed(u)' \subseteq Lapsed(u)
      BY <2>1, LapsedShrinks
    <3>4. IsFiniteSet(Lapsed(u)) /\ Cardinality(Lapsed(u)) \in Nat
      BY LapsedFinite DEF Lapsed
    <3>5. Cardinality(Lapsed(u) \ {s}) = Cardinality(Lapsed(u)) - 1
      BY <3>2, <3>4, FS_RemoveElement
    <3>6. /\ Cardinality(Lapsed(u)') <= Cardinality(Lapsed(u) \ {s})
          /\ Cardinality(Lapsed(u)') \in Nat
      <4>1. Lapsed(u)' \subseteq Lapsed(u) \ {s} /\ IsFiniteSet(Lapsed(u) \ {s})
        BY <3>2, <3>3, <3>4, FS_Subset
      <4> QED
        BY <4>1, FS_Subset, FS_CardinalityType
    <3>7. lateActs[u] \in Nat /\ Cardinality(Servers) \in Nat
      BY LapsedFinite DEF AccessTypeOK
    <3>8. lateActs[u] + Cardinality(Lapsed(u)) < Cardinality(Servers)
      BY DEF ActsAndLapsed
    <3> QED
      BY <3>1, <3>4, <3>5, <3>6, <3>7, <3>8
  <2> QED
    BY <2>3, <2>4
<1>14. ASSUME NEW s \in Servers, Drop(s)
       PROVE  ActsAndLapsed'
  <2>1. Serve(s, Free) /\ Free.pc # "acting" /\ UNCHANGED <<account, profile, lateActs>>
    BY <1>14 DEF Drop, Free
  <2> QED
    BY <1>4, <2>1
<1>15. CASE UNCHANGED accessVars
  <2> SUFFICES ASSUME NEW u \in Users PROVE Bounded(u)
    BY DEF ActsAndLapsed
  <2>1. lateActs' \in [Users -> Nat] /\ req' = req
    BY <1>15 DEF accessVars, AccessTypeOK
  <2> QED
    BY <1>15, <2>1, QuietStep DEF accessVars, AccessTypeOK
<1> QED
  BY <1>1, <1>2, <1>3, <1>5, <1>6, <1>7, <1>8, <1>9, <1>10, <1>11, <1>12, <1>13, <1>14,
     <1>15 DEF AccessNext, AccessNextOf, Administer

\* A change of a user takes effect at once but for the requests under way: at most one
\* act of each other server is still committed that the user may no longer do.
THEOREM LateActsBounded == AccessSpec => []LateActsAreBounded
<1>1. AccessInit => ActsAndLapsed
  BY LateInit
<1>2. AccessTypeOK /\ AccessTypeOK' /\ ActsAndLapsed /\ [AccessNext]_accessVars => ActsAndLapsed'
  BY LateStep
<1>3. AccessTypeOK /\ ActsAndLapsed => LateActsAreBounded
  <2> SUFFICES ASSUME AccessTypeOK, ActsAndLapsed, NEW u \in Users
               PROVE  lateActs[u] < Cardinality(Servers)
    BY DEF LateActsAreBounded
  <2>1. Cardinality(Lapsed(u)) \in Nat /\ Cardinality(Servers) \in Nat
    BY LapsedFinite DEF Lapsed
  <2> QED
    BY <2>1 DEF AccessTypeOK, ActsAndLapsed
<1> QED
  BY <1>1, <1>2, <1>3, AccessTypeCorrect, PTL DEF AccessSpec
=============================================================================
