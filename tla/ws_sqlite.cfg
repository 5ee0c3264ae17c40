SPECIFICATION OfficeSpec
CONSTANTS
  k1 = k1
  k2 = k2
  Titles = {k1, k2}
  Participants = {p1, p2}
  Workers = {w1, w2}
  Database = "sqlite"
  Capacity <- OneSeatEach
  WithWaitlist = {k1}
  Slots <- Overlapping
  Ops = {"enroll", "attend", "cancel", "delete"}
  MaxBypasses = 1
  p1 = p1
  p2 = p2
  root = root
  ann = ann
  o1 = o1
  o2 = o2
  e1 = e1
  e2 = e2
  e3 = e3
  b1 = b1
  d1 = d1
  l1 = l1
  Users = {root, ann}
  Superusers = {root}
  Managed = {ann}
  Organizations = {o1, o2}
  Events = {e1, e2, e3}
  OrgOf <- TwoOrganizations
  Grants <- ThreeGrants
  Models = {"CheckInLog", "Ticket"}
  Servers = {s1, s2}
  AccessOps = {"create", "update", "rest", "act"}
  People = {p1, p2}
  Broadcasts = {b1}
  Audience <- Both
  Letters = {l1}
  Diplomas = {d1}
  Addressee <- OneForEach
  Senders = {s1, s2}
  Configured = {s1}
  Movers = {p2}
  MaxRequests = 2
  Tickets = {t1}
  Reports = {r1}
  Answers = {"closed"}
  Clerks = {s1, s2}
  MaxReplies = 2
  Guests = {p1, p2}
  Contacts = {"h1", "h2"}
  Analysts = {s1, s2}
  Reporters = {s1}
  MaxWrites = 3
  MaxAdded = 1
INVARIANTS NoClash    RolesStand MoversLeave LogsTellTheTruth CopiesAreBounded SentIsComplete CountsAreBacked AnswersHaveReplies AnswersStand SnapshotsAddUp InsightsAreBounded
PROPERTIES AttendanceIsKept ScansGiveNoSeat ImplementsSeatPlan RequestsEnd
CHECK_DEADLOCK FALSE
