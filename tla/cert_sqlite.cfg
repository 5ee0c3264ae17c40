SPECIFICATION Spec
CONSTANTS
  Participants = {p1}
  Ids = {c1, c2}
  Cases = {v1}
  Surveys = {s1}
  Workers = {w1, w2, w3}
  Database = "sqlite"
  EventDays = 2
  MinPercent = 100
  FeedbackNeeded = TRUE
  Ops = {"issue", "cancel", "delete", "violation", "case", "edit", "checkin", "feedback", "module"}
  MaxBypasses = 1
SYMMETRY Symmetry
INVARIANT OneCertificate
PROPERTY ImplementsRegistry
