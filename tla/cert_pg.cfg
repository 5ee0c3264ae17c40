SPECIFICATION Spec
CONSTANTS
  Participants = {p1}
  Ids = {c1, c2, c3}
  Cases = {v1}
  Surveys = {s1}
  Workers = {w1, w2}
  Database = "postgresql"
  EventDays = 1
  MinPercent = 50
  FeedbackNeeded = FALSE
  Ops = {"issue", "cancel", "delete", "rest_create", "rest_update", "violation", "edit"}
  MaxBypasses = 1
SYMMETRY Symmetry
INVARIANTS CertificatesAreBounded BlockingDrains
