SPECIFICATION Spec
CONSTANTS
  Participants = {p1}
  Workers = {w1, w2, w3}
  Database = "postgresql"
  PreventDuplicate = TRUE
  Ops = {"checkin", "checkout", "review", "edit", "violation"}
  ReviewActions = {"approve"}
  EditStatuses = {"approved"}
  MaxScans = 7
  MaxErasures = 1
SYMMETRY Symmetry
INVARIANTS AdmissionIsLogged AdmissionsBounded
