SPECIFICATION Spec
CONSTANTS
  Participants = {p1}
  Workers = {w1, w2}
  Database = "sqlite"
  PreventDuplicate = TRUE
  Ops = {"checkin"}
  ReviewActions = {"approve"}
  EditStatuses = {"approved"}
  MaxScans = 3
  MaxErasures = 1
INVARIANT RefusalsAreLogged
