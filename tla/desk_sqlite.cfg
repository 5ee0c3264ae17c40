SPECIFICATION Spec
CONSTANTS
  Participants = {p1}
  Workers = {w1, w2, w3}
  Database = "sqlite"
  PreventDuplicate = TRUE
  Ops = {"checkin", "checkout", "review", "bulk_review", "patch", "violation", "delete"}
  ReviewActions = {"approve", "ban"}
  EditStatuses = {"approved"}
  MaxScans = 3
  MaxErasures = 1
SYMMETRY Symmetry
INVARIANT ReAdmissionNeedsErasure
PROPERTIES BannedNotAdmitted OnlyFullSaveClearsFlags DeskIsADoor
