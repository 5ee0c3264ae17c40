SPECIFICATION Spec
CONSTANTS
  Ids = {n1, n2, n3}
  Phones = {t1}
  Emails = {e1, e2}
  Workers = {w1, w2}
  Database = "postgresql"
  Capacity = 1
  Ops = {"register", "edit", "delete", "flags", "update_event"}
  MaxRevivals = 1
SYMMETRY Symmetry
INVARIANTS OverbookingIsBounded ClosingDrains
