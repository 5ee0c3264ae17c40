SPECIFICATION Spec
CONSTANTS
  Ids = {n1, n2, n3}
  Phones = {t1}
  Emails = {e1, e2}
  Workers = {w1, w2}
  Database = "sqlite"
  Capacity = 1
  Ops = {"register", "import", "create", "edit", "delete", "modules", "form"}
  MaxRevivals = 1
SYMMETRY Symmetry
INVARIANT SeatsAreExact
PROPERTIES NoDuplicateRegistration ImplementsRoster
