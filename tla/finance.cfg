SPECIFICATION Spec
CONSTANTS
  Participants = {p1}
  Tickets = {t1, t2, t3}
  Invoices = {i1, i2, i3}
  Workers = {w1, w2}
  MaxUses = 2
  FullDiscount = FALSE
  Entries = {"pending", "paid"}
  Ops = {"issue", "invoice", "payment", "refund", "cancel", "reissue", "delete"}
  MaxEntered = 1
SYMMETRY Symmetry
INVARIANTS DiscountsAreBounded DuplicatesAreBounded NumbersAreReal EntriesStand
