SPECIFICATION Spec
CONSTANTS
  k1 = k1
  k2 = k2
  Titles = {k1}
  Participants = {p1, p2, p3, p4}
  Workers = {w1, w2}
  Database = "postgresql"
  Capacity <- OneSeatK1
  WithWaitlist = {k1}
  Slots <- Overlapping
  Ops = {"enroll", "attend", "rest", "delete", "reschedule"}
  MaxBypasses = 1
SYMMETRY Symmetry
INVARIANTS SeatsAreBounded
