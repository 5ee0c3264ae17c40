SPECIFICATION Spec
CONSTANTS
  silver = silver
  gold = gold
  Participants = {p1}
  Badges = {silver, gold}
  Required <- MCRequired
  Workers = {w1, w2, w3}
  Awards = {1}
  MaxAward = 1
  Penalties = {1}
  Ops = {"manual", "scan", "violation", "save_badge", "rest_badge", "give_badge", "revoke_badge", "rest_points"}
  Low = 0
  High = 2
SYMMETRY Symmetry
INVARIANTS MissesAreBounded BadgesAreEarned
