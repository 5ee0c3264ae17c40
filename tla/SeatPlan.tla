------------------------------- MODULE SeatPlan -------------------------------
(***************************************************************************)
(* What enrolment in workshops promises, without requests, rows, waitlists *)
(* or databases: a seat is taken only while one is free and only by        *)
(* somebody who is free at that time; seats may be given up at any moment. *)
(***************************************************************************)
EXTENDS Naturals, FiniteSets

CONSTANTS Titles, Participants, Capacity
VARIABLES
  held,  \* the seats that are taken: pairs of a workshop and a participant
  times  \* when each workshop takes place

planVars == <<held, times>>

Free(k) == Capacity[k] = 0 \/ Cardinality({x \in held : x[1] = k}) < Capacity[k]
FreeAt(p, hours) == \A x \in held : x[2] = p => times[x[1]] \intersect hours = {}

PlanInit == held = {}

Take(x) ==
  /\ x \notin held
  /\ Free(x[1])
  /\ FreeAt(x[2], times[x[1]])
  /\ held' = held \union {x}
  /\ UNCHANGED times

GiveUp(x) ==
  /\ held' = held \ {x}
  /\ UNCHANGED times

PlanNext == \E x \in Titles \X Participants : Take(x) \/ GiveUp(x)
PlanSpec == PlanInit /\ [][PlanNext]_planVars

\* What a seat plan is for: no workshop is overfull, and nobody has seats in two
\* workshops that take place at one time.
PlanIsSound ==
  /\ \A k \in Titles :
       Capacity[k] > 0 => Cardinality({x \in held : x[1] = k}) <= Capacity[k]
  /\ \A x, y \in held :
       x # y /\ x[2] = y[2] => times[x[1]] \intersect times[y[1]] = {}
=============================================================================
