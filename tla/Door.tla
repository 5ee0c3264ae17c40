-------------------------------- MODULE Door --------------------------------
(***************************************************************************)
(* What the check-in desk promises, without requests, rows or databases:   *)
(* somebody is let in only while neither marked as already inside nor      *)
(* barred, and being let in and being marked are one indivisible step.     *)
(* The administration may change marks and bars at any time, but letting   *)
(* in is the desk's alone.                                                 *)
(***************************************************************************)
EXTENDS Naturals

CONSTANT Participants
VARIABLES
  entries,  \* how often each participant was let in
  marked,   \* who is marked as inside
  barred    \* who must not be let in

doorVars == <<entries, marked, barred>>

DoorInit ==
  /\ entries = [p \in Participants |-> 0]
  /\ marked = {}
  /\ barred \in SUBSET Participants

LetIn(p) ==
  /\ p \notin marked \union barred
  /\ entries' = [entries EXCEPT ![p] = @ + 1]
  /\ marked' = marked \union {p}
  /\ UNCHANGED barred

Administer ==
  /\ marked' \in SUBSET Participants
  /\ barred' \in SUBSET Participants
  /\ UNCHANGED entries

DoorNext == Administer \/ \E p \in Participants : LetIn(p)
DoorSpec == DoorInit /\ [][DoorNext]_doorVars
=============================================================================
