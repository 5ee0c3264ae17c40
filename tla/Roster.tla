-------------------------------- MODULE Roster --------------------------------
(***************************************************************************)
(* What registration for an event promises, without requests, rows or      *)
(* databases: whoever signs up is new, finds the doors open, and has a     *)
(* seat if one is free and a place on the waitlist if none is, all of it   *)
(* at one moment.  A sheet brings in people who are new as well.  The      *)
(* administration may write anybody down, correct or remove entries, and   *)
(* open and close the doors at any time, but not change how somebody came  *)
(* in.                                                                     *)
(***************************************************************************)
EXTENDS Naturals, FiniteSets

CONSTANTS Places, Identities, Capacity, Nobody
VARIABLES
  who,   \* who is at each place of the list, or Nobody
  how,   \* how each place was filled first, or "none"
  doors  \* which of the doors are open

rosterVars == <<who, how, doors>>

Listed   == {n \in Places : who[n] # Nobody}
Known(i) == \E n \in Listed : who[n] = i
Full     == Capacity > 0 /\ Cardinality(Listed) >= Capacity

RosterInit ==
  /\ who = [n \in Places |-> Nobody]
  /\ how = [n \in Places |-> "none"]
  /\ doors \subseteq {"public_registration", "form", "waitlist"}

Fill(n, i, entry) ==
  /\ how[n] = "none"
  /\ who' = [who EXCEPT ![n] = i]
  /\ how' = [how EXCEPT ![n] = entry]
  /\ UNCHANGED doors

SignUp(n, i) ==
  /\ {"public_registration", "form"} \subseteq doors
  /\ ~Known(i)
  /\ Full => "waitlist" \in doors
  /\ Fill(n, i, IF Full THEN "waitlist" ELSE "seat")

WriteDown(n, i) == Fill(n, i, "direct")

\* The places new are filled from a sheet, which names nobody twice.
BringIn(new) ==
  /\ \A n \in new : how[n] = "none" /\ who'[n] \in Identities /\ ~Known(who'[n])
  /\ \A m, n \in new : who'[m] = who'[n] => m = n
  /\ who' = [n \in Places |-> IF n \in new THEN who'[n] ELSE who[n]]
  /\ how' = [n \in Places |-> IF n \in new THEN "import" ELSE how[n]]
  /\ UNCHANGED doors

Correct(n, i) ==
  /\ how[n] # "none"
  /\ who' = [who EXCEPT ![n] = i]
  /\ UNCHANGED <<how, doors>>

Remove(n) ==
  /\ who' = [who EXCEPT ![n] = Nobody]
  /\ UNCHANGED <<how, doors>>

OpenAndClose ==
  /\ doors' \subseteq {"public_registration", "form", "waitlist"}
  /\ UNCHANGED <<who, how>>

RosterNext ==
  \/ \E n \in Places, i \in Identities : SignUp(n, i) \/ WriteDown(n, i) \/ Correct(n, i)
  \/ \E new \in SUBSET Places : BringIn(new)
  \/ \E n \in Places : Remove(n)
  \/ OpenAndClose

RosterSpec == RosterInit /\ [][RosterNext]_rosterVars
=============================================================================
