----------------------------- MODULE MCWorkshops -----------------------------
(* Instances of Workshops for TLC. *)
EXTENDS Workshops, TLC

CONSTANTS k1, k2

\* One seat in each workshop, and one in the only one.
OneSeatEach == (k1 :> 1) @@ (k2 :> 1)
OneSeatK1   == k1 :> 1

\* Two times that overlap without being the same.
Overlapping == {{9, 10}, {10, 11}}

\* Workers are interchangeable, and so are participants.
Symmetry == Permutations(Workers) \union Permutations(Participants)
=============================================================================
