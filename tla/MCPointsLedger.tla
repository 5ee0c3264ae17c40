---------------------------- MODULE MCPointsLedger ----------------------------
(* An instance of PointsLedger for TLC. *)
EXTENDS PointsLedger, TLC

CONSTANTS silver, gold

\* One badge for two awards, one for showing up.
MCRequired == (silver :> 0) @@ (gold :> 2)

Symmetry == Permutations(Workers) \union Permutations(Participants)
=============================================================================
