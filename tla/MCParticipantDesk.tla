-------------------------- MODULE MCParticipantDesk --------------------------
(* Instances of ParticipantDesk for TLC. *)
EXTENDS ParticipantDesk, TLC

\* Workers are interchangeable, and so are participants.
Symmetry == Permutations(Workers) \union Permutations(Participants)
=============================================================================
