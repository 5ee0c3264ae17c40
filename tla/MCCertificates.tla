---------------------------- MODULE MCCertificates ----------------------------
(* Instances of Certificates for TLC. *)
EXTENDS Certificates, TLC

\* Workers are interchangeable, and so are participants, primary keys and surveys.
Symmetry == Permutations(Workers) \union Permutations(Participants)
            \union Permutations(Ids) \union Permutations(Surveys)
=============================================================================
