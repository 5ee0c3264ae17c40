--------------------------- MODULE MCRegistration ---------------------------
(* Instances of Registration for TLC. *)
EXTENDS Registration, TLC

\* Workers, primary keys, phone numbers and addresses are interchangeable.
Symmetry == Permutations(Workers) \union Permutations(Ids)
            \union Permutations(Phones) \union Permutations(Emails)
=============================================================================
