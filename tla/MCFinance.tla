------------------------------ MODULE MCFinance -------------------------------
(* An instance of Finance for TLC. *)
EXTENDS Finance, TLC

Symmetry == Permutations(Workers) \union Permutations(Participants)
            \union Permutations(Tickets) \union Permutations(Invoices)
=============================================================================
