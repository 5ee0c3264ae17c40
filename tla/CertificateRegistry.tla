-------------------------- MODULE CertificateRegistry --------------------------
(***************************************************************************)
(* What the issue of certificates promises, without requests, rows or      *)
(* databases: a participant who is not barred gets a certificate with a    *)
(* number of its own; whoever has one already gets the same number again,  *)
(* valid once more.  Withdrawing and destroying may happen at any time.    *)
(***************************************************************************)
CONSTANTS Participants, Numbers
VARIABLES
  papers,  \* the certificates there are: pairs of a participant and a number
  valid,   \* those of them that are valid
  barred   \* who must not get one

registryVars == <<papers, valid, barred>>

RegistryInit == papers = {} /\ valid = {} /\ barred \in SUBSET Participants

Issue(p, n) ==
  /\ p \notin barred
  /\ <<p, n>> \in papers \/ \A m \in Numbers : <<p, m>> \notin papers
  /\ \A q \in Participants \ {p} : <<q, n>> \notin papers
  /\ papers' = papers \union {<<p, n>>}
  /\ valid' = valid \union {<<p, n>>}
  /\ UNCHANGED barred

Withdraw(x) == valid' = valid \ {x} /\ UNCHANGED <<papers, barred>>

Destroy(x) == papers' = papers \ {x} /\ valid' = valid \ {x} /\ UNCHANGED barred

Bar == barred' \in SUBSET Participants /\ UNCHANGED <<papers, valid>>

RegistryNext ==
  \/ \E p \in Participants, n \in Numbers : Issue(p, n)
  \/ \E x \in papers : Withdraw(x) \/ Destroy(x)
  \/ Bar

RegistrySpec == RegistryInit /\ [][RegistryNext]_registryVars

\* What a registry is for: a participant has one certificate, a number names one, and
\* only a certificate there is can be valid.
RegistryIsSound ==
  /\ \A x, y \in papers : x[1] = y[1] \/ x[2] = y[2] => x = y
  /\ valid \subseteq papers
=============================================================================
