----------------------------- MODULE Certificates -----------------------------
(***************************************************************************)
(* The certificates of one type of one event: issue (the public page, the  *)
(* dashboard one by one or in bulk, reissue, REST; all through             *)
(* services.issue_certificate), cancellation, plain REST writes and        *)
(* deletes, against what makes a participant eligible: the certificates    *)
(* module, the participant's row, violations, attendance and feedback.     *)
(*                                                                         *)
(* A request loads the participant before the transaction of               *)
(* issue_certificate (a bulk issue loads all of them before the first).    *)
(* certificate_eligibility then takes the flags from that instance and     *)
(* everything else from the database.  The certificate is looked up and    *)
(* created or saved in the same transaction; no constraint of the schema   *)
(* makes a second one impossible.  What may fall between the steps is as   *)
(* in ParticipantDesk.                                                     *)
(*                                                                         *)
(* Templates, serial numbers, mails and the counters of downloads and      *)
(* mails decide nothing here and are left out.                             *)
(***************************************************************************)
EXTENDS Naturals, FiniteSets

CONSTANTS
  Participants,
  Ids,             \* primary keys of certificates; bound: as many as there are keys
  Cases,           \* violations a participant can have whose type blocks certificates
  Surveys,         \* surveys of the event
  Workers,         \* worker processes, one request each at a time
  Database,        \* "postgresql" or "sqlite"
  EventDays,       \* number of EventDay rows
  MinPercent,      \* event.min_attendance_percent_for_certificate
  FeedbackNeeded,  \* require_feedback_for_certificate, or an active survey asks for it
  Ops,             \* the kinds of request clients send
  MaxBypasses      \* bound: REST writes start only below this many certificates added by REST

VARIABLES
  certs,     \* the committed Certificate rows
  row,       \* of each committed Participant row: what eligibility reads of it
  days,      \* on how many days each participant has a successful check-in logged
  cases,     \* the status of each participant's violations, "none" where there is no row
  answered,  \* the SurveyResponse rows, by survey and participant
  enabled,   \* whether the certificates module is
  local,     \* what each worker holds of the request it is serving
  late,      \* history: issues to a participant since the last block
  bypasses   \* history: certificates of a participant that REST writes added or moved there

vars == <<certs, row, days, cases, answered, enabled, local, late, bypasses>>
facts == <<row, days, cases, answered, enabled>>
-----------------------------------------------------------------------------
Statuses == {"draft", "issued", "cancelled", "blocked"}

\* Whom a certificate names, or that it is of a participant, a type or an event which
\* is left out.
Elsewhere == "elsewhere"
Owners == Participants \union {Elsewhere}

Certificate == [who: Owners, status: Statuses]
NoCertificate == [absent |-> TRUE]

\* The statuses of a participant, as far as eligibility tells them apart.
Row == [eligible_status: BOOLEAN, certificate_blocked: BOOLEAN, checked_in: BOOLEAN]

CaseStatuses == {"open", "appealed", "resolved", "cancelled"}

AllOps == {"issue", "cancel", "delete", "rest_create", "rest_update", "violation", "case",
           "edit", "checkin", "feedback", "module"}

ASSUME CertificatesAssumption ==
  /\ Elsewhere \notin Participants
  /\ IsFiniteSet(Ids)
  /\ IsFiniteSet(Workers) /\ Workers # {}
  /\ Database \in {"postgresql", "sqlite"}
  /\ EventDays \in Nat /\ MinPercent \in Nat
  /\ FeedbackNeeded \in BOOLEAN
  /\ Ops \subseteq AllOps
  /\ MaxBypasses \in Nat

Idle      == [pc |-> "idle"]
Loaded    == [pc: {"loaded"}, who: Participants, row: Row]
\* issue_certificate past its checks; then past the lookup of the certificate.
Eligible  == [pc: {"eligible"}, who: Participants]
Creating  == [pc: {"creating"}, who: Participants]
Updating  == [pc: {"updating"}, who: Participants, cert: Ids]
\* A violation is recorded, the participant not flagged yet.
Flagging  == [pc: {"flagging"}, who: Participants]
\* A REST update that holds a certificate, and whom it will save it for.
Rewriting == [pc: {"rewriting"}, who: Owners, cert: Ids]

Request == {Idle} \union Loaded \union Eligible \union Creating \union Updating
           \union Flagging \union Rewriting

TypeOK ==
  /\ certs \in [Ids -> Certificate \union {NoCertificate}]
  /\ row \in [Participants -> Row]
  /\ days \in [Participants -> Nat]
  /\ cases \in [Participants -> [Cases -> CaseStatuses \union {"none"}]]
  /\ answered \subseteq Surveys \X Participants
  /\ enabled \in BOOLEAN
  /\ local \in [Workers -> Request]
  /\ late \in [Participants -> Nat]
  /\ bypasses \in [Participants -> Nat]

\* Approved participants who have not come yet.
Init ==
  /\ certs = [c \in Ids |-> NoCertificate]
  /\ row = [p \in Participants |-> [eligible_status |-> TRUE, certificate_blocked |-> FALSE,
                                    checked_in |-> FALSE]]
  /\ days = [p \in Participants |-> 0]
  /\ cases = [p \in Participants |-> [v \in Cases |-> "none"]]
  /\ answered = {}
  /\ enabled = TRUE
  /\ local = [w \in Workers |-> Idle]
  /\ late = [p \in Participants |-> 0]
  /\ bypasses = [p \in Participants |-> 0]
-----------------------------------------------------------------------------
Of(p) == {c \in Ids : certs[c] # NoCertificate /\ certs[c].who = p}

\* A request that holds an instance of a certificate.
Holds(w) == local[w].pc \in {"updating", "rewriting"}

\* A primary key never used: no row has it, and no instance of a deleted row.
Fresh(c) ==
  /\ certs[c] = NoCertificate
  /\ \A v \in Workers : Holds(v) => local[v].cert # c

\* attendance_percent; an event without days counts as one of one day.
EventLength == IF EventDays = 0 THEN 1 ELSE EventDays
AttendancePercent(p) == (days[p] * 100) \div EventLength

UnderViolation(p) == \E v \in Cases : cases[p][v] \in {"open", "appealed"}

\* Any survey of the event will do, also one that no certificate asks for.
FeedbackMissing(p) == FeedbackNeeded /\ \A s \in Surveys : <<s, p>> \notin answered

\* Faulty variant: the flag is left to the violations that explain it.
IsEligible_ByViolation(p, r) ==
  /\ enabled
  /\ ~UnderViolation(p)
  /\ r.checked_in => AttendancePercent(p) >= MinPercent
  /\ ~FeedbackMissing(p)

\* certificate_eligibility, of an instance r of the participant p.
IsEligible(p, r) ==
  /\ enabled
  /\ ~r.certificate_blocked
  /\ ~UnderViolation(p)
  /\ r.eligible_status
  /\ r.checked_in => AttendancePercent(p) >= MinPercent
  /\ ~FeedbackMissing(p)

InTransaction(w) == local[w].pc \in {"eligible", "creating", "updating"}

\* Faulty variant: the transaction's reads keep nobody out.
MayWrite_Unlocked(w) == w \in Workers

MayWrite(w) == Database = "sqlite" => \A v \in Workers \ {w} : ~InTransaction(v)

Become(w, l) == local' = [local EXCEPT ![w] = l]
-----------------------------------------------------------------------------
(* issue_certificate. *)

LoadParticipant(w, p) ==
  /\ "issue" \in Ops
  /\ local[w] = Idle
  /\ Become(w, [pc |-> "loaded", who |-> p, row |-> row[p]])
  /\ UNCHANGED <<certs, late, bypasses>> /\ UNCHANGED facts

CheckEligibility(w) ==
  /\ local[w].pc = "loaded"
  /\ LET p == local[w].who
     IN Become(w, IF IsEligible(p, local[w].row) THEN [pc |-> "eligible", who |-> p] ELSE Idle)
  /\ UNCHANGED <<certs, late, bypasses>> /\ UNCHANGED facts

\* Faulty variant: a cancelled certificate is not found.
Findable_Valid(p) == {c \in Of(p) : certs[c].status # "cancelled"}

\* What the get of get_or_create matches: whatever its status is.
Findable(p) == Of(p)

\* Two matches are a MultipleObjectsReturned error, which ends the request.
FindCertificate(w) ==
  /\ local[w].pc = "eligible"
  /\ LET p == local[w].who
     IN \/ /\ Findable(p) = {}
           /\ Become(w, [pc |-> "creating", who |-> p])
        \/ \E c \in Findable(p) :
             /\ Findable(p) = {c}
             /\ Become(w, [pc |-> "updating", who |-> p, cert |-> c])
        \/ /\ \E c, d \in Findable(p) : c # d
           /\ Become(w, Idle)
  /\ UNCHANGED <<certs, late, bypasses>> /\ UNCHANGED facts

IssuedStatus == "issued"

\* A full save: a row deleted meanwhile is inserted again.
Issue(w, c) ==
  LET p == local[w].who
  IN /\ MayWrite(w)
     /\ certs' = [certs EXCEPT ![c] = [who |-> p, status |-> IssuedStatus]]
     /\ late' = IF row[p].certificate_blocked THEN [late EXCEPT ![p] = @ + 1] ELSE late
     /\ Become(w, Idle)
     /\ UNCHANGED bypasses /\ UNCHANGED facts

CreateCertificate(w, c) ==
  /\ local[w].pc = "creating"
  /\ Fresh(c)
  /\ Issue(w, c)

UpdateCertificate(w) ==
  /\ local[w].pc = "updating"
  /\ Issue(w, local[w].cert)
-----------------------------------------------------------------------------
(* Cancellation, and the REST viewset. *)

\* save(update_fields=...): an error if the row is gone.
Cancel(w, c) ==
  /\ "cancel" \in Ops
  /\ local[w] = Idle
  /\ MayWrite(w)
  /\ certs[c] # NoCertificate
  /\ certs' = [certs EXCEPT ![c].status = "cancelled"]
  /\ UNCHANGED <<local, late, bypasses>> /\ UNCHANGED facts

Delete(w, c) ==
  /\ "delete" \in Ops
  /\ local[w] = Idle
  /\ MayWrite(w)
  /\ certs' = [certs EXCEPT ![c] = NoCertificate]
  /\ UNCHANGED <<local, late, bypasses>> /\ UNCHANGED facts

\* POST: no eligibility, no look at other certificates.
RestCreate(w, c, p, status) ==
  /\ "rest_create" \in Ops
  /\ local[w] = Idle
  /\ MayWrite(w)
  /\ bypasses[p] < MaxBypasses
  /\ Fresh(c)
  /\ certs' = [certs EXCEPT ![c] = [who |-> p, status |-> status]]
  /\ bypasses' = [bypasses EXCEPT ![p] = @ + 1]
  /\ UNCHANGED <<local, late>> /\ UNCHANGED facts

\* CertificateSerializer leaves participant, type and event writable, so the certificate
\* is saved for whom it was loaded, for another, or elsewhere.
LoadCertificate(w, c, p) ==
  /\ "rest_update" \in Ops
  /\ local[w] = Idle
  /\ certs[c] # NoCertificate
  /\ p \in Participants => bypasses[p] < MaxBypasses
  /\ Become(w, [pc |-> "rewriting", who |-> p, cert |-> c])
  /\ UNCHANGED <<certs, late, bypasses>> /\ UNCHANGED facts

\* PUT or PATCH, no transaction: the row is saved in full.  It adds one to the
\* certificates of p if the row is gone or is somebody else's by then.
RestUpdate(w, status) ==
  /\ local[w].pc = "rewriting"
  /\ MayWrite(w)
  /\ LET c == local[w].cert
         p == local[w].who
     IN /\ certs' = [certs EXCEPT ![c] = [who |-> p, status |-> status]]
        /\ bypasses' = [q \in Participants |-> IF q = p /\ c \notin Of(p) THEN bypasses[q] + 1
                                                                     ELSE bypasses[q]]
  /\ Become(w, Idle)
  /\ UNCHANGED late /\ UNCHANGED facts
-----------------------------------------------------------------------------
(* What eligibility depends on. *)

\* Saving a participant: the flags become r, and a block starts the count of late
\* issues anew.
SetRow(p, r) ==
  /\ row' = [row EXCEPT ![p] = r]
  /\ late' = IF r.certificate_blocked THEN late ELSE [late EXCEPT ![p] = 0]

\* Reviews, the edit form, REST and bulk reviews, seen from here: any row may
\* become any other (ParticipantDesk has them one by one).
SaveParticipant(w, p) ==
  /\ "edit" \in Ops
  /\ local[w] = Idle
  /\ MayWrite(w)
  /\ \E r \in Row : SetRow(p, r)
  /\ UNCHANGED <<certs, days, cases, answered, enabled, local, bypasses>>

\* A check-in, on a day that already counts or on a new one; the desk admits exactly
\* the statuses that eligibility accepts.
CheckIn(w, p) ==
  /\ "checkin" \in Ops
  /\ local[w] = Idle
  /\ MayWrite(w)
  /\ row[p].eligible_status
  /\ SetRow(p, [row[p] EXCEPT !.checked_in = TRUE])
  /\ \/ days[p] < EventDays /\ days' = [days EXCEPT ![p] = @ + 1]
     \/ days[p] > 0 /\ UNCHANGED days
  /\ UNCHANGED <<certs, cases, answered, enabled, local, bypasses>>

\* violations_admin: the violation is one write, the participant's block another.
RecordViolation(w, p, v) ==
  /\ "violation" \in Ops
  /\ local[w] = Idle
  /\ MayWrite(w)
  /\ cases[p][v] = "none"
  /\ cases' = [cases EXCEPT ![p][v] = "open"]
  /\ Become(w, [pc |-> "flagging", who |-> p])
  /\ UNCHANGED <<certs, row, days, answered, enabled, late, bypasses>>

FlagParticipant(w) ==
  /\ local[w].pc = "flagging"
  /\ MayWrite(w)
  /\ LET p == local[w].who
     IN SetRow(p, [row[p] EXCEPT !.eligible_status = FALSE, !.certificate_blocked = TRUE])
  /\ Become(w, Idle)
  /\ UNCHANGED <<certs, days, cases, answered, enabled, bypasses>>

\* The REST viewset of violations: an appeal and its result are updates, a new
\* violation and its removal are possible too.  None of them touches the participant.
SetCase(w, p, v, s) ==
  /\ "case" \in Ops
  /\ local[w] = Idle
  /\ MayWrite(w)
  /\ cases' = [cases EXCEPT ![p][v] = s]
  /\ UNCHANGED <<certs, row, days, answered, enabled, local, late, bypasses>>

AnswerSurvey(w, p, s) ==
  /\ "feedback" \in Ops
  /\ local[w] = Idle
  /\ MayWrite(w)
  /\ answered' \in {answered \union {<<s, p>>}, answered \ {<<s, p>>}}
  /\ UNCHANGED <<certs, row, days, cases, enabled, local, late, bypasses>>

ToggleModule(w) ==
  /\ "module" \in Ops
  /\ local[w] = Idle
  /\ MayWrite(w)
  /\ enabled' = ~enabled
  /\ UNCHANGED <<certs, row, days, cases, answered, local, late, bypasses>>

\* The request ends without writing more: a refusal, an error, the worker's death.
Abandon(w) ==
  /\ local[w] # Idle
  /\ Become(w, Idle)
  /\ UNCHANGED <<certs, late, bypasses>> /\ UNCHANGED facts
-----------------------------------------------------------------------------
IssueNext(w) ==
  \/ \E p \in Participants : LoadParticipant(w, p)
  \/ CheckEligibility(w) \/ FindCertificate(w)
  \/ \E c \in Ids : CreateCertificate(w, c)
  \/ UpdateCertificate(w)

CertificateNext(w) ==
  \/ \E c \in Ids : Cancel(w, c) \/ Delete(w, c)
  \/ \E c \in Ids, p \in Owners : LoadCertificate(w, c, p)
  \/ \E c \in Ids, p \in Participants, s \in Statuses : RestCreate(w, c, p, s)
  \/ \E s \in Statuses : RestUpdate(w, s)

FactsNext(w) ==
  \/ \E p \in Participants :
       \/ SaveParticipant(w, p) \/ CheckIn(w, p)
       \/ \E v \in Cases : RecordViolation(w, p, v)
       \/ \E v \in Cases, s \in CaseStatuses \union {"none"} : SetCase(w, p, v, s)
       \/ \E s \in Surveys : AnswerSurvey(w, p, s)
  \/ FlagParticipant(w)
  \/ ToggleModule(w)

Next == \E w \in Workers : IssueNext(w) \/ CertificateNext(w) \/ FactsNext(w) \/ Abandon(w)

Spec == Init /\ [][Next]_vars
-----------------------------------------------------------------------------
(* Properties. *)

\* On either database the certificates of one participant and type are at most as
\* many as there are workers, however get_or_create races, and as REST added: once
\* one is committed nobody creates another, and stale saves bring back no more.
CertificatesAreBounded ==
  \A p \in Participants : Cardinality(Of(p)) <= Cardinality(Workers) + bypasses[p]

\* Blocking drains: after a participant's certificate_blocked is committed, at most
\* one certificate per worker is still issued to that participant, by requests
\* that loaded the participant before (a bulk issue loads everybody up front).
BlockingDrains == \A p \in Participants : late[p] <= Cardinality(Workers)

\* On a database whose readers keep writers out get_or_create does what its name
\* says: one certificate of a participant, and those REST added.
OneCertificate ==
  \A p \in Participants : Cardinality(Of(p)) <= 1 + bypasses[p]

\* Pairs of a participant and a certificate: those there are, those that are valid;
\* and who must not get one, as far as the database is asked when it is issued.
Papers == {x \in Participants \X Ids : x[2] \in Of(x[1])}
Valid  == {x \in Papers : certs[x[2]].status = "issued"}
Barred == {p \in Participants : ~enabled \/ UnderViolation(p) \/ FeedbackMissing(p)}

Registry == INSTANCE CertificateRegistry WITH
              Numbers <- Ids, papers <- Papers, valid <- Valid, barred <- Barred

\* On such a database, and without REST writes of certificates, issue and
\* cancellation are a registry: the checks that the database answers, the look for
\* the certificate and its write act as one step, and a certificate that is issued
\* again keeps its number.
ImplementsRegistry == Registry!RegistrySpec
-----------------------------------------------------------------------------
(* Inductive strengthenings. *)

\* What was read in a transaction is not disturbed before it is written: SQLite keeps
\* other writers out, and a worker that serves everybody alone has nobody to fear.
Undisturbed == Database = "sqlite" \/ \A v, w \in Workers : v = w

\* The requests that will create a certificate of p, and the certificates of p that
\* requests hold and may write back.
Promised(p) == {w \in Workers : local[w].pc = "creating" /\ local[w].who = p}
Held(p) == {c \in Ids : \E w \in Workers : /\ local[w].pc = "updating"
                                          /\ local[w].who = p
                                          /\ local[w].cert = c}

CertificatesAndPromises ==
  \A p \in Participants :
    Cardinality(Of(p) \union Held(p)) + Cardinality(Promised(p))
      <= Cardinality(Workers) + bypasses[p]

\* The requests that found p unblocked and may still issue.
InFlight(p) == {w \in Workers : \/ /\ local[w].pc \in {"eligible", "creating", "updating"}
                                   /\ local[w].who = p
                                \/ /\ local[w].pc = "loaded"
                                   /\ local[w].who = p
                                   /\ ~local[w].row.certificate_blocked}

LateAndInFlight ==
  \A p \in Participants :
    IF row[p].certificate_blocked
      THEN late[p] + Cardinality(InFlight(p)) <= Cardinality(Workers)
      ELSE late[p] = 0

\* While an open transaction keeps writers out, what it has read stays true.
ReadsHold(w) ==
  LET p == local[w].who
  IN /\ InTransaction(w) => enabled /\ ~UnderViolation(p) /\ ~FeedbackMissing(p)
     /\ local[w].pc = "creating" => Of(p) = {}
     /\ local[w].pc = "updating" => Of(p) = {local[w].cert}

ReadsStillHold == Undisturbed => \A w \in Workers : ReadsHold(w)
=============================================================================
