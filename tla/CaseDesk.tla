-------------------------------- MODULE CaseDesk --------------------------------
(***************************************************************************)
(* Support tickets and SOS reports: what visitors and staff open, how it   *)
(* is answered and closed, and the REST writes that race with it           *)
(* (public_support, crisis_admin, SupportTicketViewSet, SOSReportViewSet). *)
(*                                                                         *)
(* Tickets are answered over REST only: the form of the dashboard          *)
(* (support_admin) looks the ticket up in a query it has sliced, which     *)
(* raises before anything is written.                                      *)
(*                                                                         *)
(* Nothing runs in a transaction.  A reply is one write, and the status    *)
(* that comes with it a second one of that column alone; closing a report  *)
(* and every REST update save all columns of the row as it was loaded.     *)
(* A status is saved as it comes, no choices are asked.                    *)
(***************************************************************************)
EXTENDS Naturals, FiniteSets

CONSTANTS
  Tickets,     \* SupportTicket rows
  Reports,     \* SOSReport rows
  Answers,     \* bound: the statuses staff enter
  Clerks,      \* worker processes, one request each at a time
  MaxReplies   \* bound: replies to a ticket

VARIABLES
  case,      \* the status of each row
  replies,   \* by ticket, its SupportReply rows
  desk,      \* what each worker holds of the request it is serving
  answers,   \* history: by ticket, the statuses saved with a reply, since one was deleted
  entry,     \* history: by case, the status entered last
  disputed,  \* history: cases it was entered for while a rewrite held the row
  removed    \* history: cases that were deleted, and tickets that lost a reply

caseVars == <<case, replies, desk, answers, entry, disputed, removed>>

Cases == Tickets \union Reports

\* Before the row is created, and after it is deleted.
Unopened == "unopened"
Gone     == "gone"

\* SupportTicket.Status.OPEN and SOSReport.Status.NEW, the defaults.
Default(c) == IF c \in Tickets THEN "open" ELSE "new"

ASSUME CaseDeskAssumption ==
  /\ Tickets \intersect Reports = {}
  /\ IsFiniteSet(Clerks)
  /\ {Unopened, Gone} \intersect Tickets = {}
  /\ {Unopened, Gone} \intersect (Answers \union {"open", "new", "closed"}) = {}
  /\ MaxReplies \in Nat
-----------------------------------------------------------------------------
(* State. *)

Entered == Answers \union {"open", "new", "closed"}

AtRest == [pc |-> "rest"]
\* A reply before its row is written, and the status that comes with it after that.
Replying  == [pc: {"reply"}, case: Tickets, status: Answers, plain: BOOLEAN]
Answering == [pc: {"answer"}, case: Tickets, status: Answers]
\* All columns of a row, with a status that was entered or loaded.
Rewriting == [pc: {"rewrite"}, case: Cases, status: Entered, entered: BOOLEAN]

CaseTypeOK ==
  /\ case \in [Cases -> Entered \union {Unopened, Gone}]
  /\ replies \in [Tickets -> Nat]
  /\ desk \in [Clerks -> {AtRest} \union Replying \union Answering \union Rewriting]
  /\ answers \in [Tickets -> Nat]
  /\ entry \in [Cases -> Entered \union {Unopened}]
  /\ disputed \subseteq Cases
  /\ removed \subseteq Cases

CaseInit ==
  /\ case = [c \in Cases |-> Unopened]
  /\ replies = [t \in Tickets |-> 0]
  /\ desk = [a \in Clerks |-> AtRest]
  /\ answers = [t \in Tickets |-> 0]
  /\ entry = [c \in Cases |-> Unopened]
  /\ disputed = {}
  /\ removed = {}

IsRow(c) == case[c] \in Entered

Holders(c) == {a \in Clerks : desk[a].pc = "rewrite" /\ desk[a].case = c /\ ~desk[a].entered}

Handles(a, r) == desk' = [desk EXCEPT ![a] = r]

\* What SOSReportViewSet.close sets when no status is given.
ClosedStatus == "closed"

\* Somebody entered the status of the case, and it is saved.
Enter(c, status) ==
  /\ case' = [case EXCEPT ![c] = status]
  /\ entry' = [entry EXCEPT ![c] = status]
  /\ disputed' = IF Holders(c) = {} THEN disputed \ {c} ELSE disputed \union {c}
-----------------------------------------------------------------------------
(* Opening. *)

\* public_support: the form has no status.
OpenTicket(a, t) ==
  /\ desk[a] = AtRest
  /\ case[t] = Unopened
  /\ Enter(t, Default(t))
  /\ UNCHANGED <<replies, desk, answers, removed>>

\* crisis_admin: the status of its form.
OpenReport(a, c, status) ==
  /\ desk[a] = AtRest
  /\ case[c] = Unopened
  /\ Enter(c, status)
  /\ UNCHANGED <<replies, desk, answers, removed>>
-----------------------------------------------------------------------------
(* Replies. *)

\* SupportTicketViewSet.reply: get_object loads the row.
LoadTicket(a, t, status, plain) ==
  /\ desk[a] = AtRest
  /\ IsRow(t)
  /\ Handles(a, [pc |-> "reply", case |-> t, status |-> status, plain |-> plain])
  /\ UNCHANGED <<case, replies, answers, entry, disputed, removed>>

\* Faulty variant: the status is saved before the reply.
Reply_StatusFirst(a) ==
  /\ desk[a].pc = "reply"
  /\ LET t == desk[a].case
     IN /\ IsRow(t) /\ replies[t] < MaxReplies
        /\ IF desk[a].plain
             THEN /\ replies' = [replies EXCEPT ![t] = @ + 1]
                  /\ UNCHANGED <<case, answers, entry, disputed>>
             ELSE /\ Enter(t, desk[a].status)
                  /\ answers' = [answers EXCEPT ![t] = @ + 1]
                  /\ UNCHANGED replies
  /\ Handles(a, AtRest)
  /\ UNCHANGED removed

\* The reply is written; to a ticket that was deleted it is an IntegrityError.
Reply(a) ==
  /\ desk[a].pc = "reply"
  /\ LET t == desk[a].case
     IN /\ IsRow(t) /\ replies[t] < MaxReplies
        /\ replies' = [replies EXCEPT ![t] = @ + 1]
        /\ Handles(a, IF desk[a].plain THEN AtRest
                      ELSE [pc |-> "answer", case |-> t, status |-> desk[a].status])
  /\ UNCHANGED <<case, answers, entry, disputed, removed>>

\* Then the status alone; of a ticket that was deleted it is a DatabaseError.
Answer(a) ==
  /\ desk[a].pc = "answer"
  /\ LET t == desk[a].case
     IN /\ IsRow(t)
        /\ Enter(t, desk[a].status)
        /\ answers' = [answers EXCEPT ![t] = @ + 1]
  /\ Handles(a, AtRest)
  /\ UNCHANGED <<replies, removed>>

\* REST: a reply is deleted, or given to another ticket.
TakeReply(a, t, to) ==
  /\ desk[a] = AtRest
  /\ replies[t] > 0
  /\ to \in Tickets => IsRow(to) /\ replies[to] < MaxReplies
  /\ replies' = [u \in Tickets |-> IF u = t THEN replies[u] - 1
                                  ELSE IF u = to THEN replies[u] + 1 ELSE replies[u]]
  /\ answers' = [answers EXCEPT ![t] = 0]
  /\ removed' = removed \union {t}
  /\ UNCHANGED <<case, desk, entry, disputed>>
-----------------------------------------------------------------------------
(* Full-row saves. *)

\* SOSReportViewSet.close, which closes unless another status is given, and PUT or PATCH
\* with a status.
LoadToEnter(a, c, status) ==
  /\ desk[a] = AtRest
  /\ IsRow(c)
  /\ Handles(a, [pc |-> "rewrite", case |-> c, status |-> status, entered |-> TRUE])
  /\ UNCHANGED <<case, replies, answers, entry, disputed, removed>>

\* Faulty variant: a PUT without a status puts the default back.
LoadToRewrite_Default(a, c) ==
  /\ desk[a] = AtRest
  /\ IsRow(c)
  /\ Handles(a, [pc |-> "rewrite", case |-> c, status |-> Default(c), entered |-> FALSE])
  /\ UNCHANGED <<case, replies, answers, entry, disputed, removed>>

\* PUT or PATCH of anything else.
LoadToRewrite(a, c) ==
  /\ desk[a] = AtRest
  /\ IsRow(c)
  /\ Handles(a, [pc |-> "rewrite", case |-> c, status |-> case[c], entered |-> FALSE])
  /\ UNCHANGED <<case, replies, answers, entry, disputed, removed>>

\* All columns are saved; a row that was deleted is inserted again.
Save(a) ==
  /\ desk[a].pc = "rewrite"
  /\ LET c == desk[a].case
     IN IF desk[a].entered
          THEN Enter(c, desk[a].status)
          ELSE case' = [case EXCEPT ![c] = desk[a].status] /\ UNCHANGED <<entry, disputed>>
  /\ Handles(a, AtRest)
  /\ UNCHANGED <<replies, answers, removed>>

\* DELETE: the replies of a ticket go with it.
DeleteCase(a, c) ==
  /\ desk[a] = AtRest
  /\ IsRow(c)
  /\ case' = [case EXCEPT ![c] = Gone]
  /\ entry' = [entry EXCEPT ![c] = Unopened]
  /\ replies' = [t \in Tickets |-> IF t = c THEN 0 ELSE replies[t]]
  /\ answers' = [t \in Tickets |-> IF t = c THEN 0 ELSE answers[t]]
  /\ removed' = removed \union {c}
  /\ UNCHANGED <<desk, disputed>>

\* The request ends without another write: an error, a refusal, the death of the worker.
Leave(a) ==
  /\ desk[a] # AtRest
  /\ Handles(a, AtRest)
  /\ UNCHANGED <<case, replies, answers, entry, disputed, removed>>
-----------------------------------------------------------------------------
CaseNext ==
  \E a \in Clerks :
    \/ \E t \in Tickets : OpenTicket(a, t)
    \/ \E c \in Reports, status \in Entered : OpenReport(a, c, status)
    \/ \E t \in Tickets, status \in Answers, plain \in BOOLEAN : LoadTicket(a, t, status, plain)
    \/ \E t \in Tickets : \E to \in (Tickets \ {t}) \union {Gone} : TakeReply(a, t, to)
    \/ \E c \in Cases, status \in Answers \union {ClosedStatus} : LoadToEnter(a, c, status)
    \/ \E c \in Cases : LoadToRewrite(a, c) \/ DeleteCase(a, c)
    \/ Reply(a) \/ Answer(a) \/ Save(a) \/ Leave(a)

CaseSpec == CaseInit /\ [][CaseNext]_caseVars
-----------------------------------------------------------------------------
(* Properties. *)

\* A visitor who finds a ticket answered finds the answer: every status that came with a
\* reply was saved after the row of its reply, unless the ticket, or a reply, was deleted.
AnswersHaveReplies ==
  \A t \in Tickets \ removed : answers[t] <= replies[t]

\* The status entered last stands, so what was closed stays closed, unless a REST write
\* of something else held the row at that moment and saves the status as it was.
AnswersStand ==
  \A c \in Cases \ disputed :
    IsRow(c) /\ entry[c] # Unopened => case[c] = entry[c]
-----------------------------------------------------------------------------
(* Inductive strengthenings. *)

\* The workers that have written a reply and not yet the status that comes with it.
Pending(t) == {a \in Clerks : desk[a].pc = "answer" /\ desk[a].case = t}

RepliesPayAnswers ==
  \A t \in Tickets \ removed : answers[t] + Cardinality(Pending(t)) <= replies[t]

\* What rewrites of an undisputed case hold is what was entered last.
HoldersAgree ==
  \A c \in Cases : entry[c] # Unopened /\ c \notin disputed =>
    /\ case[c] = entry[c]
    /\ \A a \in Holders(c) : desk[a].status = entry[c]
=============================================================================
