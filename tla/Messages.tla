-------------------------------- MODULE Messages --------------------------------
(***************************************************************************)
(* Communications: broadcasts, single e-mails, certificates by e-mail, and *)
(* the EmailLog, NotificationLog and Broadcast rows they leave             *)
(* (core/services.py, communications_admin, certificates_admin and the     *)
(* REST viewsets).                                                         *)
(*                                                                         *)
(* Nothing runs in a transaction.  Each e-mail is a log row, a call of the *)
(* mail server, and an update of the row, one after the other for all that *)
(* were on the list when it was loaded; a broadcast becomes "sent" after   *)
(* the last one.  The worker can die between any two of them, and nothing  *)
(* resumes what it did not finish: somebody sends again.                   *)
(*                                                                         *)
(* The mail server is external: it takes the message and says so, or       *)
(* send_mail raises, whether it took the message or not.                   *)
(***************************************************************************)
EXTENDS Naturals, FiniteSets

CONSTANTS
  People,        \* the participants, deleted ones too: send_broadcast does not look
  Broadcasts,
  Audience,      \* by broadcast, the participants of its event
  Letters,       \* what is written to one participant, from a template or by hand
  Diplomas,      \* certificates with status "issued"
  Addressee,     \* of a letter, and Certificate.participant
  Senders,       \* worker processes, one request each at a time
  Configured,    \* those started with EMAIL_PROVIDER smtp, or with the key of a provider
  Movers,        \* bound: the participants whose address changes
  MaxRequests    \* bound: requests that take more than one step

VARIABLES
  broadcast,  \* the status and channel of each Broadcast row
  reachable,  \* the participants with an e-mail address
  logs,       \* by e-mail, its EmailLog rows, counted by status
  taken,      \* by e-mail, how often the mail server took it
  notices,    \* the broadcasts with a NotificationLog row
  sentCount,  \* Certificate.sent_count
  job,        \* what each worker holds of the request it is serving
  begun,      \* history: by e-mail, the sendings that had it on their list
  reached,    \* history: by broadcast, the set of the list of its last finished sending
  requests,   \* history: the requests so far that take more than one step
  byHand,     \* history: broadcasts that a REST write set to "sent"
  cut         \* history: by e-mail, the workers that died while they were at it

mailVars == <<broadcast, reachable, logs, taken, notices, sentCount, job, begun, reached, requests, byHand, cut>>

\* An e-mail: what is written and to whom.
Mails == (UNION {{b} \X Audience[b] : b \in Broadcasts})
           \union {<<x, Addressee[x]>> : x \in Letters \union Diplomas}

ASSUME MessagesAssumption ==
  /\ Audience \in [Broadcasts -> SUBSET People]
  /\ Addressee \in [Letters \union Diplomas -> People]
  /\ IsFiniteSet(Senders) /\ Configured \subseteq Senders
  /\ Movers \subseteq People
  /\ MaxRequests \in Nat
  /\ \A d \in Diplomas : d \notin Broadcasts \union Letters
  /\ {"diplomas", "single"} \intersect Broadcasts = {}
-----------------------------------------------------------------------------
(* State. *)

\* EmailLog.Status.
LogStatuses == {"queued", "sent", "failed", "mocked"}

\* Broadcast.status, with "none" before the row is created and "gone" after its deletion.
Present == {"draft", "sent"}

\* Broadcast.Channel.
Channels == {"email", "push", "in_app"}

Resting == [pc |-> "rest"]
\* A broadcast before its list is loaded.
Listing == [pc: {"list"}, task: Broadcasts]
\* A broadcast, certificates or a single e-mail: what was on the list, what is still to
\* do, and the counters of the certificates as they were loaded.
Between == [pc: {"next"}, task: Broadcasts \union {"diplomas", "single"}, list: SUBSET Mails,
            todo: SUBSET Mails, counts: [Diplomas -> Nat]]
\* With one of the e-mails in hand: its row is written, the server has answered, the
\* counter is due.
AtMail  == {j \in [pc: {"queued", "answered", "count"}, task: Broadcasts \union {"diplomas", "single"},
                   list: SUBSET Mails, todo: SUBSET Mails, counts: [Diplomas -> Nat],
                   mail: Mails, answer: {"queued", "sent", "failed"}] :
              j.pc = "answered" <=> j.answer # "queued"}
\* A REST write of a broadcast, and a full save of a certificate, with the row as loaded.
Editing == [pc: {"broadcast"}, task: Broadcasts, status: Present, entered: BOOLEAN]
Holding == [pc: {"diploma"}, diploma: Diplomas, count: Nat]

MessagesTypeOK ==
  /\ broadcast \in [Broadcasts -> [status: Present \union {"none", "gone"}, channel: Channels]]
  /\ reachable \subseteq People
  /\ logs \in [Mails -> [LogStatuses -> Nat]]
  /\ taken \in [Mails -> Nat]
  /\ notices \subseteq Broadcasts
  /\ sentCount \in [Diplomas -> Nat]
  /\ job \in [Senders -> {Resting} \union Listing \union Between \union AtMail
                           \union Editing \union Holding]
  /\ begun \in [Mails -> Nat]
  /\ reached \in [Broadcasts -> SUBSET (SUBSET Mails)]
  /\ requests \in Nat
  /\ byHand \subseteq Broadcasts
  /\ cut \in [Mails -> Nat]

\* Everybody has an address; nothing was written to anybody.
MessagesInit ==
  /\ broadcast = [b \in Broadcasts |-> [status |-> "none", channel |-> "email"]]
  /\ reachable = People
  /\ logs = [m \in Mails |-> [l \in LogStatuses |-> 0]]
  /\ taken = [m \in Mails |-> 0]
  /\ notices = {}
  /\ sentCount = [d \in Diplomas |-> 0]
  /\ job = [s \in Senders |-> Resting]
  /\ begun = [m \in Mails |-> 0]
  /\ reached = [b \in Broadcasts |-> {}]
  /\ requests = 0
  /\ byHand = {}
  /\ cut = [m \in Mails |-> 0]

Rows(m) == logs[m]["queued"] + logs[m]["sent"] + logs[m]["failed"] + logs[m]["mocked"]
-----------------------------------------------------------------------------
Does(s, j) == job' = [job EXCEPT ![s] = j]

\* One more request that takes more than one step comes in.
Asked == requests < MaxRequests /\ requests' = requests + 1

\* A list was loaded: its e-mails are to be sent.
Sending(task, list, counts) ==
  [pc |-> "next", task |-> task, list |-> list, todo |-> list, counts |-> counts]
Begun(list) == begun' = [m \in Mails |-> IF m \in list THEN begun[m] + 1 ELSE begun[m]]

\* Back to the list, with the e-mail in hand done.
Onward(j) == [pc |-> "next", task |-> j.task, list |-> j.list, todo |-> j.todo, counts |-> j.counts]

\* The row of the e-mail gets its status.
MoveRow(rows, l) == [rows EXCEPT !["queued"] = @ - 1, ![l] = @ + 1]
Logged(s, l) == logs' = [logs EXCEPT ![job[s].mail] = MoveRow(@, l)]
-----------------------------------------------------------------------------
(* Broadcasts. *)

\* communications_admin saves a new broadcast, and sends it at once if asked to.
Compose(s, b, channel, now) ==
  /\ job[s] = Resting
  /\ broadcast[b].status = "none"
  /\ broadcast' = [broadcast EXCEPT ![b] = [status |-> "draft", channel |-> channel]]
  /\ IF now THEN Asked /\ Does(s, [pc |-> "list", task |-> b])
            ELSE UNCHANGED <<requests, job>>
  /\ UNCHANGED <<reachable, logs, taken, notices, sentCount, begun, reached, byHand, cut>>

\* BroadcastViewSet.send, whatever the status.
Send(s, b) ==
  /\ job[s] = Resting
  /\ broadcast[b].status \in Present
  /\ Asked
  /\ Does(s, [pc |-> "list", task |-> b])
  /\ UNCHANGED <<broadcast, reachable, logs, taken, notices, sentCount, begun, reached, byHand, cut>>

\* The list of an e-mail broadcast; a push is one NotificationLog row; a message in the
\* application leaves nothing but the status.
LoadList(s) ==
  /\ job[s].pc = "list"
  /\ LET b    == job[s].task
         list == IF broadcast[b].channel = "email" THEN {b} \X (Audience[b] \intersect reachable) ELSE {}
     IN /\ Begun(list)
        /\ Does(s, Sending(b, list, [d \in Diplomas |-> 0]))
        /\ notices' = IF broadcast[b].channel = "push" THEN notices \union {b} ELSE notices
  /\ UNCHANGED <<broadcast, reachable, logs, taken, sentCount, reached, requests, byHand, cut>>

SentStatus == "sent"

\* After the last e-mail.  Saving a broadcast that was deleted is a DatabaseError.
Finish(s) ==
  /\ job[s].pc = "next" /\ job[s].todo = {}
  /\ LET b == job[s].task
     IN IF b \in Broadcasts /\ broadcast[b].status \in Present
          THEN /\ broadcast' = [broadcast EXCEPT ![b].status = SentStatus]
               /\ reached' = [reached EXCEPT ![b] = {job[s].list}]
               /\ byHand' = byHand \ {b}
          ELSE UNCHANGED <<broadcast, reached, byHand>>
  /\ Does(s, Resting)
  /\ UNCHANGED <<reachable, logs, taken, notices, sentCount, begun, requests, cut>>

\* PUT or PATCH of a broadcast: the status it sends along, or else the one it loaded.
LoadBroadcast(s, b, status) ==
  /\ job[s] = Resting
  /\ Asked
  /\ broadcast[b].status \in Present
  /\ Does(s, [pc |-> "broadcast", task |-> b, status |-> status, entered |-> status # broadcast[b].status])
  /\ UNCHANGED <<broadcast, reachable, logs, taken, notices, sentCount, begun, reached, byHand, cut>>

\* All columns are saved; a row that was deleted is inserted again.
SaveBroadcast(s) ==
  /\ job[s].pc = "broadcast"
  /\ LET b == job[s].task
     IN /\ broadcast' = [broadcast EXCEPT ![b].status = job[s].status]
        /\ byHand' = IF job[s].entered /\ job[s].status = "sent" THEN byHand \union {b} ELSE byHand
  /\ Does(s, Resting)
  /\ UNCHANGED <<reachable, logs, taken, notices, sentCount, begun, reached, requests, cut>>

DeleteBroadcast(s, b) ==
  /\ job[s] = Resting
  /\ broadcast[b].status \in Present
  /\ broadcast' = [broadcast EXCEPT ![b].status = "gone"]
  /\ UNCHANGED <<reachable, logs, taken, notices, sentCount, job, begun, reached, requests, byHand, cut>>
-----------------------------------------------------------------------------
(* Single e-mails and certificates. *)

\* DirectParticipantEmailForm and send_templated_email, to somebody with an address.
Write(s, m) ==
  /\ job[s] = Resting
  /\ m[1] \in Letters /\ m[2] \in reachable
  /\ Asked /\ Begun({m})
  /\ Does(s, Sending("single", {m}, [d \in Diplomas |-> 0]))
  /\ UNCHANGED <<broadcast, reachable, logs, taken, notices, sentCount, reached, byHand, cut>>

\* resend_email: a row that exists, as a new operation.
Resend(s, m) ==
  /\ job[s] = Resting
  /\ Rows(m) > 0
  /\ Asked /\ Begun({m})
  /\ Does(s, Sending("single", {m}, [d \in Diplomas |-> 0]))
  /\ UNCHANGED <<broadcast, reachable, logs, taken, notices, sentCount, reached, byHand, cut>>

\* Faulty variant: the certificates are counted when they are loaded.
SendDiplomas_CountFirst(s, D) ==
  /\ job[s] = Resting
  /\ LET list == {<<d, Addressee[d]>> : d \in {c \in D : Addressee[c] \in reachable}}
     IN /\ Asked /\ Begun(list)
        /\ Does(s, Sending("diplomas", list, sentCount))
  /\ sentCount' = [d \in Diplomas |-> IF d \in D THEN sentCount[d] + 1 ELSE sentCount[d]]
  /\ UNCHANGED <<broadcast, reachable, logs, taken, notices, reached, byHand, cut>>

\* bulk_send, and send_email of one certificate: all are loaded first, with their
\* counters; whoever has no address is skipped.
SendDiplomas(s, D) ==
  /\ job[s] = Resting
  /\ LET list == {<<d, Addressee[d]>> : d \in {c \in D : Addressee[c] \in reachable}}
     IN /\ Asked /\ Begun(list)
        /\ Does(s, Sending("diplomas", list, sentCount))
  /\ UNCHANGED <<broadcast, reachable, logs, taken, notices, sentCount, reached, byHand, cut>>

\* A certificate is loaded and saved with all its columns: issue, reissue, REST.
LoadDiploma(s, d) ==
  /\ job[s] = Resting
  /\ Asked
  /\ Does(s, [pc |-> "diploma", diploma |-> d, count |-> sentCount[d]])
  /\ UNCHANGED <<broadcast, reachable, logs, taken, notices, sentCount, begun, reached, byHand, cut>>

SaveDiploma(s) ==
  /\ job[s].pc = "diploma"
  /\ sentCount' = [sentCount EXCEPT ![job[s].diploma] = job[s].count]
  /\ Does(s, Resting)
  /\ UNCHANGED <<broadcast, reachable, logs, taken, notices, begun, reached, requests, byHand, cut>>
-----------------------------------------------------------------------------
(* send_event_email. *)

\* EmailLog.objects.create, with the default status.
NewRow(rows) == [rows EXCEPT !["queued"] = @ + 1]
Queue(s) ==
  /\ job[s].pc = "next"
  /\ \E m \in job[s].todo :
       /\ logs' = [logs EXCEPT ![m] = NewRow(@)]
       /\ Does(s, [pc |-> "queued", task |-> job[s].task, list |-> job[s].list,
                   todo |-> job[s].todo \ {m}, counts |-> job[s].counts,
                   mail |-> m, answer |-> "queued"])
  /\ UNCHANGED <<broadcast, reachable, taken, notices, sentCount, begun, reached, requests, byHand, cut>>

\* What is left to do once the row has its status: send_certificate_email counts.
Done(j) == IF j.task = "diplomas" THEN [j EXCEPT !.pc = "count", !.answer = "queued"] ELSE Onward(j)

\* Without a provider the message is only recorded.
Mock(s) ==
  /\ job[s].pc = "queued"
  /\ s \notin Configured
  /\ Logged(s, "mocked")
  /\ Does(s, Done(job[s]))
  /\ UNCHANGED <<broadcast, reachable, taken, notices, sentCount, begun, reached, requests, byHand, cut>>

\* Faulty variant: fail_silently.
HandOver_Silent(s) ==
  /\ job[s].pc = "queued"
  /\ s \in Configured
  /\ Does(s, [job[s] EXCEPT !.pc = "answered", !.answer = "sent"])
  /\ \/ taken' = [taken EXCEPT ![job[s].mail] = @ + 1]
     \/ UNCHANGED taken
  /\ UNCHANGED <<broadcast, reachable, logs, notices, sentCount, begun, reached, requests, byHand, cut>>

\* send_mail: taken; refused or never reached; taken, but the answer was lost.
HandOver(s) ==
  /\ job[s].pc = "queued"
  /\ s \in Configured
  /\ \E answer \in {"sent", "failed"} :
       /\ Does(s, [job[s] EXCEPT !.pc = "answered", !.answer = answer])
       /\ \/ taken' = [taken EXCEPT ![job[s].mail] = @ + 1]
          \/ answer = "failed" /\ UNCHANGED taken
  /\ UNCHANGED <<broadcast, reachable, logs, notices, sentCount, begun, reached, requests, byHand, cut>>

\* Faulty variant: after an error the e-mail goes back to the list.
Record_Again(s) ==
  /\ job[s].pc = "answered"
  /\ Logged(s, job[s].answer)
  /\ Does(s, IF job[s].answer = "sent" THEN Done(job[s])
             ELSE [Onward(job[s]) EXCEPT !.todo = @ \union {job[s].mail}])
  /\ UNCHANGED <<broadcast, reachable, taken, notices, sentCount, begun, reached, requests, byHand, cut>>

\* Faulty variant: an error ends the loop.
Record_Breaks(s) ==
  /\ job[s].pc = "answered"
  /\ Logged(s, job[s].answer)
  /\ Does(s, IF job[s].answer = "sent" THEN Done(job[s]) ELSE [Onward(job[s]) EXCEPT !.todo = {}])
  /\ UNCHANGED <<broadcast, reachable, taken, notices, sentCount, begun, reached, requests, byHand, cut>>

\* Faulty variant: after an error the mail server is asked again until it takes it.
Record_Retries(s) ==
  /\ job[s].pc = "answered"
  /\ IF job[s].answer = "sent"
       THEN Logged(s, "sent") /\ Does(s, Done(job[s]))
       ELSE UNCHANGED logs /\ Does(s, [job[s] EXCEPT !.pc = "queued", !.answer = "queued"])
  /\ UNCHANGED <<broadcast, reachable, taken, notices, sentCount, begun, reached, requests, byHand, cut>>

\* The row gets its status and, after an error, its text.
Record(s) ==
  /\ job[s].pc = "answered"
  /\ Logged(s, job[s].answer)
  /\ Does(s, Done(job[s]))
  /\ UNCHANGED <<broadcast, reachable, taken, notices, sentCount, begun, reached, requests, byHand, cut>>

\* send_certificate_email: one more than was loaded.
Count(s) ==
  /\ job[s].pc = "count"
  /\ LET d == job[s].mail[1]
     IN sentCount' = [sentCount EXCEPT ![d] = job[s].counts[d] + 1]
  /\ Does(s, Onward(job[s]))
  /\ UNCHANGED <<broadcast, reachable, logs, taken, notices, begun, reached, requests, byHand, cut>>
-----------------------------------------------------------------------------
\* Somebody registers, or an e-mail address is entered or removed.
EditAddress(p) ==
  /\ reachable' = IF p \in reachable THEN reachable \ {p} ELSE reachable \union {p}
  /\ UNCHANGED <<broadcast, logs, taken, notices, sentCount, job, begun, reached, requests, byHand, cut>>

\* The worker dies, or the database refuses a write: nothing resumes the request.
Die(s) ==
  /\ job[s] # Resting
  /\ cut' = IF job[s].pc \in {"queued", "answered"} THEN [cut EXCEPT ![job[s].mail] = @ + 1] ELSE cut
  /\ Does(s, Resting)
  /\ UNCHANGED <<broadcast, reachable, logs, taken, notices, sentCount, begun, reached, requests, byHand>>

\* What a worker does with the request it has.
Work(s) ==
  \/ LoadList(s) \/ Finish(s) \/ SaveBroadcast(s) \/ SaveDiploma(s)
  \/ Queue(s) \/ Mock(s) \/ HandOver(s) \/ Record(s) \/ Count(s)

\* What it is asked for.
Ask(s) ==
  \/ \E b \in Broadcasts :
       \/ \E channel \in Channels, now \in BOOLEAN : Compose(s, b, channel, now)
       \/ Send(s, b) \/ DeleteBroadcast(s, b)
       \/ \E status \in Present : LoadBroadcast(s, b, status)
  \/ \E m \in Mails : Write(s, m) \/ Resend(s, m)
  \/ \E D \in (SUBSET Diplomas) \ {{}} : SendDiplomas(s, D)
  \/ \E d \in Diplomas : LoadDiploma(s, d)

MessagesNext ==
  \/ \E s \in Senders : Work(s) \/ Ask(s) \/ Die(s)
  \/ \E p \in Movers : EditAddress(p)

MessagesSpec == MessagesInit /\ [][MessagesNext]_mailVars

\* A worker that has a request goes on with it, and send_mail comes back.
FairMessagesSpec == MessagesSpec /\ \A s \in Senders : WF_mailVars(Work(s))
-----------------------------------------------------------------------------
(* Properties. *)

AtIt(m) == {s \in Senders : job[s].pc \in {"queued", "answered"} /\ job[s].mail = m}

\* A row stays queued only behind a worker that died between creating and updating it.
QueuedAreCut ==
  \A m \in Mails : logs[m]["queued"] = Cardinality(AtIt(m)) + cut[m]

\* What the log calls sent the mail server took; what it took has a row that says sent,
\* failed when the answer was lost, or queued when the worker is still at it or died over
\* it, and is never called a mock.
LogsTellTheTruth ==
  /\ QueuedAreCut
  /\ \A m \in Mails :
       /\ logs[m]["sent"] <= taken[m]
       /\ taken[m] <= logs[m]["sent"] + logs[m]["failed"] + logs[m]["queued"]

\* However sendings race, fail, die and are repeated: nobody gets more copies of an
\* e-mail than sendings had it on their list.
CopiesAreBounded ==
  \A m \in Mails : Rows(m) <= begun[m]

\* A broadcast that says it was sent, unless a REST write said so, went through a whole
\* list: everybody who was on it has a row, and a push has its notice.
SentIsComplete ==
  \A b \in Broadcasts \ byHand : broadcast[b].status = "sent" =>
    /\ reached[b] # {}
    /\ \A m \in UNION reached[b] : Rows(m) > 0
    /\ broadcast[b].channel = "push" => b \in notices

\* The counter of a certificate may lose e-mails to concurrent writes; it never counts
\* one that has no row.
CountsAreBacked ==
  \A d \in Diplomas : sentCount[d] <= Rows(<<d, Addressee[d]>>)

\* Every request comes to an end, however many refusals it meets.
RequestsEnd ==
  \A s \in Senders : job[s] # Resting ~> job[s] = Resting
-----------------------------------------------------------------------------
(* Inductive strengthenings. *)

\* The workers that have the row of m and no answer yet; those that were told it was sent;
\* those that have m still before them.
Unanswered(m) == {s \in Senders : job[s].pc = "queued" /\ job[s].mail = m}
Confirmed(m)  == {s \in Senders : job[s].pc = "answered" /\ job[s].mail = m /\ job[s].answer = "sent"}
Mailing       == {"next", "queued", "answered", "count"}
Due(m)        == {s \in Senders : job[s].pc \in Mailing /\ m \in job[s].todo}

AnswersAreTrue ==
  \A m \in Mails :
    /\ logs[m]["sent"] + Cardinality(Confirmed(m)) <= taken[m]
    /\ taken[m] + Cardinality(Unanswered(m)) <= logs[m]["sent"] + logs[m]["failed"] + logs[m]["queued"]

CopiesAndDue ==
  \A m \in Mails : Rows(m) + Cardinality(Due(m)) <= begun[m]

\* What SentIsComplete says of a broadcast that was sent.
Complete(b) ==
  /\ reached[b] # {}
  /\ \A m \in UNION reached[b] : Rows(m) > 0
  /\ broadcast[b].channel = "push" => b \in notices

\* Whoever is through with an e-mail of the list, and with the notice, has written its row.
RowsWritten(s) ==
  job[s].pc \in Mailing =>
    /\ \A m \in job[s].list \ job[s].todo : Rows(m) > 0
    /\ job[s].task \in Broadcasts /\ broadcast[job[s].task].channel = "push" => job[s].task \in notices

\* Whoever has a broadcast in hand loaded its row, so that its channel is chosen.
TaskExists(s) ==
  job[s].pc \in Mailing \union {"list", "broadcast"} /\ job[s].task \in Broadcasts =>
    broadcast[job[s].task].status # "none"

\* Whoever writes back that it was sent has read so.
HeldIsTrue(s) ==
  job[s].pc = "broadcast" /\ job[s].status = "sent" /\ ~job[s].entered =>
    job[s].task \in byHand \/ Complete(job[s].task)

SendingsProgress ==
  /\ \A s \in Senders : RowsWritten(s) /\ TaskExists(s) /\ HeldIsTrue(s)
  /\ \A b \in Broadcasts \ byHand : broadcast[b].status = "sent" => Complete(b)

\* The rows behind a counter, and that a worker holds no counter without them.
Copies(d) == Rows(<<d, Addressee[d]>>)

HeldIsBacked(s) ==
  /\ job[s].pc = "diploma" => job[s].count <= Copies(job[s].diploma)
  /\ job[s].pc \in Mailing /\ job[s].task = "diplomas" =>
       /\ job[s].todo \subseteq {<<d, Addressee[d]>> : d \in Diplomas}
       /\ \A d \in Diplomas : job[s].counts[d] <= Copies(d)
  /\ job[s].pc \in {"queued", "answered", "count"} /\ job[s].task = "diplomas" =>
       \E d \in Diplomas : job[s].mail = <<d, Addressee[d]>> /\ job[s].counts[d] < Copies(d)
  /\ job[s].pc = "count" => job[s].task = "diplomas"

CountersAreBacked ==
  /\ \A d \in Diplomas : sentCount[d] <= Copies(d)
  /\ \A s \in Senders : HeldIsBacked(s)
=============================================================================
