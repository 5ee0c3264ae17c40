------------------------------- MODULE Finance --------------------------------
(***************************************************************************)
(* Tickets: issue with a coupon and an invoice (TicketIssueForm), invoices *)
(* by hand, payment, refund, cancellation and reissue (finance_admin).     *)
(*                                                                         *)
(* None of it runs in a transaction, so every statement is a step of its   *)
(* own, on either database.  No constraint of the schema limits a          *)
(* participant to one ticket or a ticket to one invoice, and a coupon's    *)
(* used_count is read, incremented and saved.  Prices are left out but for *)
(* whether a coupon makes a ticket free; a ticket and a coupon of another  *)
(* event are refused before anything is written.  Nothing reads the rows   *)
(* of refunds, invoices of deleted tickets, and QR codes: they are left    *)
(* out too.                                                                *)
(***************************************************************************)
EXTENDS Naturals, FiniteSets, Combinatorics

CONSTANTS
  Participants,
  Tickets,       \* primary keys of tickets; bound: as many as there are keys
  Invoices,      \* primary keys of invoices, and their numbers; bound: as many as keys
  Workers,       \* worker processes, one request each at a time
  MaxUses,       \* max_uses of the coupon; 0 is no limit
  FullDiscount,  \* whether the coupon takes the whole price off
  Entries,       \* the payment statuses clerks enter
  Ops,           \* the kinds of request clients send
  MaxEntered     \* bound: payment statuses are entered for this many tickets at a time

VARIABLES
  tickets,    \* the committed Ticket rows
  invoices,   \* the committed Invoice rows of these tickets
  used,       \* used_count of the coupon
  local,      \* what each worker holds of the request it is serving
  discounts,  \* history: tickets created with the coupon whose use was counted
  entered,    \* history: the payment status last entered on purpose, by ticket
  overtaken   \* history: tickets it was entered for while a cancellation held them

vars == <<tickets, invoices, used, local, discounts, entered, overtaken>>
-----------------------------------------------------------------------------
PaymentStatuses == {"free", "pending", "paid", "refunded", "failed"}

NoTicket  == [absent |-> TRUE]
NoInvoice == [absent |-> TRUE]
None      == "none"

Ticket  == [who: Participants, status: PaymentStatuses, cancelled: BOOLEAN,
            number: Invoices \union {None}]
Invoice == [ticket: Tickets, by_hand: BOOLEAN]

AllOps == {"issue", "invoice", "payment", "refund", "cancel", "reissue", "delete"}

ASSUME FinanceAssumption ==
  /\ IsFiniteSet(Tickets) /\ IsFiniteSet(Invoices)
  /\ IsFiniteSet(Workers) /\ Workers # {}
  /\ None \notin Invoices
  /\ MaxUses \in Nat
  /\ FullDiscount \in BOOLEAN
  /\ Entries \subseteq PaymentStatuses
  /\ Ops \subseteq AllOps
  /\ MaxEntered \in Nat

Idle       == [pc |-> "idle"]
\* TicketIssueForm.save past its checks, with the used_count it read; past the lookup
\* of a ticket; with a ticket created and the coupon still to be counted; with a ticket
\* that has no number; past the lookup of its invoice; with an invoice to name on it.
Issuing    == [pc: {"issuing", "creating"}, who: Participants, coupon: BOOLEAN, read: Nat]
Counting   == [pc: {"counting"}, ticket: Tickets, read: Nat]
Invoicing  == [pc: {"invoicing", "billing"}, ticket: Tickets]
Numbering  == [pc: {"numbering"}, ticket: Tickets, invoice: Invoices]
\* cancel_ticket, with the status of the instance it was given.
Cancelling == [pc: {"cancelling"}, ticket: Tickets, status: PaymentStatuses]

TypeOK ==
  /\ tickets \in [Tickets -> Ticket \union {NoTicket}]
  /\ invoices \in [Invoices -> Invoice \union {NoInvoice}]
  /\ used \in Nat
  /\ local \in [Workers -> {Idle} \union Issuing \union Counting \union Invoicing
                           \union Numbering \union Cancelling]
  /\ discounts \in Nat
  /\ entered \in [Tickets -> PaymentStatuses \union {None}]
  /\ overtaken \subseteq Tickets

Init ==
  /\ tickets = [t \in Tickets |-> NoTicket]
  /\ invoices = [i \in Invoices |-> NoInvoice]
  /\ used = 0
  /\ local = [w \in Workers |-> Idle]
  /\ discounts = 0
  /\ entered = [t \in Tickets |-> None]
  /\ overtaken = {}
-----------------------------------------------------------------------------
Become(w, l) == local' = [local EXCEPT ![w] = l]

Exists(t) == tickets[t] # NoTicket

HoldsTicket(w) == local[w].pc \in {"counting", "invoicing", "billing", "numbering", "cancelling"}

\* Primary keys never used: no row has them, and no instance of a deleted row.
FreshTicket(t) ==
  /\ ~Exists(t)
  /\ \A v \in Workers : HoldsTicket(v) => local[v].ticket # t

FreshInvoice(i) ==
  /\ invoices[i] = NoInvoice
  /\ \A v \in Workers : local[v].pc = "numbering" => local[v].invoice # i
-----------------------------------------------------------------------------
(* TicketIssueForm.save. *)

\* The coupon is not used up.
HasUses == MaxUses = 0 \/ used < MaxUses

StartIssue(w, p, coupon) ==
  /\ "issue" \in Ops
  /\ local[w] = Idle
  /\ coupon => HasUses
  /\ Become(w, [pc |-> "issuing", who |-> p, coupon |-> coupon,
                read |-> IF coupon THEN used ELSE 0])
  /\ UNCHANGED <<tickets, invoices, used, discounts, entered, overtaken>>

\* Faulty variant: a cancelled ticket is not found.
TicketsOf_Valid(p) == {t \in Tickets : Exists(t) /\ tickets[t].who = p /\ ~tickets[t].cancelled}

\* What the get of get_or_create matches.
TicketsOf(p) == {t \in Tickets : Exists(t) /\ tickets[t].who = p}

\* A found ticket uses no coupon.  Two matches are an error, which ends the request.
FindTicket(w) ==
  /\ local[w].pc = "issuing"
  /\ LET found == TicketsOf(local[w].who)
     IN \/ found = {} /\ Become(w, [local[w] EXCEPT !.pc = "creating"])
        \/ \E t \in found :
             /\ found = {t}
             /\ Become(w, IF tickets[t].number = None
                          THEN [pc |-> "invoicing", ticket |-> t] ELSE Idle)
        \/ (\E s, t \in found : s # t) /\ Become(w, Idle)
  /\ UNCHANGED <<tickets, invoices, used, discounts, entered, overtaken>>

CreateTicket(w, t) ==
  /\ local[w].pc = "creating"
  /\ FreshTicket(t)
  /\ LET l == local[w]
     IN /\ tickets' = [tickets EXCEPT ![t] =
                         [who |-> l.who,
                          status |-> IF l.coupon /\ FullDiscount THEN "free" ELSE "pending",
                          cancelled |-> FALSE, number |-> None]]
        /\ Become(w, IF l.coupon THEN [pc |-> "counting", ticket |-> t, read |-> l.read]
                                 ELSE [pc |-> "invoicing", ticket |-> t])
  /\ UNCHANGED <<invoices, used, discounts, entered, overtaken>>

\* Faulty variant: the count is saved as it was read.
CountUse_Lost(w) ==
  /\ local[w].pc = "counting"
  /\ used' = local[w].read
  /\ discounts' = discounts + 1
  /\ Become(w, [pc |-> "invoicing", ticket |-> local[w].ticket])
  /\ UNCHANGED <<tickets, invoices, entered, overtaken>>

\* coupon.used_count += 1, of the instance that was read at the start.
CountUse(w) ==
  /\ local[w].pc = "counting"
  /\ used' = local[w].read + 1
  /\ discounts' = discounts + 1
  /\ Become(w, [pc |-> "invoicing", ticket |-> local[w].ticket])
  /\ UNCHANGED <<tickets, invoices, entered, overtaken>>

\* Faulty variant: an invoice of any ticket will do.
InvoicesOf_Any(t) == {i \in Invoices : invoices[i] # NoInvoice}

InvoicesOf(t) == {i \in Invoices : invoices[i] # NoInvoice /\ invoices[i].ticket = t}

\* The get of Invoice.objects.get_or_create(ticket=ticket).
FindInvoice(w) ==
  /\ local[w].pc = "invoicing"
  /\ LET t == local[w].ticket
         found == InvoicesOf(t)
     IN \/ found = {} /\ Become(w, [pc |-> "billing", ticket |-> t])
        \/ \E i \in found :
             /\ found = {i}
             /\ Become(w, [pc |-> "numbering", ticket |-> t, invoice |-> i])
        \/ (\E i, j \in found : i # j) /\ Become(w, Idle)
  /\ UNCHANGED <<tickets, invoices, used, discounts, entered, overtaken>>

\* An invoice cannot refer to a ticket that is gone.
CreateInvoice(w, i) ==
  /\ local[w].pc = "billing"
  /\ Exists(local[w].ticket)
  /\ FreshInvoice(i)
  /\ invoices' = [invoices EXCEPT ![i] = [ticket |-> local[w].ticket, by_hand |-> FALSE]]
  /\ Become(w, [pc |-> "numbering", ticket |-> local[w].ticket, invoice |-> i])
  /\ UNCHANGED <<tickets, used, discounts, entered, overtaken>>

\* save(update_fields=...): an error if the row is gone.  The last step of an issue, and
\* of an invoice made by hand.
SaveNumber(w) ==
  /\ local[w].pc = "numbering"
  /\ Exists(local[w].ticket)
  /\ tickets' = [tickets EXCEPT ![local[w].ticket].number = local[w].invoice]
  /\ Become(w, Idle)
  /\ UNCHANGED <<invoices, used, discounts, entered, overtaken>>
-----------------------------------------------------------------------------
(* The other forms and buttons of finance_admin, and DELETE over REST. *)

\* InvoiceForm: always a new invoice, whatever others the ticket has.
BillByHand(w, t, i) ==
  /\ "invoice" \in Ops
  /\ local[w] = Idle
  /\ Exists(t)
  /\ FreshInvoice(i)
  /\ invoices' = [invoices EXCEPT ![i] = [ticket |-> t, by_hand |-> TRUE]]
  /\ Become(w, [pc |-> "numbering", ticket |-> t, invoice |-> i])
  /\ UNCHANGED <<tickets, used, discounts, entered, overtaken>>

BeingCancelled(t) == \E v \in Workers : local[v].pc = "cancelling" /\ local[v].ticket = t

\* A payment status is written on purpose, from nothing the request has read.
Enter(t, status) ==
  /\ Exists(t)
  /\ Cardinality({u \in Tickets \ {t} : entered[u] # None}) < MaxEntered
  /\ tickets' = [tickets EXCEPT ![t].status = status]
  /\ entered' = [entered EXCEPT ![t] = status]
  /\ overtaken' = IF BeingCancelled(t) THEN overtaken \union {t} ELSE overtaken \ {t}

EnterPayment(w, t, status) ==
  /\ "payment" \in Ops
  /\ local[w] = Idle
  /\ Enter(t, status)
  /\ UNCHANGED <<invoices, used, local, discounts>>

\* A refund that is saved as paid marks its ticket, whatever the ticket's status.
MarkRefunded(w, t) ==
  /\ "refund" \in Ops
  /\ local[w] = Idle
  /\ Enter(t, "refunded")
  /\ UNCHANGED <<invoices, used, local, discounts>>

LoadTicket(w, t) ==
  /\ "cancel" \in Ops
  /\ local[w] = Idle
  /\ Exists(t)
  /\ Become(w, [pc |-> "cancelling", ticket |-> t, status |-> tickets[t].status])
  /\ UNCHANGED <<tickets, invoices, used, discounts, entered, overtaken>>

\* Faulty variant: whoever is cancelled has not paid.
CancelledStatus_Failed(status) == "failed"

CancelledStatus(status) == IF status = "pending" THEN "failed" ELSE status

\* cancel_ticket saves payment_status too, as it was loaded.
Cancel(w) ==
  /\ local[w].pc = "cancelling"
  /\ LET t == local[w].ticket
     IN /\ Exists(t)
        /\ tickets' = [tickets EXCEPT ![t].cancelled = TRUE,
                                      ![t].status = CancelledStatus(local[w].status)]
  /\ Become(w, Idle)
  /\ UNCHANGED <<invoices, used, discounts, entered, overtaken>>

\* reissue_ticket leaves the payment status as it is.
Reissue(w, t) ==
  /\ "reissue" \in Ops
  /\ local[w] = Idle
  /\ Exists(t)
  /\ tickets' = [tickets EXCEPT ![t].cancelled = FALSE]
  /\ UNCHANGED <<invoices, used, local, discounts, entered, overtaken>>

\* The ticket's invoices stay, without a ticket; nothing looks at them again.
DeleteTicket(w, t) ==
  /\ "delete" \in Ops
  /\ local[w] = Idle
  /\ Exists(t)
  /\ tickets' = [tickets EXCEPT ![t] = NoTicket]
  /\ invoices' = [i \in Invoices |-> IF i \in InvoicesOf(t) THEN NoInvoice ELSE invoices[i]]
  /\ entered' = [entered EXCEPT ![t] = None]
  /\ overtaken' = overtaken \ {t}
  /\ UNCHANGED <<used, local, discounts>>

\* A crash, an error, or the error of a save whose row is gone.
Abandon(w) ==
  /\ local[w] # Idle
  /\ Become(w, Idle)
  /\ UNCHANGED <<tickets, invoices, used, discounts, entered, overtaken>>

Serve(w) ==
  \/ \E p \in Participants, coupon \in BOOLEAN : StartIssue(w, p, coupon)
  \/ FindTicket(w)
  \/ \E t \in Tickets : CreateTicket(w, t)
  \/ CountUse(w)
  \/ FindInvoice(w)
  \/ \E i \in Invoices : CreateInvoice(w, i)
  \/ SaveNumber(w)
  \/ \E t \in Tickets, i \in Invoices : BillByHand(w, t, i)
  \/ \E t \in Tickets, status \in Entries : EnterPayment(w, t, status)
  \/ \E t \in Tickets :
       \/ MarkRefunded(w, t)
       \/ LoadTicket(w, t)
       \/ Reissue(w, t)
       \/ DeleteTicket(w, t)
  \/ Cancel(w)
  \/ Abandon(w)

Next == \E w \in Workers : Serve(w)

Spec == Init /\ [][Next]_vars
-----------------------------------------------------------------------------
\* Of TicketIssueForm.save: how far the unlocked used_count lets tickets pass the
\* coupon's limit.  With one worker MaxUses of them are discounted.  Another worker that
\* has read a count may let it rise to the limit and then put it back to one more than
\* it read, once for every count, and so on for every worker: that adds up to the
\* number of ways to choose |Workers| of MaxUses + |Workers|, less one.  (A request that
\* dies between the two writes leaves a discounted ticket that is never counted.)
DiscountsAreBounded ==
  MaxUses > 0 =>
    discounts <= choose(MaxUses + Cardinality(Workers), Cardinality(Workers)) - 1

\* Of Ticket.objects.get_or_create: the tickets of a participant are at most as many as
\* the requests that can be past the lookup together.
TicketsAreBounded ==
  \A p \in Participants :
    Cardinality({t \in Tickets : Exists(t) /\ tickets[t].who = p}) <= Cardinality(Workers)

\* Of Invoice.objects.get_or_create: so are the invoices a ticket gets on issue, although
\* issuing it again tries again as long as no number is on it.
InvoicesAreBounded ==
  \A t \in Tickets :
    Cardinality({i \in Invoices : /\ invoices[i] # NoInvoice
                                  /\ invoices[i].ticket = t
                                  /\ ~invoices[i].by_hand}) <= Cardinality(Workers)

\* Neither get_or_create has a constraint behind it, and each stays within the workers.
DuplicatesAreBounded == TicketsAreBounded /\ InvoicesAreBounded

\* Of the two places that write invoice_number: it is the number of an invoice of the
\* same ticket.
NumbersAreReal ==
  \A t \in Tickets :
    Exists(t) /\ tickets[t].number # None =>
      /\ invoices[tickets[t].number] # NoInvoice
      /\ invoices[tickets[t].number].ticket = t

\* Of cancel_ticket: a payment or a refund that was entered stays, unless a cancellation
\* held the ticket at that moment.  Only what was entered as pending fails with
\* it, and stays so when the ticket is reissued.
EntriesStand ==
  \A t \in Tickets \ overtaken :
    \/ entered[t] = None
    \/ tickets[t].status = entered[t]
    \/ entered[t] = "pending" /\ tickets[t].status = "failed"
-----------------------------------------------------------------------------
(* Inductive strengthenings. *)

\* A request that has read the coupon's used_count and will save one more.
HoldsCount(w) ==
  \/ local[w].pc = "counting"
  \/ local[w].pc \in {"issuing", "creating"} /\ local[w].coupon

\* From which count w can still go on: the one it holds, or the one that is stored.
Level(w) == IF HoldsCount(w) /\ local[w].read < used THEN local[w].read ELSE used

\* How many workers are at each count or past it.
Levels == [v \in 1 .. MaxUses |-> Cardinality({w \in Workers : Level(w) >= v})]

\* What Levels may be, for a limit of m and k workers, and in which order: by the lowest
\* count where they differ.
Profiles(m, k) == {f \in [1 .. m -> 0 .. k] : \A u, v \in 1 .. m : u <= v => f[v] <= f[u]}

Below(f, g, m) == \E v \in 1 .. m : f[v] < g[v] /\ \A u \in 1 .. v - 1 : f[u] = g[u]

\* Every use that is counted takes Levels higher, and nothing takes it lower.
DiscountsAreBelow ==
  MaxUses > 0 =>
    /\ used <= MaxUses
    /\ \A w \in Workers : HoldsCount(w) => local[w].read < MaxUses
    /\ discounts <= Cardinality({f \in Profiles(MaxUses, Cardinality(Workers)) :
                                   Below(f, Levels, MaxUses)})

\* The tickets of p that somebody found missing and is about to create.
Creators(p) == {w \in Workers : local[w].pc = "creating" /\ local[w].who = p}

TicketsAndCreators ==
  \A p \in Participants :
    Cardinality(TicketsOf(p)) + Cardinality(Creators(p)) <= Cardinality(Workers)

\* The invoices t got on issue, and who is about to create one.
Billed(t)  == {i \in InvoicesOf(t) : ~invoices[i].by_hand}
Billers(t) == {w \in Workers : local[w].pc = "billing" /\ local[w].ticket = t}

InvoicesAndBillers ==
  \A t \in Tickets :
    Cardinality(Billed(t)) + Cardinality(Billers(t)) <= Cardinality(Workers)

\* A request that is about to write a number has the number of the ticket's invoice.
HeldNumbersAreReal ==
  \A w \in Workers :
    local[w].pc = "numbering" /\ Exists(local[w].ticket) =>
      local[w].invoice \in InvoicesOf(local[w].ticket)

\* What was entered for t may have become this.
Agrees(t, status) ==
  \/ status = entered[t]
  \/ entered[t] = "pending" /\ status = "failed"

\* EntriesStand, and cancellations under way write nothing else.
EntriesAreHeld ==
  \A t \in Tickets \ overtaken :
    entered[t] # None =>
      /\ Exists(t)
      /\ Agrees(t, tickets[t].status)
      /\ \A w \in Workers :
           (local[w].pc = "cancelling" /\ local[w].ticket = t) => Agrees(t, local[w].status)
=============================================================================
