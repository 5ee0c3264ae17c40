----------------------------- MODULE FinanceProofs -----------------------------
(***************************************************************************)
(* Theorems about Finance, for every set of participants, tickets, invoices *)
(* and workers, every coupon and every set of statuses clerks enter.       *)
(***************************************************************************)
EXTENDS Finance, FiniteSetTheorems, TLAPS

USE FinanceAssumption

Request == {Idle} \union Issuing \union Counting \union Invoicing \union Numbering
                  \union Cancelling

LEMMA RequestShape ==
  ASSUME TypeOK, NEW w \in Workers
  PROVE  /\ local[w].pc = "idle" <=> local[w] = Idle
         /\ local[w].pc \in {"issuing", "creating"} => local[w] \in Issuing
         /\ local[w].pc = "counting" => local[w] \in Counting
         /\ local[w].pc \in {"invoicing", "billing"} => local[w] \in Invoicing
         /\ local[w].pc = "numbering" => local[w] \in Numbering
         /\ local[w].pc = "cancelling" => local[w] \in Cancelling
  BY DEF TypeOK, Idle, Issuing, Counting, Invoicing, Numbering, Cancelling

\* What Become does to the workers, one by one.
LEMMA BecomeOne ==
  ASSUME TypeOK, NEW w \in Workers, NEW l, Become(w, l)
  PROVE  /\ local'[w] = l
         /\ \A v \in Workers : v # w => local'[v] = local[v]
  BY DEF TypeOK, Become

LEMMA BecomeType ==
  ASSUME TypeOK, NEW w \in Workers, NEW l \in Request, Become(w, l)
  PROVE  local' \in [Workers -> Request]
  BY DEF TypeOK, Become, Request

\* A stored ticket is a ticket.
LEMMA Stored ==
  ASSUME TypeOK, NEW t \in Tickets, Exists(t)
  PROVE  tickets[t] \in Ticket
  BY DEF TypeOK, Exists

\* A ticket is written and a request moves on.
LEMMA WriteType ==
  ASSUME TypeOK, NEW t \in Tickets, NEW r \in Ticket \union {NoTicket},
         tickets' = [tickets EXCEPT ![t] = r]
  PROVE  tickets' \in [Tickets -> Ticket \union {NoTicket}]
  BY DEF TypeOK

LEMMA EnterType ==
  ASSUME TypeOK, NEW t \in Tickets, NEW status \in PaymentStatuses, Enter(t, status),
         UNCHANGED <<invoices, used, local, discounts>>
  PROVE  TypeOK'
<1>1. tickets' \in [Tickets -> Ticket \union {NoTicket}]
  BY Stored DEF TypeOK, Enter, Ticket
<1>2. /\ entered' \in [Tickets -> PaymentStatuses \union {None}]
      /\ overtaken' \subseteq Tickets
  BY DEF TypeOK, Enter
<1> QED
  BY <1>1, <1>2 DEF TypeOK

LEMMA TypeStep ==
  ASSUME TypeOK, [Next]_vars
  PROVE  TypeOK'
<1>1. ASSUME NEW w \in Workers, NEW l \in Request, Become(w, l),
             UNCHANGED <<tickets, invoices, used, discounts, entered, overtaken>>
      PROVE  TypeOK'
  <2>1. local' \in [Workers -> Request]
    BY <1>1, BecomeType
  <2> QED
    BY <1>1, <2>1 DEF TypeOK, Request
<1>2. ASSUME NEW w \in Workers, NEW p \in Participants, NEW coupon \in BOOLEAN,
             StartIssue(w, p, coupon)
      PROVE  TypeOK'
  <2>1. [pc |-> "issuing", who |-> p, coupon |-> coupon,
         read |-> IF coupon THEN used ELSE 0] \in Request
    BY DEF TypeOK, Request, Issuing
  <2> QED
    BY <1>1, <1>2, <2>1 DEF StartIssue
<1>3. ASSUME NEW w \in Workers, FindTicket(w)
      PROVE  TypeOK'
  <2>1. local[w] \in Issuing
    BY <1>3, RequestShape DEF FindTicket
  <2>2. /\ [local[w] EXCEPT !.pc = "creating"] \in Request /\ Idle \in Request
        /\ \A t \in Tickets : [pc |-> "invoicing", ticket |-> t] \in Request
    BY <2>1 DEF Issuing, Invoicing, Request
  <2>3. TicketsOf(local[w].who) \subseteq Tickets
    BY DEF TicketsOf
  <2> QED
    BY <1>1, <1>3, <2>2, <2>3 DEF FindTicket
<1>4. ASSUME NEW w \in Workers, NEW t \in Tickets, CreateTicket(w, t)
      PROVE  TypeOK'
  <2>1. local[w] \in Issuing
    BY <1>4, RequestShape DEF CreateTicket
  <2>2. [who |-> local[w].who,
         status |-> IF local[w].coupon /\ FullDiscount THEN "free" ELSE "pending",
         cancelled |-> FALSE, number |-> None] \in Ticket
    BY <2>1 DEF Issuing, Ticket, PaymentStatuses
  <2>3. tickets' \in [Tickets -> Ticket \union {NoTicket}]
    BY <1>4, <2>2, WriteType DEF CreateTicket
  <2>4. /\ [pc |-> "counting", ticket |-> t, read |-> local[w].read] \in Request
        /\ [pc |-> "invoicing", ticket |-> t] \in Request
    BY <2>1 DEF Issuing, Counting, Invoicing, Request
  <2>5. local' \in [Workers -> Request]
    BY <1>4, <2>4, BecomeType DEF CreateTicket
  <2> QED
    BY <1>4, <2>3, <2>5 DEF TypeOK, CreateTicket, Request
<1>5. ASSUME NEW w \in Workers, CountUse(w)
      PROVE  TypeOK'
  <2>1. local[w] \in Counting
    BY <1>5, RequestShape DEF CountUse
  <2>2. [pc |-> "invoicing", ticket |-> local[w].ticket] \in Request /\ local[w].read \in Nat
    BY <2>1 DEF Counting, Invoicing, Request
  <2>3. local' \in [Workers -> Request]
    BY <1>5, <2>2, BecomeType DEF CountUse
  <2> QED
    BY <1>5, <2>2, <2>3 DEF TypeOK, CountUse, Request
<1>6. ASSUME NEW w \in Workers, FindInvoice(w)
      PROVE  TypeOK'
  <2>1. local[w] \in Invoicing
    BY <1>6, RequestShape DEF FindInvoice
  <2>2. /\ [pc |-> "billing", ticket |-> local[w].ticket] \in Request /\ Idle \in Request
        /\ \A i \in Invoices :
             [pc |-> "numbering", ticket |-> local[w].ticket, invoice |-> i] \in Request
    BY <2>1 DEF Invoicing, Numbering, Request
  <2>3. InvoicesOf(local[w].ticket) \subseteq Invoices
    BY DEF InvoicesOf
  <2> QED
    BY <1>1, <1>6, <2>2, <2>3 DEF FindInvoice
<1>7. ASSUME NEW w \in Workers, NEW t \in Tickets, NEW i \in Invoices, NEW b \in BOOLEAN,
             invoices' = [invoices EXCEPT ![i] = [ticket |-> t, by_hand |-> b]],
             Become(w, [pc |-> "numbering", ticket |-> t, invoice |-> i]),
             UNCHANGED <<tickets, used, discounts, entered, overtaken>>
      PROVE  TypeOK'
  <2>1. [pc |-> "numbering", ticket |-> t, invoice |-> i] \in Request
    BY DEF Numbering, Request
  <2>2. local' \in [Workers -> Request]
    BY <1>7, <2>1, BecomeType
  <2>3. [ticket |-> t, by_hand |-> b] \in Invoice
    BY DEF Invoice
  <2>4. invoices' \in [Invoices -> Invoice \union {NoInvoice}]
    BY <1>7, <2>3 DEF TypeOK
  <2> QED
    BY <1>7, <2>2, <2>4 DEF TypeOK, Request
<1>8. ASSUME NEW w \in Workers, NEW i \in Invoices, CreateInvoice(w, i)
      PROVE  TypeOK'
  <2>1. local[w].ticket \in Tickets
    BY <1>8, RequestShape DEF CreateInvoice, Invoicing
  <2> QED
    BY <1>7, <1>8, <2>1 DEF CreateInvoice
<1>9. ASSUME NEW w \in Workers, NEW t \in Tickets, NEW i \in Invoices, BillByHand(w, t, i)
      PROVE  TypeOK'
  BY <1>7, <1>9 DEF BillByHand
<1>10. ASSUME NEW w \in Workers, SaveNumber(w)
       PROVE  TypeOK'
  <2>1. local[w] \in Numbering
    BY <1>10, RequestShape DEF SaveNumber
  <2>2. PICK t \in Tickets, i \in Invoices : t = local[w].ticket /\ i = local[w].invoice
    BY <2>1 DEF Numbering
  <2>3. tickets' = [tickets EXCEPT ![t].number = i] /\ tickets[t] \in Ticket
    BY <1>10, <2>2, Stored DEF SaveNumber
  <2>4. tickets' \in [Tickets -> Ticket \union {NoTicket}]
    BY <2>3 DEF TypeOK, Ticket
  <2>5. local' \in [Workers -> Request]
    BY <1>10, BecomeType DEF SaveNumber, Request
  <2> QED
    BY <1>10, <2>4, <2>5 DEF TypeOK, SaveNumber, Request
<1>11. ASSUME NEW w \in Workers, NEW t \in Tickets, NEW status \in Entries,
              EnterPayment(w, t, status)
       PROVE  TypeOK'
  <2>1. status \in PaymentStatuses
    BY DEF FinanceAssumption
  <2> QED
    BY <1>11, <2>1, EnterType DEF EnterPayment
<1>12. ASSUME NEW w \in Workers, NEW t \in Tickets, MarkRefunded(w, t)
       PROVE  TypeOK'
  <2>1. "refunded" \in PaymentStatuses
    BY DEF PaymentStatuses
  <2> QED
    BY <1>12, <2>1, EnterType DEF MarkRefunded
<1>13. ASSUME NEW w \in Workers, NEW t \in Tickets, LoadTicket(w, t)
       PROVE  TypeOK'
  <2>1. tickets[t].status \in PaymentStatuses
    BY <1>13, Stored DEF LoadTicket, Ticket
  <2>2. [pc |-> "cancelling", ticket |-> t, status |-> tickets[t].status] \in Request
    BY <2>1 DEF Cancelling, Request
  <2> QED
    BY <1>1, <1>13, <2>2 DEF LoadTicket
<1>14. ASSUME NEW w \in Workers, Cancel(w)
       PROVE  TypeOK'
  <2>1. local[w] \in Cancelling
    BY <1>14, RequestShape DEF Cancel
  <2>2. PICK t \in Tickets, s \in PaymentStatuses :
          t = local[w].ticket /\ s = CancelledStatus(local[w].status)
    BY <2>1 DEF Cancelling, CancelledStatus, PaymentStatuses
  <2>3. /\ tickets' = [tickets EXCEPT ![t].cancelled = TRUE, ![t].status = s]
        /\ tickets[t] \in Ticket
    BY <1>14, <2>2, Stored DEF Cancel
  <2>4. tickets' \in [Tickets -> Ticket \union {NoTicket}]
    BY <2>3 DEF TypeOK, Ticket
  <2>5. local' \in [Workers -> Request]
    BY <1>14, BecomeType DEF Cancel, Request
  <2> QED
    BY <1>14, <2>4, <2>5 DEF TypeOK, Cancel, Request
<1>15. ASSUME NEW w \in Workers, NEW t \in Tickets, Reissue(w, t)
       PROVE  TypeOK'
  <2>1. tickets' \in [Tickets -> Ticket \union {NoTicket}]
    BY <1>15, Stored DEF TypeOK, Reissue, Ticket
  <2> QED
    BY <1>15, <2>1 DEF TypeOK, Reissue
<1>16. ASSUME NEW w \in Workers, NEW t \in Tickets, DeleteTicket(w, t)
       PROVE  TypeOK'
  <2>1. tickets' \in [Tickets -> Ticket \union {NoTicket}]
    BY <1>16 DEF TypeOK, DeleteTicket
  <2>2. invoices' \in [Invoices -> Invoice \union {NoInvoice}]
    BY <1>16 DEF TypeOK, DeleteTicket
  <2>3. entered' \in [Tickets -> PaymentStatuses \union {None}] /\ overtaken' \subseteq Tickets
    BY <1>16 DEF TypeOK, DeleteTicket
  <2> QED
    BY <1>16, <2>1, <2>2, <2>3 DEF TypeOK, DeleteTicket
<1>17. ASSUME NEW w \in Workers, Abandon(w)
       PROVE  TypeOK'
  BY <1>1, <1>17 DEF Abandon, Request
<1>18. CASE UNCHANGED vars
  BY <1>18 DEF TypeOK, vars
<1> QED
  BY <1>2, <1>3, <1>4, <1>5, <1>6, <1>8, <1>9, <1>10, <1>11, <1>12, <1>13, <1>14, <1>15,
     <1>16, <1>17, <1>18 DEF Next, Serve

\* Every variable keeps its type: a ticket has one of the statuses of the model, and a
\* request holds what its stage has read.
THEOREM FinanceTypeCorrect == Spec => []TypeOK
<1>1. Init => TypeOK
  BY DEF Init, TypeOK
<1> QED
  BY <1>1, TypeStep, PTL DEF Spec
-----------------------------------------------------------------------------
(***************************************************************************)
(* Two finite sets and the sum of their sizes.                             *)
(***************************************************************************)

LEMMA NoneMoved ==
  ASSUME NEW A, NEW B, NEW C, NEW D, IsFiniteSet(A), IsFiniteSet(B),
         C \subseteq A, D \subseteq B
  PROVE  Cardinality(C) + Cardinality(D) <= Cardinality(A) + Cardinality(B)
<1>1. /\ IsFiniteSet(C) /\ Cardinality(C) <= Cardinality(A)
      /\ IsFiniteSet(D) /\ Cardinality(D) <= Cardinality(B)
  BY FS_Subset
<1>2. /\ Cardinality(A) \in Nat /\ Cardinality(B) \in Nat
      /\ Cardinality(C) \in Nat /\ Cardinality(D) \in Nat
  BY <1>1, FS_CardinalityType
<1> QED
  BY <1>1, <1>2

\* One leaves B, and one at most comes into A.
LEMMA OneMoved ==
  ASSUME NEW A, NEW B, NEW C, NEW D, IsFiniteSet(A), IsFiniteSet(B),
         NEW x, NEW y \in B, C \subseteq A \union {x}, D \subseteq B \ {y}
  PROVE  Cardinality(C) + Cardinality(D) <= Cardinality(A) + Cardinality(B)
<1>1. IsFiniteSet(A \union {x}) /\ Cardinality(A \union {x}) <= Cardinality(A) + 1
  <2>1. /\ IsFiniteSet(A \union {x})
        /\ Cardinality(A \union {x}) = IF x \in A THEN Cardinality(A) ELSE Cardinality(A) + 1
    BY FS_AddElement
  <2>2. Cardinality(A) \in Nat
    BY FS_CardinalityType
  <2> QED
    BY <2>1, <2>2
<1>2. IsFiniteSet(B \ {y}) /\ Cardinality(B \ {y}) = Cardinality(B) - 1
  BY FS_RemoveElement
<1>3. Cardinality(C) + Cardinality(D) <= Cardinality(A \union {x}) + Cardinality(B \ {y})
  BY <1>1, <1>2, NoneMoved
<1>4. /\ Cardinality(A) \in Nat /\ Cardinality(B) \in Nat
      /\ Cardinality(A \union {x}) \in Nat
      /\ IsFiniteSet(C) /\ IsFiniteSet(D)
  BY <1>1, <1>2, FS_CardinalityType, FS_Subset
<1>5. Cardinality(C) \in Nat /\ Cardinality(D) \in Nat
  BY <1>4, FS_CardinalityType
<1> QED
  BY <1>1, <1>2, <1>3, <1>4, <1>5

\* Nobody had one before: everybody is about to make the first at most.
LEMMA FirstOnes ==
  ASSUME NEW C, NEW D, C = {}, D \subseteq Workers
  PROVE  Cardinality(C) + Cardinality(D) <= Cardinality(Workers)
<1>1. IsFiniteSet(Workers) /\ Cardinality(C) = 0
  BY FS_EmptySet DEF FinanceAssumption
<1>2. /\ IsFiniteSet(D) /\ Cardinality(D) <= Cardinality(Workers)
      /\ Cardinality(Workers) \in Nat
  BY <1>1, FS_Subset, FS_CardinalityType
<1>3. Cardinality(D) \in Nat
  BY <1>2, FS_CardinalityType
<1> QED
  BY <1>1, <1>2, <1>3

\* The two sizes are numbers.
LEMMA Sizes ==
  ASSUME NEW A, NEW B, IsFiniteSet(A), IsFiniteSet(B)
  PROVE  /\ Cardinality(A) \in Nat /\ Cardinality(B) \in Nat
         /\ Cardinality(Workers) \in Nat
  BY FS_CardinalityType DEF FinanceAssumption

LEMMA Finite ==
  /\ \A p \in Participants : IsFiniteSet(TicketsOf(p)) /\ IsFiniteSet(Creators(p))
  /\ \A p \in Participants : IsFiniteSet(TicketsOf(p)') /\ IsFiniteSet(Creators(p)')
  /\ \A t \in Tickets : IsFiniteSet(Billed(t)) /\ IsFiniteSet(Billers(t))
  /\ \A t \in Tickets : IsFiniteSet(Billed(t)') /\ IsFiniteSet(Billers(t)')
<1>1. IsFiniteSet(Tickets) /\ IsFiniteSet(Invoices) /\ IsFiniteSet(Workers)
  BY DEF FinanceAssumption
<1>2. \A p \in Participants :
        /\ TicketsOf(p) \subseteq Tickets /\ TicketsOf(p)' \subseteq Tickets
        /\ Creators(p) \subseteq Workers /\ Creators(p)' \subseteq Workers
  BY DEF TicketsOf, Creators
<1>3. \A t \in Tickets :
        /\ Billed(t) \subseteq Invoices /\ Billed(t)' \subseteq Invoices
        /\ Billers(t) \subseteq Workers /\ Billers(t)' \subseteq Workers
  BY DEF Billed, InvoicesOf, Billers
<1> QED
  BY <1>1, <1>2, <1>3, FS_Subset
-----------------------------------------------------------------------------
(***************************************************************************)
(* What the steps do to tickets and invoices.                              *)
(***************************************************************************)

\* No ticket is new, and each that stays belongs to the same participant.
NoTicketAdded == \A t \in Tickets : Exists(t)' => Exists(t) /\ tickets'[t].who = tickets[t].who

\* So with the numbers on them.
NumbersKept ==
  \A t \in Tickets : Exists(t)' => Exists(t) /\ tickets'[t].number = tickets[t].number

\* A statement that changes columns of one ticket.
LEMMA OneTicket ==
  ASSUME TypeOK, NEW t \in Tickets, Exists(t), NEW r,
         tickets' = [tickets EXCEPT ![t] = r], r.who = tickets[t].who
  PROVE  NoTicketAdded /\ (r.number = tickets[t].number => NumbersKept)
<1>1. \A u \in Tickets : u # t => tickets'[u] = tickets[u]
  BY DEF TypeOK
<1>2. tickets'[t] = r
  BY DEF TypeOK
<1> QED
  BY <1>1, <1>2 DEF NoTicketAdded, NumbersKept, Exists

\* The actions that leave the invoices alone and only change columns of tickets.
Columns(w) ==
  \/ \E t \in Tickets, status \in Entries : EnterPayment(w, t, status)
  \/ \E t \in Tickets : MarkRefunded(w, t) \/ Reissue(w, t)
  \/ Cancel(w)

LEMMA ColumnsKeep ==
  ASSUME TypeOK, NEW w \in Workers, Columns(w)
  PROVE  NoTicketAdded /\ NumbersKept /\ invoices' = invoices
<1>1. ASSUME NEW t \in Tickets, NEW status, Enter(t, status)
      PROVE  NoTicketAdded /\ NumbersKept
  <2>1. tickets[t] \in Ticket
    BY <1>1, Stored DEF Enter
  <2>2. tickets' = [tickets EXCEPT ![t] = [tickets[t] EXCEPT !.status = status]]
    BY <1>1 DEF Enter
  <2>3. /\ [tickets[t] EXCEPT !.status = status].who = tickets[t].who
        /\ [tickets[t] EXCEPT !.status = status].number = tickets[t].number
    BY <2>1 DEF Ticket
  <2> QED
    BY <1>1, <2>2, <2>3, OneTicket DEF Enter
<1>2. ASSUME NEW t \in Tickets, Reissue(w, t)
      PROVE  NoTicketAdded /\ NumbersKept
  <2>1. tickets[t] \in Ticket
    BY <1>2, Stored DEF Reissue
  <2>2. tickets' = [tickets EXCEPT ![t] = [tickets[t] EXCEPT !.cancelled = FALSE]]
    BY <1>2 DEF Reissue
  <2>3. /\ [tickets[t] EXCEPT !.cancelled = FALSE].who = tickets[t].who
        /\ [tickets[t] EXCEPT !.cancelled = FALSE].number = tickets[t].number
    BY <2>1 DEF Ticket
  <2> QED
    BY <1>2, <2>2, <2>3, OneTicket DEF Reissue
<1>3. ASSUME Cancel(w)
      PROVE  NoTicketAdded /\ NumbersKept
  <2>1. local[w] \in Cancelling
    BY <1>3, RequestShape DEF Cancel
  <2>2. PICK t \in Tickets, s \in PaymentStatuses :
          t = local[w].ticket /\ s = CancelledStatus(local[w].status)
    BY <2>1 DEF Cancelling, CancelledStatus, PaymentStatuses
  <2>3. tickets[t] \in Ticket
    BY <1>3, <2>2, Stored DEF Cancel
  <2>4. \A u \in Tickets : u # t => tickets'[u] = tickets[u]
    BY <1>3, <2>2 DEF TypeOK, Cancel
  <2>5. tickets'[t].who = tickets[t].who /\ tickets'[t].number = tickets[t].number
    BY <1>3, <2>2, <2>3 DEF TypeOK, Cancel, Ticket
  <2>6. Exists(t)
    BY <1>3, <2>2 DEF Cancel
  <2> QED
    BY <2>4, <2>5, <2>6 DEF NoTicketAdded, NumbersKept, Exists
<1> QED
  BY <1>1, <1>2, <1>3 DEF Columns, EnterPayment, MarkRefunded, Reissue, Cancel

\* The actions that leave tickets and invoices alone.
Silent(w) ==
  \/ \E p \in Participants, coupon \in BOOLEAN : StartIssue(w, p, coupon)
  \/ FindTicket(w)
  \/ CountUse(w)
  \/ FindInvoice(w)
  \/ \E t \in Tickets : LoadTicket(w, t)
  \/ Abandon(w)

LEMMA SilentKeeps ==
  ASSUME NEW w \in Workers, Silent(w)
  PROVE  NoTicketAdded /\ NumbersKept /\ invoices' = invoices /\ tickets' = tickets
  BY DEF Silent, StartIssue, FindTicket, CountUse, FindInvoice, LoadTicket, Abandon,
         NoTicketAdded, NumbersKept, Exists

\* What a silent step leaves the worker with.
Becomes(w, l) ==
  /\ Become(w, l)
  /\ l.pc = "creating" => FindTicket(w)
  /\ l.pc \in {"billing", "numbering"} => FindInvoice(w)
  /\ l.pc = "cancelling" => \E t \in Tickets : LoadTicket(w, t)

LEMMA SilentBecomes ==
  ASSUME TypeOK, NEW w \in Workers, Silent(w)
  PROVE  \E l : Becomes(w, l)
<1>1. ASSUME NEW p \in Participants, NEW coupon \in BOOLEAN, StartIssue(w, p, coupon)
      PROVE  \E l : Becomes(w, l)
  <2>1. Becomes(w, [pc |-> "issuing", who |-> p, coupon |-> coupon,
                    read |-> IF coupon THEN used ELSE 0])
    BY <1>1 DEF StartIssue, Becomes
  <2> QED
    BY <2>1
<1>2. ASSUME Become(w, Idle)
      PROVE  \E l : Becomes(w, l)
  <2>1. Becomes(w, Idle)
    BY <1>2 DEF Becomes, Idle
  <2> QED
    BY <2>1
<1>3. ASSUME NEW t, Become(w, [pc |-> "invoicing", ticket |-> t])
      PROVE  \E l : Becomes(w, l)
  <2>1. Becomes(w, [pc |-> "invoicing", ticket |-> t])
    BY <1>3 DEF Becomes
  <2> QED
    BY <2>1
<1>4. ASSUME FindTicket(w)
      PROVE  \E l : Becomes(w, l)
  <2>1. local[w] \in Issuing
    BY <1>4, RequestShape DEF FindTicket
  <2>2. ASSUME Become(w, [local[w] EXCEPT !.pc = "creating"])
        PROVE  \E l : Becomes(w, l)
    <3>1. [local[w] EXCEPT !.pc = "creating"].pc = "creating"
      BY <2>1 DEF Issuing
    <3>2. Becomes(w, [local[w] EXCEPT !.pc = "creating"])
      BY <1>4, <2>2, <3>1 DEF Becomes
    <3> QED
      BY <3>2
  <2>3. ASSUME NEW t, Become(w, IF tickets[t].number = None
                                THEN [pc |-> "invoicing", ticket |-> t] ELSE Idle)
        PROVE  \E l : Becomes(w, l)
    BY <1>2, <1>3, <2>3
  <2> QED
    BY <1>2, <1>4, <2>2, <2>3 DEF FindTicket
<1>5. ASSUME CountUse(w)
      PROVE  \E l : Becomes(w, l)
  BY <1>3, <1>5 DEF CountUse
<1>6. ASSUME FindInvoice(w)
      PROVE  \E l : Becomes(w, l)
  <2>1. ASSUME NEW t, Become(w, [pc |-> "billing", ticket |-> t])
        PROVE  \E l : Becomes(w, l)
    <3>1. Becomes(w, [pc |-> "billing", ticket |-> t])
      BY <1>6, <2>1 DEF Becomes
    <3> QED
      BY <3>1
  <2>2. ASSUME NEW t, NEW i, Become(w, [pc |-> "numbering", ticket |-> t, invoice |-> i])
        PROVE  \E l : Becomes(w, l)
    <3>1. Becomes(w, [pc |-> "numbering", ticket |-> t, invoice |-> i])
      BY <1>6, <2>2 DEF Becomes
    <3> QED
      BY <3>1
  <2> QED
    BY <1>2, <1>6, <2>1, <2>2 DEF FindInvoice
<1>7. ASSUME NEW t \in Tickets, LoadTicket(w, t)
      PROVE  \E l : Becomes(w, l)
  <2>1. Becomes(w, [pc |-> "cancelling", ticket |-> t, status |-> tickets[t].status])
    BY <1>7 DEF LoadTicket, Becomes
  <2> QED
    BY <2>1
<1> QED
  BY <1>1, <1>2, <1>4, <1>5, <1>6, <1>7 DEF Silent, Abandon

LEMMA SaveKeeps ==
  ASSUME TypeOK, NEW w \in Workers, SaveNumber(w)
  PROVE  NoTicketAdded
<1>1. local[w] \in Numbering
  BY RequestShape DEF SaveNumber
<1>2. PICK t \in Tickets, i \in Invoices : t = local[w].ticket /\ i = local[w].invoice
  BY <1>1 DEF Numbering
<1>3. tickets[t] \in Ticket /\ Exists(t)
  BY <1>2, Stored DEF SaveNumber
<1>4. tickets' = [tickets EXCEPT ![t] = [tickets[t] EXCEPT !.number = i]]
  BY <1>2 DEF SaveNumber
<1>5. [tickets[t] EXCEPT !.number = i].who = tickets[t].who
  BY <1>3 DEF Ticket
<1> QED
  BY <1>3, <1>4, <1>5, OneTicket

LEMMA DeleteKeeps ==
  ASSUME TypeOK, NEW w \in Workers, NEW t \in Tickets, DeleteTicket(w, t)
  PROVE  /\ NoTicketAdded /\ NumbersKept /\ ~Exists(t)'
         /\ \A i \in Invoices : invoices'[i] = IF i \in InvoicesOf(t) THEN NoInvoice
                                                                   ELSE invoices[i]
<1>1. \A u \in Tickets : u # t => tickets'[u] = tickets[u]
  BY DEF TypeOK, DeleteTicket
<1>2. tickets'[t] = NoTicket
  BY DEF TypeOK, DeleteTicket
<1> QED
  BY <1>1, <1>2 DEF NoTicketAdded, NumbersKept, Exists, DeleteTicket

LEMMA ServeCases ==
  ASSUME NEW w \in Workers, Serve(w)
  PROVE  \/ Silent(w) \/ Columns(w) \/ SaveNumber(w)
         \/ \E t \in Tickets : CreateTicket(w, t) \/ DeleteTicket(w, t)
         \/ \E i \in Invoices : CreateInvoice(w, i)
         \/ \E t \in Tickets, i \in Invoices : BillByHand(w, t, i)
  BY DEF Serve, Silent, Columns
-----------------------------------------------------------------------------
(***************************************************************************)
(* How many tickets a participant can have.                                *)
(***************************************************************************)

LEMMA TicketsStep ==
  ASSUME TypeOK, TicketsAndCreators, [Next]_vars
  PROVE  TicketsAndCreators'
<1> SUFFICES ASSUME NEW p \in Participants
             PROVE  Cardinality(TicketsOf(p)') + Cardinality(Creators(p)')
                      <= Cardinality(Workers)
  BY DEF TicketsAndCreators
<1> DEFINE Fits == Cardinality(TicketsOf(p)') + Cardinality(Creators(p)')
                     <= Cardinality(Workers)
<1>1. ASSUME Cardinality(TicketsOf(p)') + Cardinality(Creators(p)')
               <= Cardinality(TicketsOf(p)) + Cardinality(Creators(p))
      PROVE  Fits
  <2>1. /\ Cardinality(TicketsOf(p)) \in Nat /\ Cardinality(Creators(p)) \in Nat
        /\ Cardinality(TicketsOf(p)') \in Nat /\ Cardinality(Creators(p)') \in Nat
        /\ Cardinality(Workers) \in Nat
    BY Finite, Sizes
  <2> QED
    BY <1>1, <2>1 DEF TicketsAndCreators
<1>2. ASSUME NoTicketAdded, Creators(p)' \subseteq Creators(p)
      PROVE  Fits
  <2>1. TicketsOf(p)' \subseteq TicketsOf(p)
    BY <1>2 DEF NoTicketAdded, TicketsOf
  <2> QED
    BY <1>1, <1>2, <2>1, Finite, NoneMoved
<1>3. ASSUME NEW w \in Workers, NEW l, Become(w, l), l.pc # "creating"
      PROVE  Creators(p)' \subseteq Creators(p) \ {w}
  BY <1>3, BecomeOne DEF Creators
<1>4. local' = local => Creators(p)' \subseteq Creators(p)
  BY DEF Creators
<1>5. ASSUME NEW w \in Workers, FindTicket(w)
      PROVE  Fits
  <2>1. local[w] \in Issuing /\ NoTicketAdded
    BY <1>5, RequestShape, SilentKeeps DEF FindTicket, Silent
  <2>2. PICK q \in Participants : q = local[w].who
    BY <2>1 DEF Issuing
  <2>3. ASSUME TicketsOf(q) = {}, Become(w, [local[w] EXCEPT !.pc = "creating"])
        PROVE  Fits
    <3>1. [local[w] EXCEPT !.pc = "creating"].who = q
      BY <2>1, <2>2 DEF Issuing
    <3>2. p # q => Creators(p)' \subseteq Creators(p)
      BY <2>3, <3>1, BecomeOne DEF Creators
    <3>3. p = q => TicketsOf(p)' = {} /\ Creators(p)' \subseteq Workers
      BY <2>1, <2>3 DEF NoTicketAdded, TicketsOf, Creators
    <3> QED
      BY <1>2, <2>1, <3>2, <3>3, FirstOnes
  <2>4. ASSUME NEW l, Become(w, l), l.pc # "creating"
        PROVE  Fits
    BY <1>2, <1>3, <2>1, <2>4
  <2>5. ASSUME NEW t \in Tickets,
               Become(w, IF tickets[t].number = None
                         THEN [pc |-> "invoicing", ticket |-> t] ELSE Idle)
        PROVE  Fits
    BY <2>4, <2>5 DEF Idle
  <2>6. TicketsOf(q) \subseteq Tickets
    BY DEF TicketsOf
  <2>7. Become(w, Idle) => Fits
    BY <2>4 DEF Idle
  <2> QED
    BY <1>5, <2>2, <2>3, <2>5, <2>6, <2>7 DEF FindTicket
<1>6. ASSUME NEW w \in Workers, NEW t \in Tickets, CreateTicket(w, t)
      PROVE  Fits
  <2>1. local[w] \in Issuing
    BY <1>6, RequestShape DEF CreateTicket
  <2>2. PICK q \in Participants : q = local[w].who
    BY <2>1 DEF Issuing
  <2>3. /\ \A u \in Tickets : u # t => tickets'[u] = tickets[u]
        /\ tickets'[t].who = q
    BY <1>6, <2>2 DEF TypeOK, CreateTicket
  <2>4. TicketsOf(p)' \subseteq TicketsOf(p) \union {t}
    BY <2>3 DEF TicketsOf, Exists
  <2>5. Creators(p)' \subseteq Creators(p) \ {w}
    BY <1>3, <1>6 DEF CreateTicket
  <2>6. CASE p = q
    <3>1. w \in Creators(p)
      BY <1>6, <2>2, <2>6 DEF CreateTicket, Creators
    <3> QED
      BY <1>1, <2>4, <2>5, <3>1, Finite, OneMoved
  <2>7. CASE p # q
    <3>1. TicketsOf(p)' \subseteq TicketsOf(p)
      BY <2>3, <2>4, <2>7 DEF TicketsOf
    <3>2. Creators(p)' \subseteq Creators(p)
      BY <2>5
    <3> QED
      BY <1>1, <3>1, <3>2, Finite, NoneMoved
  <2> QED
    BY <2>6, <2>7
<1>7. ASSUME NEW w \in Workers, Columns(w)
      PROVE  Fits
  <2>1. \/ local' = local
        \/ Become(w, Idle)
    BY <1>7 DEF Columns, EnterPayment, MarkRefunded, Reissue, Cancel
  <2>2. Creators(p)' \subseteq Creators(p)
    BY <1>3, <1>4, <2>1 DEF Idle
  <2> QED
    BY <1>2, <1>7, <2>2, ColumnsKeep
<1>8. ASSUME NEW w \in Workers, Silent(w), ~FindTicket(w)
      PROVE  Fits
  <2>1. \E l : Become(w, l) /\ l.pc # "creating"
    BY <1>8, SilentBecomes DEF Becomes
  <2> QED
    BY <1>2, <1>3, <1>8, <2>1, SilentKeeps
<1>9. ASSUME NEW w \in Workers, SaveNumber(w)
      PROVE  Fits
  BY <1>2, <1>3, <1>9, SaveKeeps DEF SaveNumber, Idle
<1>10. ASSUME NEW w \in Workers, NEW t \in Tickets, DeleteTicket(w, t)
       PROVE  Fits
  BY <1>2, <1>4, <1>10, DeleteKeeps DEF DeleteTicket
<1>11. ASSUME NEW w \in Workers, NEW l, Become(w, l), l.pc = "numbering", tickets' = tickets
       PROVE  Fits
  <2>1. NoTicketAdded
    BY <1>11 DEF NoTicketAdded, Exists
  <2> QED
    BY <1>2, <1>3, <1>11, <2>1
<1>12. ASSUME NEW w \in Workers, NEW i \in Invoices, CreateInvoice(w, i)
       PROVE  Fits
  BY <1>11, <1>12 DEF CreateInvoice
<1>13. ASSUME NEW w \in Workers, NEW t \in Tickets, NEW i \in Invoices, BillByHand(w, t, i)
       PROVE  Fits
  BY <1>11, <1>13 DEF BillByHand
<1>14. CASE UNCHANGED vars
  BY <1>2, <1>4, <1>14 DEF vars, NoTicketAdded, Exists
<1> QED
  BY <1>5, <1>6, <1>7, <1>8, <1>9, <1>10, <1>12, <1>13, <1>14, ServeCases DEF Next

\* Of Ticket.objects.get_or_create: a participant has as many tickets as there are
\* worker processes at most, because whoever creates one found none before.
THEOREM TicketsBounded == Spec => []TicketsAreBounded
<1>1. Init => TicketsAndCreators
  <2>1. ASSUME Init, NEW p \in Participants
        PROVE  TicketsOf(p) = {} /\ Creators(p) = {}
    BY <2>1 DEF Init, TicketsOf, Creators, Exists, Idle
  <2> QED
    BY <2>1, FirstOnes DEF TicketsAndCreators
<1>2. TypeOK /\ TicketsAndCreators /\ [Next]_vars => TicketsAndCreators'
  BY TicketsStep
<1>3. TicketsAndCreators => TicketsAreBounded
  <2> SUFFICES ASSUME TicketsAndCreators, NEW p \in Participants
               PROVE  Cardinality({t \in Tickets : Exists(t) /\ tickets[t].who = p})
                        <= Cardinality(Workers)
    BY DEF TicketsAreBounded
  <2>1. Cardinality(TicketsOf(p)) <= Cardinality(Workers)
    BY Finite, Sizes DEF TicketsAndCreators
  <2> QED
    BY <2>1 DEF TicketsOf
<1> QED
  BY <1>1, <1>2, <1>3, FinanceTypeCorrect, PTL DEF Spec
-----------------------------------------------------------------------------
(***************************************************************************)
(* How many invoices a ticket can get on issue.                            *)
(***************************************************************************)

\* A new row at a key that had none.
LEMMA OneInvoice ==
  ASSUME TypeOK, NEW u \in Tickets, NEW i \in Invoices, NEW b \in BOOLEAN,
         invoices[i] = NoInvoice, invoices' = [invoices EXCEPT ![i] = [ticket |-> u, by_hand |-> b]]
  PROVE  /\ i \in InvoicesOf(u)'
         /\ \A t \in Tickets :
              /\ InvoicesOf(t) \subseteq InvoicesOf(t)'
              /\ Billed(t)' \subseteq Billed(t) \union {i}
              /\ t # u \/ b => Billed(t)' \subseteq Billed(t)
<1>1. /\ \A j \in Invoices : j # i => invoices'[j] = invoices[j]
      /\ invoices'[i] = [ticket |-> u, by_hand |-> b]
  BY DEF TypeOK
<1>2. invoices'[i] # NoInvoice /\ invoices'[i].ticket = u /\ invoices'[i].by_hand = b
  BY <1>1 DEF NoInvoice
<1>3. i \in InvoicesOf(u)' /\ \A t \in Tickets : InvoicesOf(t) \subseteq InvoicesOf(t)'
  BY <1>1, <1>2 DEF InvoicesOf
<1>4. ASSUME NEW t \in Tickets
      PROVE  /\ Billed(t)' \subseteq Billed(t) \union {i}
             /\ t # u \/ b => Billed(t)' \subseteq Billed(t)
  BY <1>1, <1>2 DEF InvoicesOf, Billed
<1> QED
  BY <1>3, <1>4

LEMMA InvoicesStep ==
  ASSUME TypeOK, InvoicesAndBillers, [Next]_vars
  PROVE  InvoicesAndBillers'
<1> SUFFICES ASSUME NEW t \in Tickets
             PROVE  Cardinality(Billed(t)') + Cardinality(Billers(t)') <= Cardinality(Workers)
  BY DEF InvoicesAndBillers
<1> DEFINE Fits == Cardinality(Billed(t)') + Cardinality(Billers(t)') <= Cardinality(Workers)
<1>1. ASSUME Cardinality(Billed(t)') + Cardinality(Billers(t)')
               <= Cardinality(Billed(t)) + Cardinality(Billers(t))
      PROVE  Fits
  <2>1. /\ Cardinality(Billed(t)) \in Nat /\ Cardinality(Billers(t)) \in Nat
        /\ Cardinality(Billed(t)') \in Nat /\ Cardinality(Billers(t)') \in Nat
        /\ Cardinality(Workers) \in Nat
    BY Finite, Sizes
  <2> QED
    BY <1>1, <2>1 DEF InvoicesAndBillers
<1>2. ASSUME Billed(t)' \subseteq Billed(t), Billers(t)' \subseteq Billers(t)
      PROVE  Fits
  BY <1>1, <1>2, Finite, NoneMoved
<1>3. ASSUME NEW w \in Workers, NEW l, Become(w, l), l.pc # "billing"
      PROVE  Billers(t)' \subseteq Billers(t) \ {w}
  BY <1>3, BecomeOne DEF Billers
<1>4. local' = local => Billers(t)' \subseteq Billers(t)
  BY DEF Billers
<1>5. invoices' = invoices => Billed(t)' \subseteq Billed(t)
  BY DEF Billed, InvoicesOf
<1>6. ASSUME NEW w \in Workers, FindInvoice(w)
      PROVE  Fits
  <2>1. local[w] \in Invoicing /\ invoices' = invoices
    BY <1>6, RequestShape DEF FindInvoice
  <2>2. PICK u \in Tickets : u = local[w].ticket
    BY <2>1 DEF Invoicing
  <2>3. ASSUME InvoicesOf(u) = {}, Become(w, [pc |-> "billing", ticket |-> u])
        PROVE  Fits
    <3>1. t # u => Billers(t)' \subseteq Billers(t)
      BY <2>3, BecomeOne DEF Billers
    <3>2. t = u => Billed(t)' = {} /\ Billers(t)' \subseteq Workers
      BY <2>1, <2>3 DEF Billed, InvoicesOf, Billers
    <3> QED
      BY <1>2, <1>5, <2>1, <3>1, <3>2, FirstOnes
  <2>4. ASSUME NEW l, Become(w, l), l.pc # "billing"
        PROVE  Fits
    BY <1>2, <1>3, <1>5, <2>1, <2>4
  <2>5. ASSUME NEW i, Become(w, [pc |-> "numbering", ticket |-> u, invoice |-> i])
        PROVE  Fits
    BY <2>4, <2>5
  <2>6. Become(w, Idle) => Fits
    BY <2>4 DEF Idle
  <2> QED
    BY <1>6, <2>2, <2>3, <2>5, <2>6 DEF FindInvoice
<1>7. ASSUME NEW w \in Workers, NEW i \in Invoices, CreateInvoice(w, i)
      PROVE  Fits
  <2>1. local[w] \in Invoicing
    BY <1>7, RequestShape DEF CreateInvoice
  <2>2. PICK u \in Tickets : u = local[w].ticket
    BY <2>1 DEF Invoicing
  <2>3. /\ Billed(t)' \subseteq Billed(t) \union {i}
        /\ t # u => Billed(t)' \subseteq Billed(t)
    BY <1>7, <2>2, OneInvoice DEF CreateInvoice, FreshInvoice
  <2>4. Billers(t)' \subseteq Billers(t) \ {w}
    BY <1>3, <1>7 DEF CreateInvoice
  <2>5. CASE t = u
    <3>1. w \in Billers(t)
      BY <1>7, <2>2, <2>5 DEF CreateInvoice, Billers
    <3> QED
      BY <1>1, <2>3, <2>4, <3>1, Finite, OneMoved
  <2>6. CASE t # u
    BY <1>2, <2>3, <2>4, <2>6
  <2> QED
    BY <2>5, <2>6
<1>8. ASSUME NEW w \in Workers, NEW u \in Tickets, NEW i \in Invoices, BillByHand(w, u, i)
      PROVE  Fits
  <2>1. Billed(t)' \subseteq Billed(t)
    BY <1>8, OneInvoice DEF BillByHand, FreshInvoice
  <2>2. Billers(t)' \subseteq Billers(t) \ {w}
    BY <1>3, <1>8 DEF BillByHand
  <2> QED
    BY <1>2, <2>1, <2>2
<1>9. ASSUME NEW w \in Workers, Silent(w), ~FindInvoice(w)
      PROVE  Fits
  <2>1. \E l : Become(w, l) /\ l.pc # "billing"
    BY <1>9, SilentBecomes DEF Becomes
  <2> QED
    BY <1>2, <1>3, <1>5, <1>9, <2>1, SilentKeeps
<1>10. ASSUME NEW w \in Workers, Columns(w)
       PROVE  Fits
  <2>1. \/ local' = local
        \/ Become(w, Idle)
    BY <1>10 DEF Columns, EnterPayment, MarkRefunded, Reissue, Cancel
  <2>2. Billers(t)' \subseteq Billers(t)
    BY <1>3, <1>4, <2>1 DEF Idle
  <2> QED
    BY <1>2, <1>5, <1>10, <2>2, ColumnsKeep
<1>11. ASSUME NEW w \in Workers, SaveNumber(w)
       PROVE  Fits
  BY <1>2, <1>3, <1>5, <1>11 DEF SaveNumber, Idle
<1>12. ASSUME NEW w \in Workers, NEW u \in Tickets, CreateTicket(w, u)
       PROVE  Fits
  <2>1. \E l : Become(w, l) /\ l.pc # "billing"
    BY <1>12 DEF CreateTicket
  <2> QED
    BY <1>2, <1>3, <1>5, <1>12, <2>1 DEF CreateTicket
<1>13. ASSUME NEW w \in Workers, NEW u \in Tickets, DeleteTicket(w, u)
       PROVE  Fits
  <2>1. Billed(t)' \subseteq Billed(t)
    BY <1>13, DeleteKeeps DEF Billed, InvoicesOf
  <2> QED
    BY <1>2, <1>4, <1>13, <2>1 DEF DeleteTicket
<1>14. CASE UNCHANGED vars
  BY <1>2, <1>4, <1>5, <1>14 DEF vars
<1> QED
  BY <1>6, <1>7, <1>8, <1>9, <1>10, <1>11, <1>12, <1>13, <1>14, ServeCases DEF Next

\* Of Invoice.objects.get_or_create: a ticket gets as many invoices on issue as there are
\* worker processes at most, however often the issue is broken off and repeated.
THEOREM InvoicesBounded == Spec => []InvoicesAreBounded
<1>1. Init => InvoicesAndBillers
  <2>1. ASSUME Init, NEW t \in Tickets
        PROVE  Billed(t) = {} /\ Billers(t) = {}
    BY <2>1 DEF Init, Billed, InvoicesOf, Billers, Idle
  <2> QED
    BY <2>1, FirstOnes DEF InvoicesAndBillers
<1>2. TypeOK /\ InvoicesAndBillers /\ [Next]_vars => InvoicesAndBillers'
  BY InvoicesStep
<1>3. InvoicesAndBillers => InvoicesAreBounded
  <2> SUFFICES ASSUME InvoicesAndBillers, NEW t \in Tickets
               PROVE  Cardinality({i \in Invoices : /\ invoices[i] # NoInvoice
                                                    /\ invoices[i].ticket = t
                                                    /\ ~invoices[i].by_hand})
                        <= Cardinality(Workers)
    BY DEF InvoicesAreBounded
  <2>1. Cardinality(Billed(t)) <= Cardinality(Workers)
    BY Finite, Sizes DEF InvoicesAndBillers
  <2>2. Billed(t) = {i \in Invoices : /\ invoices[i] # NoInvoice
                                      /\ invoices[i].ticket = t
                                      /\ ~invoices[i].by_hand}
    BY DEF Billed, InvoicesOf
  <2> QED
    BY <2>1, <2>2
<1> QED
  BY <1>1, <1>2, <1>3, FinanceTypeCorrect, PTL DEF Spec

\* What Ticket.objects.get_or_create and Invoice.objects.get_or_create leave behind stays
\* within the number of workers, for any participants and on either database.
THEOREM DuplicatesBounded == Spec => []DuplicatesAreBounded
<1>1. TicketsAreBounded /\ InvoicesAreBounded => DuplicatesAreBounded
  BY DEF DuplicatesAreBounded
<1> QED
  BY <1>1, TicketsBounded, InvoicesBounded, PTL
-----------------------------------------------------------------------------
(***************************************************************************)
(* The numbers on tickets.                                                 *)
(***************************************************************************)

\* Tickets that stay keep their invoices.
InvoicesKept == \A t \in Tickets : Exists(t)' => InvoicesOf(t) \subseteq InvoicesOf(t)'

\* NumbersAreReal, said with the invoices of a ticket.
NumbersAreOwn ==
  \A t \in Tickets : Exists(t) /\ tickets[t].number # None => tickets[t].number \in InvoicesOf(t)

LEMMA NumbersKeptStay ==
  ASSUME NumbersAreOwn, NumbersKept, InvoicesKept
  PROVE  NumbersAreOwn'
  BY DEF NumbersAreOwn, NumbersKept, InvoicesKept

\* Requests that go on to write a number did so before, or hold a good one.
LEMMA HeldStay ==
  ASSUME TypeOK, HeldNumbersAreReal, InvoicesKept, NEW w \in Workers, NEW l, Become(w, l),
         l.pc = "numbering" => l.ticket \in Tickets /\ l.invoice \in InvoicesOf(l.ticket)',
         \A t \in Tickets : Exists(t)' => Exists(t)
  PROVE  HeldNumbersAreReal'
<1> SUFFICES ASSUME NEW v \in Workers, (local[v].pc = "numbering" /\ Exists(local[v].ticket))'
             PROVE  (local[v].invoice \in InvoicesOf(local[v].ticket))'
  BY DEF HeldNumbersAreReal
<1>1. CASE v = w
  BY <1>1, BecomeOne
<1>2. CASE v # w
  <2>1. local'[v] = local[v] /\ local[v].ticket \in Tickets
    BY <1>2, BecomeOne, RequestShape DEF Numbering
  <2> QED
    BY <2>1 DEF HeldNumbersAreReal, InvoicesKept
<1> QED
  BY <1>1, <1>2

LEMMA NumbersStep ==
  ASSUME TypeOK, NumbersAreOwn, HeldNumbersAreReal, [Next]_vars
  PROVE  NumbersAreOwn' /\ HeldNumbersAreReal'
<1> DEFINE Good == NumbersAreOwn' /\ HeldNumbersAreReal'
<1>1. invoices' = invoices => InvoicesKept
  BY DEF InvoicesKept, InvoicesOf
<1>2. ASSUME NumbersKept, InvoicesKept, NEW w \in Workers, NEW l, Become(w, l),
             l.pc # "numbering"
      PROVE  Good
  BY <1>2, NumbersKeptStay, HeldStay DEF NumbersKept
<1>3. ASSUME NumbersKept, InvoicesKept, local' = local
      PROVE  Good
  <2>1. \A v \in Workers : local[v].pc = "numbering" => local[v].ticket \in Tickets
    BY RequestShape DEF Numbering
  <2> QED
    BY <1>3, <2>1, NumbersKeptStay DEF NumbersKept, InvoicesKept, HeldNumbersAreReal
<1>4. ASSUME NEW w \in Workers, FindInvoice(w)
      PROVE  Good
  <2>1. local[w] \in Invoicing /\ NumbersKept /\ invoices' = invoices
    BY <1>4, RequestShape, SilentKeeps DEF FindInvoice, Silent
  <2>2. PICK u \in Tickets : u = local[w].ticket
    BY <2>1 DEF Invoicing
  <2>3. ASSUME NEW i \in InvoicesOf(u),
               Become(w, [pc |-> "numbering", ticket |-> u, invoice |-> i])
        PROVE  Good
    <3>1. i \in InvoicesOf(u)'
      BY <2>1 DEF InvoicesOf
    <3>2. HeldNumbersAreReal'
      BY <1>1, <2>1, <2>3, <3>1, HeldStay DEF NumbersKept
    <3> QED
      BY <1>1, <2>1, <3>2, NumbersKeptStay
  <2>4. Become(w, [pc |-> "billing", ticket |-> u]) => Good
    BY <1>1, <1>2, <2>1
  <2>5. Become(w, Idle) => Good
    BY <1>1, <1>2, <2>1 DEF Idle
  <2> QED
    BY <1>4, <2>2, <2>3, <2>4, <2>5 DEF FindInvoice
<1>5. ASSUME NEW w \in Workers, NEW u \in Tickets, NEW i \in Invoices, NEW b \in BOOLEAN,
             FreshInvoice(i), tickets' = tickets,
             invoices' = [invoices EXCEPT ![i] = [ticket |-> u, by_hand |-> b]],
             Become(w, [pc |-> "numbering", ticket |-> u, invoice |-> i])
      PROVE  Good
  <2>1. i \in InvoicesOf(u)' /\ InvoicesKept
    BY <1>5, OneInvoice DEF FreshInvoice, InvoicesKept
  <2>2. NumbersKept
    BY <1>5 DEF NumbersKept, Exists
  <2>3. HeldNumbersAreReal'
    BY <1>5, <2>1, <2>2, HeldStay DEF NumbersKept
  <2> QED
    BY <2>1, <2>2, <2>3, NumbersKeptStay
<1>6. ASSUME NEW w \in Workers, NEW i \in Invoices, CreateInvoice(w, i)
      PROVE  Good
  <2>1. local[w].ticket \in Tickets
    BY <1>6, RequestShape DEF CreateInvoice, Invoicing
  <2> QED
    BY <1>5, <1>6, <2>1 DEF CreateInvoice
<1>7. ASSUME NEW w \in Workers, NEW u \in Tickets, NEW i \in Invoices, BillByHand(w, u, i)
      PROVE  Good
  BY <1>5, <1>7 DEF BillByHand
<1>8. ASSUME NEW w \in Workers, SaveNumber(w)
      PROVE  Good
  <2>1. local[w] \in Numbering /\ invoices' = invoices /\ Exists(local[w].ticket)
    BY <1>8, RequestShape DEF SaveNumber
  <2>2. PICK t \in Tickets, i \in Invoices : t = local[w].ticket /\ i = local[w].invoice
    BY <2>1 DEF Numbering
  <2>3. i \in InvoicesOf(t)'
    BY <1>8, <2>1, <2>2 DEF HeldNumbersAreReal, SaveNumber, InvoicesOf
  <2>4. tickets[t] \in Ticket
    BY <2>1, <2>2, Stored
  <2>5. /\ \A u \in Tickets : u # t => tickets'[u] = tickets[u]
        /\ tickets'[t].number = i
    BY <1>8, <2>2, <2>4 DEF TypeOK, SaveNumber, Ticket
  <2>6. InvoicesKept
    BY <1>1, <2>1
  <2>7. NumbersAreOwn'
    BY <2>3, <2>5, <2>6 DEF NumbersAreOwn, InvoicesKept, Exists
  <2>8. \A u \in Tickets : Exists(u)' => Exists(u)
    BY <1>8, SaveKeeps DEF NoTicketAdded
  <2>9. HeldNumbersAreReal'
    BY <1>8, <2>6, <2>8, HeldStay DEF SaveNumber, Idle
  <2> QED
    BY <2>7, <2>9
<1>9. ASSUME NEW w \in Workers, NEW t \in Tickets, CreateTicket(w, t)
      PROVE  Good
  <2>1. /\ \A u \in Tickets : u # t => tickets'[u] = tickets[u]
        /\ tickets'[t].number = None /\ invoices' = invoices
    BY <1>9 DEF TypeOK, CreateTicket
  <2>2. NumbersAreOwn'
    BY <2>1 DEF NumbersAreOwn, Exists, InvoicesOf
  <2>3. PICK l : Become(w, l) /\ l.pc # "numbering"
    BY <1>9 DEF CreateTicket
  <2>4. \A v \in Workers : local'[v].pc = "numbering" =>
          /\ local'[v] = local[v] /\ local[v].ticket \in Tickets /\ local[v].ticket # t
    BY <1>9, <2>3, BecomeOne, RequestShape DEF CreateTicket, FreshTicket, HoldsTicket, Numbering
  <2>5. \A v \in Workers :
          (local[v].pc = "numbering" /\ Exists(local[v].ticket))' => Exists(local[v].ticket)
    BY <2>1, <2>4 DEF Exists
  <2>6. HeldNumbersAreReal'
    BY <2>1, <2>4, <2>5 DEF HeldNumbersAreReal, InvoicesOf
  <2> QED
    BY <2>2, <2>6
<1>10. ASSUME NEW w \in Workers, NEW t \in Tickets, DeleteTicket(w, t)
       PROVE  Good
  <2>1. InvoicesKept
    BY <1>10, DeleteKeeps DEF InvoicesKept, InvoicesOf
  <2> QED
    BY <1>3, <1>10, <2>1, DeleteKeeps DEF DeleteTicket
<1>11. ASSUME NEW w \in Workers, Silent(w), ~FindInvoice(w)
       PROVE  Good
  <2>1. \E l : Become(w, l) /\ l.pc # "numbering"
    BY <1>11, SilentBecomes DEF Becomes
  <2> QED
    BY <1>1, <1>2, <1>11, <2>1, SilentKeeps
<1>12. ASSUME NEW w \in Workers, Columns(w)
       PROVE  Good
  <2>1. \/ local' = local
        \/ Become(w, Idle)
    BY <1>12 DEF Columns, EnterPayment, MarkRefunded, Reissue, Cancel
  <2>2. NumbersKept /\ InvoicesKept
    BY <1>1, <1>12, ColumnsKeep
  <2> QED
    BY <1>2, <1>3, <2>1, <2>2 DEF Idle
<1>13. CASE UNCHANGED vars
  BY <1>1, <1>3, <1>13 DEF vars, NumbersKept, Exists
<1> QED
  BY <1>4, <1>6, <1>7, <1>8, <1>9, <1>10, <1>11, <1>12, <1>13, ServeCases DEF Next

\* Of the two places that write invoice_number: a number on a ticket is that of an
\* invoice of this ticket, although invoice and number are written one after the other.
THEOREM NumbersReal == Spec => []NumbersAreReal
<1>1. Init => NumbersAreOwn /\ HeldNumbersAreReal
  BY DEF Init, NumbersAreOwn, HeldNumbersAreReal, Exists, Idle
<1>2. /\ TypeOK /\ NumbersAreOwn /\ HeldNumbersAreReal /\ [Next]_vars
      => NumbersAreOwn' /\ HeldNumbersAreReal'
  BY NumbersStep
<1>3. NumbersAreOwn => NumbersAreReal
  BY DEF NumbersAreOwn, NumbersAreReal, InvoicesOf
<1> QED
  BY <1>1, <1>2, <1>3, FinanceTypeCorrect, PTL DEF Spec
-----------------------------------------------------------------------------
(***************************************************************************)
(* What clerks enter.                                                      *)
(***************************************************************************)

\* What is true of t alone.
EntryIsHeld(t) ==
  t \notin overtaken /\ entered[t] # None =>
    /\ Exists(t)
    /\ Agrees(t, tickets[t].status)
    /\ \A w \in Workers :
         (local[w].pc = "cancelling" /\ local[w].ticket = t) => Agrees(t, local[w].status)

LEMMA EntryStep ==
  ASSUME TypeOK, NEW t \in Tickets, EntryIsHeld(t), [Next]_vars
  PROVE  EntryIsHeld(t)'
<1> DEFINE Good == EntryIsHeld(t)'
<1>1. ASSUME UNCHANGED <<entered, overtaken>>,
             Exists(t) => Exists(t)' /\ tickets'[t].status = tickets[t].status,
             \A v \in Workers : local'[v].pc = "cancelling" => local'[v] = local[v]
      PROVE  Good
  BY <1>1 DEF EntryIsHeld, Agrees
<1>2. ASSUME NEW w \in Workers, NEW l, Become(w, l), l.pc # "cancelling"
      PROVE  \A v \in Workers : local'[v].pc = "cancelling" => local'[v] = local[v]
  BY <1>2, BecomeOne
<1>3. ASSUME NEW w \in Workers, NEW l, Become(w, l), l.pc # "cancelling",
             UNCHANGED <<tickets, entered, overtaken>>
      PROVE  Good
  BY <1>1, <1>2, <1>3 DEF Exists
<1>4. ASSUME NEW w \in Workers, Silent(w), \A u \in Tickets : ~LoadTicket(w, u)
      PROVE  Good
  <2>1. \E l : Become(w, l) /\ l.pc # "cancelling"
    BY <1>4, SilentBecomes DEF Becomes
  <2>2. UNCHANGED <<tickets, entered, overtaken>>
    BY <1>4 DEF Silent, StartIssue, FindTicket, CountUse, FindInvoice, Abandon
  <2> QED
    BY <1>3, <2>1, <2>2
<1>5. ASSUME NEW w \in Workers, NEW u \in Tickets, LoadTicket(w, u)
      PROVE  Good
  <2>1. /\ local'[w] = [pc |-> "cancelling", ticket |-> u, status |-> tickets[u].status]
        /\ \A v \in Workers : v # w => local'[v] = local[v]
    BY <1>5, BecomeOne DEF LoadTicket
  <2> QED
    BY <1>5, <2>1 DEF LoadTicket, EntryIsHeld, Agrees, Exists
<1>6. ASSUME NEW w \in Workers, Cancel(w)
      PROVE  Good
  <2>1. local[w] \in Cancelling
    BY <1>6, RequestShape DEF Cancel
  <2>2. PICK u \in Tickets, s \in PaymentStatuses : u = local[w].ticket /\ s = local[w].status
    BY <2>1 DEF Cancelling
  <2>3. tickets[u] \in Ticket
    BY <1>6, <2>2, Stored DEF Cancel
  <2>4. /\ tickets'[u].status = CancelledStatus(s) /\ Exists(u)'
        /\ \A x \in Tickets : x # u => tickets'[x] = tickets[x]
    BY <1>6, <2>2, <2>3 DEF TypeOK, Cancel, Ticket, Exists, NoTicket
  <2>5. \A v \in Workers : local'[v].pc = "cancelling" => local'[v] = local[v]
    BY <1>2, <1>6 DEF Cancel, Idle
  <2>6. CASE t # u
    BY <1>1, <1>6, <2>4, <2>5, <2>6 DEF Cancel, Exists
  <2>7. CASE t = u
    <3>1. t \notin overtaken /\ entered[t] # None => Agrees(t, s)
      BY <1>6, <2>2, <2>7 DEF Cancel, EntryIsHeld
    <3>2. t \notin overtaken /\ entered[t] # None => Agrees(t, CancelledStatus(s))
      BY <3>1 DEF Agrees, CancelledStatus
    <3>3. UNCHANGED <<entered, overtaken>>
      BY <1>6 DEF Cancel
    <3> QED
      BY <2>4, <2>5, <2>7, <3>2, <3>3 DEF EntryIsHeld, Agrees
  <2> QED
    BY <2>6, <2>7
<1>7. ASSUME NEW u \in Tickets, NEW status, Enter(u, status), local' = local
      PROVE  Good
  <2>1. tickets[u] \in Ticket
    BY <1>7, Stored DEF Enter
  <2>2. /\ tickets'[u].status = status /\ Exists(u)'
        /\ \A x \in Tickets : x # u => tickets'[x] = tickets[x]
    BY <1>7, <2>1 DEF TypeOK, Enter, Ticket, Exists, NoTicket
  <2>3. /\ entered'[u] = status
        /\ \A x \in Tickets : x # u => entered'[x] = entered[x]
    BY <1>7 DEF TypeOK, Enter
  <2>4. CASE t # u
    <3>1. t \in overtaken' <=> t \in overtaken
      BY <1>7, <2>4 DEF Enter
    <3> QED
      BY <1>7, <2>2, <2>3, <2>4, <3>1 DEF EntryIsHeld, Agrees, Exists
  <2>5. CASE t = u
    <3>1. BeingCancelled(u) => t \in overtaken'
      BY <1>7, <2>5 DEF Enter
    <3> QED
      BY <1>7, <2>2, <2>3, <2>5, <3>1 DEF EntryIsHeld, Agrees, BeingCancelled
  <2> QED
    BY <2>4, <2>5
<1>8. ASSUME NEW w \in Workers, NEW u \in Tickets, Reissue(w, u)
      PROVE  Good
  <2>1. tickets[u] \in Ticket
    BY <1>8, Stored DEF Reissue
  <2>2. /\ tickets'[u].status = tickets[u].status /\ Exists(u)'
        /\ \A x \in Tickets : x # u => tickets'[x] = tickets[x]
    BY <1>8, <2>1 DEF TypeOK, Reissue, Ticket, Exists, NoTicket
  <2> QED
    BY <1>1, <1>8, <2>2 DEF Reissue, Exists
<1>9. ASSUME NEW w \in Workers, SaveNumber(w)
      PROVE  Good
  <2>1. local[w] \in Numbering
    BY <1>9, RequestShape DEF SaveNumber
  <2>2. PICK u \in Tickets, i \in Invoices : u = local[w].ticket /\ i = local[w].invoice
    BY <2>1 DEF Numbering
  <2>3. tickets[u] \in Ticket
    BY <1>9, <2>2, Stored DEF SaveNumber
  <2>4. /\ tickets'[u].status = tickets[u].status /\ Exists(u)'
        /\ \A x \in Tickets : x # u => tickets'[x] = tickets[x]
    BY <1>9, <2>2, <2>3 DEF TypeOK, SaveNumber, Ticket, Exists, NoTicket
  <2>5. \A v \in Workers : local'[v].pc = "cancelling" => local'[v] = local[v]
    BY <1>2, <1>9 DEF SaveNumber, Idle
  <2> QED
    BY <1>1, <1>9, <2>4, <2>5 DEF SaveNumber, Exists
<1>10. ASSUME NEW w \in Workers, NEW u \in Tickets, CreateTicket(w, u)
       PROVE  Good
  <2>1. \A x \in Tickets : x # u => tickets'[x] = tickets[x]
    BY <1>10 DEF TypeOK, CreateTicket
  <2>2. ~Exists(u)
    BY <1>10 DEF CreateTicket, FreshTicket
  <2>3. \E l : Become(w, l) /\ l.pc # "cancelling"
    BY <1>10 DEF CreateTicket
  <2> QED
    BY <1>1, <1>2, <1>10, <2>1, <2>2, <2>3 DEF CreateTicket, Exists
<1>11. ASSUME NEW w \in Workers, NEW u \in Tickets, DeleteTicket(w, u)
       PROVE  Good
  <2>1. /\ \A x \in Tickets : x # u => tickets'[x] = tickets[x] /\ entered'[x] = entered[x]
        /\ entered'[u] = None /\ local' = local
        /\ t # u => (t \in overtaken' <=> t \in overtaken)
    BY <1>11 DEF TypeOK, DeleteTicket
  <2> QED
    BY <2>1 DEF EntryIsHeld, Agrees, Exists
<1>12. ASSUME NEW w \in Workers, NEW i \in Invoices, CreateInvoice(w, i)
       PROVE  Good
  BY <1>3, <1>12 DEF CreateInvoice
<1>13. ASSUME NEW w \in Workers, NEW u \in Tickets, NEW i \in Invoices, BillByHand(w, u, i)
       PROVE  Good
  BY <1>3, <1>13 DEF BillByHand
<1>14. ASSUME NEW w \in Workers, Columns(w)
       PROVE  Good
  BY <1>6, <1>7, <1>8, <1>14 DEF Columns, EnterPayment, MarkRefunded
<1>15. CASE UNCHANGED vars
  BY <1>1, <1>15 DEF vars, Exists
<1> QED
  BY <1>4, <1>5, <1>9, <1>10, <1>11, <1>12, <1>13, <1>14, <1>15, ServeCases DEF Next

\* Of cancel_ticket: what a clerk enters while no cancellation has loaded the ticket
\* stays, whatever happens to the ticket later, but for pending, which may become failed.
THEOREM EntriesAlwaysStand == Spec => []EntriesStand
<1>1. Init => EntriesAreHeld
  BY DEF Init, EntriesAreHeld
<1>2. EntriesAreHeld <=> \A t \in Tickets : EntryIsHeld(t)
  BY DEF EntriesAreHeld, EntryIsHeld
<1>3. TypeOK /\ EntriesAreHeld /\ [Next]_vars => EntriesAreHeld'
  <2>1. (\A t \in Tickets : EntryIsHeld(t)') => EntriesAreHeld'
    BY DEF EntriesAreHeld, EntryIsHeld
  <2> QED
    BY <1>2, <2>1, EntryStep
<1>4. EntriesAreHeld => EntriesStand
  BY DEF EntriesAreHeld, EntriesStand, Agrees
<1> QED
  BY <1>1, <1>3, <1>4, FinanceTypeCorrect, PTL DEF Spec
-----------------------------------------------------------------------------
(***************************************************************************)
(* Induction over the natural numbers.                                     *)
(***************************************************************************)

\* A set of numbers has a least one: of the intervals up to them, one contains no other.
LEMMA Least ==
  ASSUME NEW S, S \subseteq Nat, S # {}
  PROVE  \E n \in S : \A m \in S : n <= m
<1> DEFINE T == {1 .. n : n \in S}
           R == StrictSubsetOrdering(Nat)
<1>1. IsWellFoundedOn(R, FiniteSubsetsOf(Nat))
  BY FS_StrictSubsetOrderingWellFounded
<1>2. ASSUME NEW n \in S PROVE 1 .. n \in FiniteSubsetsOf(Nat)
  BY FS_Interval DEF FiniteSubsetsOf
<1>3. T \subseteq FiniteSubsetsOf(Nat) /\ T # {}
  BY <1>2
<1>4. PICK x \in T : \A y \in T : ~(<<y, x>> \in R)
  <2> HIDE DEF T, R
  <2> QED BY <1>1, <1>3, WFMin
<1>5. PICK n \in S : x = 1 .. n
  OBVIOUS
<1>6. ASSUME NEW m \in S PROVE n <= m
  <2>1. ~(<<1 .. m, 1 .. n>> \in R)
    BY <1>4, <1>5
  <2>2. 1 .. m \in SUBSET Nat /\ 1 .. n \in SUBSET Nat
    OBVIOUS
  <2>3. ~(1 .. m \subseteq 1 .. n /\ 1 .. m # 1 .. n)
    BY <2>1, <2>2 DEF StrictSubsetOrdering
  <2> SUFFICES ASSUME m < n PROVE FALSE
    OBVIOUS
  <2>4. n \in 1 .. n /\ n \notin 1 .. m /\ 1 .. m \subseteq 1 .. n
    OBVIOUS
  <2> QED
    BY <2>3, <2>4
<1> QED
  BY <1>6

\* Induction, for a set instead of a predicate.
LEMMA Induct ==
  ASSUME NEW S, S \subseteq Nat, 0 \in S, \A n \in S : n + 1 \in S
  PROVE  S = Nat
<1>1. SUFFICES ASSUME Nat \ S # {} PROVE FALSE
  OBVIOUS
<1>2. PICK n \in Nat \ S : \A m \in Nat \ S : n <= m
  BY <1>1, Least
<1>3. n # 0
  OBVIOUS
<1>4. n - 1 \in Nat /\ ~(n <= n - 1)
  BY <1>3
<1>5. n - 1 \in S
  BY <1>2, <1>4
<1> QED
  BY <1>5
-----------------------------------------------------------------------------
(***************************************************************************)
(* The factorial of Combinatorics.                                         *)
(***************************************************************************)

\* g is the factorial up to n.
Partial(n) == {g \in [0 .. n -> Nat] : g[0] = 1 /\ \A i \in 1 .. n : g[i] = i * g[i - 1]}

LEMMA PartialsExist == \A n \in Nat : Partial(n) # {}
<1> DEFINE S == {n \in Nat : Partial(n) # {}}
<1>1. 0 \in S
  <2>1. [i \in 0 .. 0 |-> 1] \in Partial(0)
    BY DEF Partial
  <2> QED
    BY <2>1
<1>2. ASSUME NEW n \in S
      PROVE  n + 1 \in S
  <2>1. PICK g \in Partial(n) : TRUE
    OBVIOUS
  <2> DEFINE h == [i \in 0 .. n + 1 |-> IF i = n + 1 THEN (n + 1) * g[n] ELSE g[i]]
  <2>2. /\ n \in Nat /\ n + 1 \in Nat
        /\ \A i \in 0 .. n + 1 : i # n + 1 => i \in 0 .. n
    OBVIOUS
  <2>3. /\ g \in [0 .. n -> Nat] /\ g[0] = 1
        /\ \A i \in 1 .. n : g[i] = i * g[i - 1]
    BY <2>1 DEF Partial
  <2>4. g[n] \in Nat
    BY <2>2, <2>3
  <2>5. (n + 1) * g[n] \in Nat
    BY <2>2, <2>4
  <2>6. h \in [0 .. n + 1 -> Nat]
    BY <2>2, <2>3, <2>5
  <2>7. h[0] = 1
    BY <2>2, <2>3
  <2>8. ASSUME NEW i \in 1 .. n + 1
        PROVE  h[i] = i * h[i - 1]
    <3>1. h[i - 1] = g[i - 1]
      BY <2>2
    <3>2. CASE i = n + 1
      BY <2>2, <3>1, <3>2
    <3>3. CASE i # n + 1
      <4>1. i \in 1 .. n /\ i \in 0 .. n + 1
        BY <2>2, <3>3
      <4> QED
        BY <2>3, <3>1, <3>3, <4>1
    <3> QED
      BY <3>2, <3>3
  <2> HIDE DEF h
  <2>9. h \in Partial(n + 1)
    BY <2>6, <2>7, <2>8 DEF Partial
  <2> QED
    BY <2>9, <2>2
<1>3. S \subseteq Nat
  OBVIOUS
<1>4. S = Nat
  <2> HIDE DEF S
  <2> QED BY <1>1, <1>2, <1>3, Induct
<1> QED
  BY <1>4

\* A longer one goes on where a shorter one stops.
LEMMA PartialsAgree ==
  ASSUME NEW n \in Nat, NEW g \in Partial(n), NEW h \in Partial(n + 1)
  PROVE  \A i \in 0 .. n : g[i] = h[i]
<1> DEFINE S == {i \in Nat : i <= n => g[i] = h[i]}
<1>1. 0 \in S
  BY DEF Partial
<1>2. ASSUME NEW i \in S
      PROVE  i + 1 \in S
  <2> SUFFICES ASSUME i + 1 <= n
               PROVE  g[i + 1] = h[i + 1]
    OBVIOUS
  <2>1. g[i] = h[i] /\ i + 1 \in 1 .. n /\ i + 1 \in 1 .. n + 1 /\ (i + 1) - 1 = i
    OBVIOUS
  <2>2. g[i + 1] = (i + 1) * g[(i + 1) - 1] /\ h[i + 1] = (i + 1) * h[(i + 1) - 1]
    BY <2>1 DEF Partial
  <2> QED
    BY <2>1, <2>2
<1>3. S \subseteq Nat
  OBVIOUS
<1>4. S = Nat
  <2> HIDE DEF S
  <2> QED BY <1>1, <1>2, <1>3, Induct
<1> QED
  BY <1>4

\* The equation that the recursive definition of factorial is.
LEMMA FactorialDef ==
  \A n \in Nat : factorial[n] = IF n = 0 THEN 1 ELSE n * factorial[n - 1]
<1> DEFINE part == [n \in Nat |-> CHOOSE g \in Partial(n) : TRUE]
           f == [n \in Nat |-> part[n][n]]
<1>1. \A n \in Nat : part[n] \in Partial(n)
  BY PartialsExist
<1> HIDE DEF part
<1>2. ASSUME NEW n \in Nat
      PROVE  f[n] = IF n = 0 THEN 1 ELSE n * f[n - 1]
  <2>1. CASE n = 0
    BY <1>1, <2>1 DEF Partial
  <2>2. CASE n # 0
    <3>1. PICK m \in Nat : n = m + 1 /\ m = n - 1
      BY <2>2
    <3>2. part[m] \in Partial(m) /\ part[n] \in Partial(m + 1)
      BY <1>1, <3>1
    <3>3. part[m][m] = part[n][m]
      BY <3>2, PartialsAgree
    <3>4. part[n][m + 1] = (m + 1) * part[n][(m + 1) - 1]
      BY <3>2 DEF Partial
    <3>5. (m + 1) - 1 = m
      OBVIOUS
    <3> QED
      BY <2>2, <3>1, <3>3, <3>4, <3>5
  <2> QED
    BY <2>1, <2>2
<1> HIDE DEF f
<1>3. f = [n \in Nat |-> IF n = 0 THEN 1 ELSE n * f[n - 1]]
  <2>1. f = [n \in Nat |-> f[n]]
    BY DEF f
  <2> QED
    BY <1>2, <2>1
<1>4. factorial = [n \in Nat |-> IF n = 0 THEN 1 ELSE n * factorial[n - 1]]
  BY <1>3 DEF factorial
<1> QED
  BY <1>4

LEMMA FactorialPositive == \A n \in Nat : factorial[n] \in Nat \ {0}
<1> DEFINE S == {n \in Nat : factorial[n] \in Nat \ {0}}
<1>1. 0 \in S
  BY FactorialDef
<1>2. ASSUME NEW n \in S
      PROVE  n + 1 \in S
  <2>1. n + 1 \in Nat /\ n + 1 # 0 /\ (n + 1) - 1 = n
    OBVIOUS
  <2>2. factorial[n + 1] = (n + 1) * factorial[n]
    BY <2>1, FactorialDef
  <2>3. ASSUME NEW a \in Nat \ {0}, NEW b \in Nat \ {0}
        PROVE  a * b \in Nat \ {0}
    OBVIOUS
  <2> QED
    BY <2>1, <2>2, <2>3
<1>3. S \subseteq Nat
  OBVIOUS
<1>4. S = Nat
  <2> HIDE DEF S
  <2> QED BY <1>1, <1>2, <1>3, Induct
<1> QED
  BY <1>4
-----------------------------------------------------------------------------
(***************************************************************************)
(* choose, which divides factorials: Pascal's triangle, as an inequality.  *)
(***************************************************************************)

\* Quotients: the floor of a sum, and of a fraction that is not in its lowest terms.
LEMMA QuotientIs ==
  ASSUME NEW a \in Nat, NEW d \in Nat \ {0}
  PROVE  /\ a \div d \in Nat
         /\ (a \div d) * d <= a
         /\ a < (a \div d) * d + d
  OBVIOUS

LEMMA QuotientAtLeast ==
  ASSUME NEW a \in Nat, NEW d \in Nat \ {0}, NEW q \in Nat, q * d <= a
  PROVE  q <= a \div d
<1> DEFINE p == a \div d
<1>1. p \in Nat /\ a < p * d + d
  BY QuotientIs
<1> HIDE DEF p
<1> SUFFICES ASSUME p + 1 <= q
             PROVE  FALSE
  BY <1>1 DEF p
<1>2. (p + 1) * d <= q * d
  BY <1>1
<1>3. (p + 1) * d = p * d + d
  BY <1>1
<1>4. /\ q * d \in Nat /\ p * d \in Nat /\ (p + 1) * d \in Nat
  BY <1>1
<1> QED
  BY <1>1, <1>2, <1>3, <1>4

LEMMA QuotientSum ==
  ASSUME NEW a \in Nat, NEW b \in Nat, NEW d \in Nat \ {0}
  PROVE  (a \div d) + (b \div d) <= (a + b) \div d
<1> DEFINE p == a \div d
           q == b \div d
<1>1. /\ p \in Nat /\ p * d <= a
      /\ q \in Nat /\ q * d <= b
  BY QuotientIs
<1> HIDE DEF p, q
<1>2. (p + q) * d = p * d + q * d
  BY <1>1
<1>3. p * d \in Nat /\ q * d \in Nat
  BY <1>1
<1>4. (p + q) * d <= a + b
  BY <1>1, <1>2, <1>3
<1>5. p + q <= (a + b) \div d
  BY <1>1, <1>4, QuotientAtLeast
<1> QED
  BY <1>5 DEF p, q

LEMMA QuotientScale ==
  ASSUME NEW a \in Nat, NEW d \in Nat \ {0}, NEW c \in Nat \ {0}
  PROVE  a \div d <= (c * a) \div (c * d)
<1> DEFINE p == a \div d
<1>1. p \in Nat /\ p * d <= a
  BY QuotientIs
<1> HIDE DEF p
<1>2. p * (c * d) = c * (p * d)
  BY <1>1
<1>3. p * d \in Nat
  BY <1>1
<1>4. c * (p * d) <= c * a
  BY <1>1, <1>3
<1>5. c * a \in Nat /\ c * d \in Nat \ {0}
  OBVIOUS
<1>6. p <= (c * a) \div (c * d)
  BY <1>1, <1>2, <1>4, <1>5, QuotientAtLeast
<1> QED
  BY <1>6 DEF p

\* choose, on the edges of Pascal's triangle and inside it.
LEMMA ChooseEdges ==
  ASSUME NEW n \in Nat
  PROVE  choose(n, 0) = 1 /\ choose(n, n) = 1
<1>1. factorial[0] = 1 /\ factorial[n] \in Nat \ {0} /\ n - 0 = n /\ n - n = 0
  BY FactorialDef, FactorialPositive
<1>2. ASSUME NEW a \in Nat \ {0}
      PROVE  a \div (1 * a) = 1 /\ a \div (a * 1) = 1
  <2>1. 1 * a = a /\ a * 1 = a /\ a \div a = 1
    OBVIOUS
  <2> QED
    BY <2>1
<1> QED
  BY <1>1, <1>2 DEF choose

LEMMA ChooseInside ==
  ASSUME NEW m \in Nat, NEW k \in Nat
  PROVE  choose(m + 1 + k, k) + choose(m + 1 + k, k + 1) <= choose(m + 1 + k + 1, k + 1)
<1> DEFINE n == m + 1 + k
           x == factorial[n]
           a == factorial[k]
           b == factorial[m]
           d == ((k + 1) * a) * ((m + 1) * b)
<1>1. /\ n - k = m + 1 /\ n - (k + 1) = m /\ (n + 1) - (k + 1) = m + 1
      /\ (k + 1) - 1 = k /\ (m + 1) - 1 = m /\ (n + 1) - 1 = n
      /\ k + 1 \in Nat \ {0} /\ m + 1 \in Nat \ {0} /\ n + 1 \in Nat \ {0} /\ n \in Nat
  OBVIOUS
<1>2. /\ factorial[k + 1] = (k + 1) * a
      /\ factorial[m + 1] = (m + 1) * b
      /\ factorial[n + 1] = (n + 1) * x
  BY <1>1, FactorialDef
<1>3. x \in Nat \ {0} /\ a \in Nat \ {0} /\ b \in Nat \ {0}
  BY <1>1, FactorialPositive
<1>4. /\ choose(n, k) = x \div (a * ((m + 1) * b))
      /\ choose(n, k + 1) = x \div (((k + 1) * a) * b)
      /\ choose(n + 1, k + 1) = ((n + 1) * x) \div d
  BY <1>1, <1>2 DEF choose
<1> HIDE DEF x, a, b
<1>5. (n + 1) * x = (k + 1) * x + (m + 1) * x
  <2>1. n + 1 = (k + 1) + (m + 1)
    OBVIOUS
  <2> HIDE DEF n
  <2>2. ASSUME NEW c \in Nat, NEW e \in Nat, NEW y \in Nat
        PROVE  (c + e) * y = c * y + e * y
    OBVIOUS
  <2> QED
    BY <1>1, <1>3, <2>1, <2>2
<1>6. ASSUME NEW c \in Nat \ {0}, NEW e \in Nat \ {0}
      PROVE  c * e \in Nat \ {0}
  OBVIOUS
<1>7. /\ a * ((m + 1) * b) \in Nat \ {0} /\ ((k + 1) * a) * b \in Nat \ {0}
      /\ d \in Nat \ {0} /\ (k + 1) * x \in Nat /\ (m + 1) * x \in Nat
  BY <1>1, <1>3, <1>6
<1>8. /\ (k + 1) * (a * ((m + 1) * b)) = d
      /\ (m + 1) * (((k + 1) * a) * b) = d
  BY <1>1, <1>3
<1> HIDE DEF d
<1>9. x \div (a * ((m + 1) * b)) <= ((k + 1) * x) \div d
  BY <1>1, <1>3, <1>7, <1>8, QuotientScale
<1>10. x \div (((k + 1) * a) * b) <= ((m + 1) * x) \div d
  BY <1>1, <1>3, <1>7, <1>8, QuotientScale
<1>11. ((k + 1) * x) \div d + ((m + 1) * x) \div d <= ((k + 1) * x + (m + 1) * x) \div d
  BY <1>7, QuotientSum
<1>12. ASSUME NEW p \in Nat, NEW q \in Nat, NEW r \in Nat, NEW s \in Nat, NEW t \in Nat,
              p <= r, q <= s, r + s <= t
       PROVE  p + q <= t
  BY <1>12
<1>13. /\ x \div (a * ((m + 1) * b)) \in Nat /\ x \div (((k + 1) * a) * b) \in Nat
       /\ ((k + 1) * x) \div d \in Nat /\ ((m + 1) * x) \div d \in Nat
       /\ ((k + 1) * x + (m + 1) * x) \div d \in Nat
  BY <1>3, <1>7, QuotientIs
<1> QED
  BY <1>4, <1>5, <1>9, <1>10, <1>11, <1>12, <1>13

LEMMA ChooseType ==
  ASSUME NEW m \in Nat, NEW k \in Nat
  PROVE  choose(m + k, k) \in Nat
<1>1. factorial[m + k] \in Nat /\ factorial[k] \in Nat \ {0} /\ factorial[m + k - k] \in Nat \ {0}
  <2>1. m + k \in Nat /\ m + k - k = m
    OBVIOUS
  <2> QED
    BY <2>1, FactorialPositive
<1>2. factorial[k] * factorial[m + k - k] \in Nat \ {0}
  <2>1. ASSUME NEW c \in Nat \ {0}, NEW e \in Nat \ {0}
        PROVE  c * e \in Nat \ {0}
    OBVIOUS
  <2> QED
    BY <1>1, <2>1
<1> QED
  BY <1>1, <1>2, QuotientIs DEF choose
-----------------------------------------------------------------------------
(***************************************************************************)
(* Profiles: how they are ordered, and how many there are.                 *)
(***************************************************************************)

\* Below is a strict order.
LEMMA BelowIsStrict ==
  ASSUME NEW m \in Nat, NEW k \in Nat, NEW f \in Profiles(m, k)
  PROVE  ~Below(f, f, m)
  BY DEF Below, Profiles

LEMMA BelowIsTransitive ==
  ASSUME NEW m \in Nat, NEW k \in Nat, NEW f \in Profiles(m, k), NEW g \in Profiles(m, k),
         NEW h \in Profiles(m, k), Below(f, g, m), Below(g, h, m)
  PROVE  Below(f, h, m)
<1>1. PICK v \in 1 .. m : f[v] < g[v] /\ \A u \in 1 .. v - 1 : f[u] = g[u]
  BY DEF Below
<1>2. PICK w \in 1 .. m : g[w] < h[w] /\ \A u \in 1 .. w - 1 : g[u] = h[u]
  BY DEF Below
<1>3. /\ f \in [1 .. m -> 0 .. k] /\ g \in [1 .. m -> 0 .. k] /\ h \in [1 .. m -> 0 .. k]
  BY DEF Profiles
<1>4. CASE v < w
  <2>1. v \in 1 .. w - 1 /\ \A u \in 1 .. v - 1 : u \in 1 .. w - 1
    BY <1>4
  <2>2. f[v] < h[v] /\ \A u \in 1 .. v - 1 : f[u] = h[u]
    BY <1>1, <1>2, <2>1
  <2> QED
    BY <2>2 DEF Below
<1>5. CASE w <= v
  <2>1. \A u \in 1 .. w - 1 : u \in 1 .. v - 1
    BY <1>5
  <2>2. f[w] <= g[w]
    <3>1. f[v] \in Nat /\ g[v] \in Nat /\ f[w] \in Nat /\ g[w] \in Nat
      BY <1>3
    <3>2. CASE w = v
      BY <1>1, <3>1, <3>2
    <3>3. CASE w # v
      <4>1. w \in 1 .. v - 1
        BY <1>5, <3>3
      <4> QED
        BY <1>1, <3>1, <4>1
    <3> QED
      BY <3>2, <3>3
  <2>3. f[w] < h[w]
    <3>1. f[w] \in Nat /\ g[w] \in Nat /\ h[w] \in Nat
      BY <1>3
    <3> QED
      BY <1>2, <2>2, <3>1
  <2>4. \A u \in 1 .. w - 1 : f[u] = h[u]
    BY <1>1, <1>2, <2>1
  <2> QED
    BY <2>3, <2>4 DEF Below
<1> QED
  BY <1>4, <1>5

\* Where nothing falls up to v and v rises, the profile rises.
LEMMA RisingIsAbove ==
  ASSUME NEW m \in Nat, NEW k \in Nat, NEW f \in Profiles(m, k), NEW g \in Profiles(m, k),
         NEW v \in 1 .. m, \A u \in 1 .. v : f[u] <= g[u], f[v] # g[v]
  PROVE  Below(f, g, m)
<1> DEFINE S == {u \in 1 .. v : f[u] # g[u]}
<1>1. S \subseteq Nat /\ S # {}
  OBVIOUS
<1>2. PICK w \in S : \A u \in S : w <= u
  <2> HIDE DEF S
  <2> QED BY <1>1, Least
<1>3. w \in 1 .. v /\ w \in 1 .. m /\ f[w] # g[w] /\ f[w] <= g[w]
  OBVIOUS
<1>4. f[w] \in Nat /\ g[w] \in Nat
  BY <1>3 DEF Profiles
<1>5. f[w] < g[w]
  BY <1>3, <1>4
<1>6. \A u \in 1 .. w - 1 : f[u] = g[u]
  <2> SUFFICES ASSUME NEW u \in 1 .. w - 1, f[u] # g[u]
               PROVE  FALSE
    OBVIOUS
  <2>1. u \in 1 .. v /\ ~(w <= u)
    BY <1>3
  <2> QED
    BY <1>2, <2>1
<1> QED
  BY <1>3, <1>5, <1>6 DEF Below

\* One where nothing falls at all is above another, or the same.
LEMMA NotFalling ==
  ASSUME NEW m \in Nat, NEW k \in Nat, NEW f \in Profiles(m, k), NEW g \in Profiles(m, k),
         \A u \in 1 .. m : f[u] <= g[u]
  PROVE  f = g \/ Below(f, g, m)
<1> SUFFICES ASSUME f # g
             PROVE  Below(f, g, m)
  OBVIOUS
<1>1. PICK v \in 1 .. m : f[v] # g[v]
  BY DEF Profiles
<1> QED
  BY <1>1, RisingIsAbove

\* Without a level, or without a worker, there is one profile.
LEMMA ProfilesAtEdge ==
  ASSUME NEW m \in Nat, NEW k \in Nat, m = 0 \/ k = 0
  PROVE  IsFiniteSet(Profiles(m, k)) /\ Cardinality(Profiles(m, k)) <= 1
<1> DEFINE zero == [v \in 1 .. m |-> 0]
<1>1. ASSUME NEW f \in Profiles(m, k)
      PROVE  f = zero
  <2>1. f \in [1 .. m -> 0 .. k]
    BY DEF Profiles
  <2>2. \A v \in 1 .. m : f[v] = 0
    BY <2>1
  <2> QED
    BY <2>1, <2>2
<1>2. Profiles(m, k) \subseteq {zero}
  BY <1>1
<1> HIDE DEF zero
<1>3. IsFiniteSet({zero}) /\ Cardinality({zero}) = 1
  BY FS_Singleton
<1>4. IsFiniteSet(Profiles(m, k)) /\ Cardinality(Profiles(m, k)) <= Cardinality({zero})
  BY <1>2, <1>3, FS_Subset
<1> QED
  BY <1>3, <1>4

\* The profiles that do not start at the top, and those that do.
LEMMA ProfilesInside ==
  ASSUME NEW m \in Nat, NEW k \in Nat,
         IsFiniteSet(Profiles(m + 1, k)), IsFiniteSet(Profiles(m, k + 1))
  PROVE  /\ IsFiniteSet(Profiles(m + 1, k + 1))
         /\ Cardinality(Profiles(m + 1, k + 1))
              <= Cardinality(Profiles(m + 1, k)) + Cardinality(Profiles(m, k + 1))
<1> DEFINE P == Profiles(m + 1, k + 1)
           L == Profiles(m + 1, k)
           T == {f \in P : f[1] = k + 1}
           rest == [f \in T |-> [v \in 1 .. m |-> f[v + 1]]]
<1>1. 1 \in 1 .. m + 1 /\ \A v \in 1 .. m : v + 1 \in 1 .. m + 1
  OBVIOUS
<1>2. P \subseteq L \union T
  <2> SUFFICES ASSUME NEW f \in P, f[1] # k + 1
               PROVE  f \in L
    OBVIOUS
  <2>1. /\ f \in [1 .. m + 1 -> 0 .. k + 1]
        /\ \A u, v \in 1 .. m + 1 : u <= v => f[v] <= f[u]
    BY DEF Profiles
  <2>2. f[1] \in 0 .. k
    BY <1>1, <2>1
  <2>3. \A v \in 1 .. m + 1 : f[v] \in 0 .. k
    BY <1>1, <2>1, <2>2
  <2>4. f \in [1 .. m + 1 -> 0 .. k]
    BY <2>1, <2>3
  <2> QED
    BY <2>1, <2>4 DEF Profiles
<1>3. rest \in Injection(T, Profiles(m, k + 1))
  <2>1. ASSUME NEW f \in T
        PROVE  rest[f] \in Profiles(m, k + 1)
    <3>1. /\ f \in [1 .. m + 1 -> 0 .. k + 1]
          /\ \A u, v \in 1 .. m + 1 : u <= v => f[v] <= f[u]
      BY DEF Profiles
    <3> DEFINE g == [v \in 1 .. m |-> f[v + 1]]
    <3>2. g \in [1 .. m -> 0 .. k + 1]
      BY <1>1, <3>1
    <3>3. ASSUME NEW u \in 1 .. m, NEW v \in 1 .. m, u <= v
          PROVE  g[v] <= g[u]
      <4>1. u + 1 <= v + 1
        BY <3>3
      <4> QED
        BY <1>1, <3>1, <4>1
    <3> QED
      BY <3>2, <3>3 DEF Profiles
  <2>2. ASSUME NEW f \in T, NEW g \in T, rest[f] = rest[g]
        PROVE  f = g
    <3>1. /\ f \in [1 .. m + 1 -> 0 .. k + 1] /\ g \in [1 .. m + 1 -> 0 .. k + 1]
          /\ f[1] = k + 1 /\ g[1] = k + 1
      BY DEF Profiles
    <3>2. ASSUME NEW v \in 1 .. m + 1
          PROVE  f[v] = g[v]
      <4>1. CASE v = 1
        BY <3>1, <4>1
      <4>2. CASE v # 1
        <5>1. PICK u \in 1 .. m : v = u + 1
          <6>1. v - 1 \in 1 .. m /\ v = (v - 1) + 1
            BY <4>2
          <6> QED
            BY <6>1
        <5>2. rest[f][u] = f[u + 1] /\ rest[g][u] = g[u + 1]
          OBVIOUS
        <5> QED
          BY <2>2, <5>1, <5>2
      <4> QED
        BY <4>1, <4>2
    <3> QED
      BY <3>1, <3>2
  <2>3. rest \in [T -> Profiles(m, k + 1)]
    BY <2>1
  <2> HIDE DEF rest, T
  <2> QED
    BY <2>2, <2>3 DEF Injection, IsInjective
<1>4. IsFiniteSet(T) /\ Cardinality(T) <= Cardinality(Profiles(m, k + 1))
  <2> HIDE DEF rest, T
  <2> QED
    BY <1>3, FS_Injection
<1> HIDE DEF T, P
<1>5. /\ IsFiniteSet(L \union T)
      /\ Cardinality(L \union T) = Cardinality(L) + Cardinality(T) - Cardinality(L \cap T)
  BY <1>4, FS_Union
<1>6. IsFiniteSet(P) /\ Cardinality(P) <= Cardinality(L \union T)
  BY <1>2, <1>5, FS_Subset
<1>7. IsFiniteSet(L \cap T)
  BY FS_Intersection
<1>8. /\ Cardinality(L) \in Nat /\ Cardinality(T) \in Nat /\ Cardinality(L \cap T) \in Nat
      /\ Cardinality(P) \in Nat /\ Cardinality(Profiles(m, k + 1)) \in Nat
  BY <1>4, <1>6, <1>7, FS_CardinalityType
<1>9. Cardinality(P) <= Cardinality(L) + Cardinality(Profiles(m, k + 1))
  <2> HIDE DEF L
  <2> QED BY <1>4, <1>5, <1>6, <1>8
<1> QED
  BY <1>6, <1>9 DEF P

\* By induction on m + k: the profiles are bounded as the entries of Pascal's triangle are.
LEMMA ProfilesAreFew ==
  \A m, k \in Nat : /\ IsFiniteSet(Profiles(m, k))
                    /\ Cardinality(Profiles(m, k)) <= choose(m + k, k)
<1> DEFINE Few(m, k) == /\ IsFiniteSet(Profiles(m, k))
                        /\ Cardinality(Profiles(m, k)) <= choose(m + k, k)
           S == {n \in Nat : \A m, k \in Nat : m + k = n => Few(m, k)}
<1>1. ASSUME NEW m \in Nat, NEW k \in Nat, m = 0 \/ k = 0
      PROVE  Few(m, k)
  <2>1. choose(m + k, k) = 1
    <3>1. CASE m = 0
      <4>1. m + k = k
        BY <3>1
      <4> QED
        BY <4>1, ChooseEdges
    <3>2. CASE k = 0
      <4>1. m + k = m
        BY <3>2
      <4> QED
        BY <3>2, <4>1, ChooseEdges
    <3> QED
      BY <1>1, <3>1, <3>2
  <2> QED
    BY <1>1, <2>1, ProfilesAtEdge
<1>2. 0 \in S
  <2>1. \A m, k \in Nat : m + k = 0 => m = 0
    OBVIOUS
  <2> HIDE DEF Few
  <2> QED BY <1>1, <2>1
<1>3. ASSUME NEW n \in S
      PROVE  n + 1 \in S
  <2> SUFFICES ASSUME NEW i \in Nat, NEW j \in Nat, i + j = n + 1, i # 0, j # 0
               PROVE  Few(i, j)
    <3> HIDE DEF Few
    <3> QED BY <1>1
  <2>1. PICK m \in Nat, k \in Nat : i = m + 1 /\ j = k + 1
    <3>1. i - 1 \in Nat /\ j - 1 \in Nat /\ i = (i - 1) + 1 /\ j = (j - 1) + 1
      OBVIOUS
    <3> QED
      BY <3>1
  <2>2. (m + 1) + k = n /\ m + (k + 1) = n /\ m + 1 \in Nat /\ k + 1 \in Nat
    BY <2>1
  <2>3. Few(m + 1, k) /\ Few(m, k + 1)
    <3> HIDE DEF Few
    <3> QED BY <2>2
  <2>4. /\ IsFiniteSet(Profiles(m + 1, k + 1))
        /\ Cardinality(Profiles(m + 1, k + 1))
             <= Cardinality(Profiles(m + 1, k)) + Cardinality(Profiles(m, k + 1))
    BY <2>3, ProfilesInside
  <2>5. choose(m + 1 + k, k) + choose(m + 1 + k, k + 1) <= choose(m + 1 + k + 1, k + 1)
    BY ChooseInside
  <2>6. m + (k + 1) = m + 1 + k /\ (m + 1) + (k + 1) = m + 1 + k + 1
    OBVIOUS
  <2>7. /\ Cardinality(Profiles(m + 1, k)) <= choose(m + 1 + k, k)
        /\ Cardinality(Profiles(m, k + 1)) <= choose(m + 1 + k, k + 1)
    BY <2>3, <2>6
  <2>8. /\ choose(m + 1 + k, k) \in Nat /\ choose(m + 1 + k, k + 1) \in Nat
        /\ choose(m + 1 + k + 1, k + 1) \in Nat
    BY <2>2, <2>6, ChooseType
  <2>9. /\ Cardinality(Profiles(m + 1, k)) \in Nat /\ Cardinality(Profiles(m, k + 1)) \in Nat
        /\ Cardinality(Profiles(m + 1, k + 1)) \in Nat
    BY <2>3, <2>4, FS_CardinalityType
  <2>10. Cardinality(Profiles(m + 1, k + 1)) <= choose(m + 1 + k + 1, k + 1)
    BY <2>4, <2>5, <2>7, <2>8, <2>9
  <2> QED
    BY <2>1, <2>4, <2>6, <2>10
<1>4. S \subseteq Nat
  OBVIOUS
<1>5. S = Nat
  <2> HIDE DEF S
  <2> QED BY <1>2, <1>3, <1>4, Induct
<1>6. \A m, k \in Nat : m + k \in S
  <2> HIDE DEF S
  <2> QED BY <1>5
<1> HIDE DEF Few
<1>7. \A m, k \in Nat : Few(m, k)
  BY <1>6
<1> QED
  BY <1>7 DEF Few
-----------------------------------------------------------------------------
(***************************************************************************)
(* The profile of the workers.                                             *)
(***************************************************************************)

\* How many workers have a level of v or more, for each v.
Ranks(level, m) == [v \in 1 .. m |-> Cardinality({w \in Workers : level[w] >= v})]

LEMMA RanksSizes ==
  ASSUME NEW A, A \subseteq Workers
  PROVE  Cardinality(A) \in 0 .. Cardinality(Workers)
<1>1. IsFiniteSet(Workers)
  BY DEF FinanceAssumption
<1>2. IsFiniteSet(A) /\ Cardinality(A) <= Cardinality(Workers)
  BY <1>1, FS_Subset
<1>3. Cardinality(A) \in Nat /\ Cardinality(Workers) \in Nat
  BY <1>1, <1>2, FS_CardinalityType
<1> QED
  BY <1>2, <1>3

LEMMA RanksOrdered ==
  ASSUME NEW A, NEW B, B \subseteq Workers, A \subseteq B
  PROVE  /\ Cardinality(A) <= Cardinality(B)
         /\ Cardinality(A) = Cardinality(B) => A = B
<1>1. IsFiniteSet(Workers)
  BY DEF FinanceAssumption
<1>2. IsFiniteSet(B)
  BY <1>1, FS_Subset
<1> QED
  BY <1>2, FS_Subset

LEMMA RanksAreProfiles ==
  ASSUME NEW level \in [Workers -> Nat], NEW m \in Nat
  PROVE  Ranks(level, m) \in Profiles(m, Cardinality(Workers))
<1> DEFINE At(v) == {w \in Workers : level[w] >= v}
           f == Ranks(level, m)
<1>1. f = [v \in 1 .. m |-> Cardinality(At(v))]
  BY DEF Ranks
<1>2. \A v \in 1 .. m : Cardinality(At(v)) \in 0 .. Cardinality(Workers)
  BY RanksSizes
<1>3. ASSUME NEW u \in 1 .. m, NEW v \in 1 .. m, u <= v
      PROVE  Cardinality(At(v)) <= Cardinality(At(u))
  <2>1. At(v) \subseteq At(u) /\ At(u) \subseteq Workers
    BY <1>3
  <2> QED
    BY <2>1, RanksOrdered
<1> HIDE DEF At, f
<1>4. f \in [1 .. m -> 0 .. Cardinality(Workers)]
  BY <1>1, <1>2
<1>5. \A u, v \in 1 .. m : u <= v => f[v] <= f[u]
  BY <1>1, <1>3
<1> QED
  BY <1>4, <1>5 DEF Profiles, f

\* If nobody goes down, the ranks do not.
LEMMA RanksNotFalling ==
  ASSUME NEW a \in [Workers -> Nat], NEW b \in [Workers -> Nat], NEW m \in Nat,
         \A w \in Workers : a[w] <= b[w]
  PROVE  Ranks(a, m) = Ranks(b, m) \/ Below(Ranks(a, m), Ranks(b, m), m)
<1>1. ASSUME NEW v \in 1 .. m
      PROVE  Ranks(a, m)[v] <= Ranks(b, m)[v]
  <2>1. {w \in Workers : a[w] >= v} \subseteq {w \in Workers : b[w] >= v}
    OBVIOUS
  <2>2. {w \in Workers : b[w] >= v} \subseteq Workers
    OBVIOUS
  <2> QED
    BY <2>1, <2>2, RanksOrdered DEF Ranks
<1>2. Cardinality(Workers) \in Nat
  BY FS_CardinalityType DEF FinanceAssumption
<1> QED
  BY <1>1, <1>2, RanksAreProfiles, NotFalling

\* If x is passed by one worker more, and nobody falls below x or a lower count.
LEMMA RanksRising ==
  ASSUME NEW a \in [Workers -> Nat], NEW b \in [Workers -> Nat], NEW m \in Nat,
         NEW x \in 1 .. m, NEW w \in Workers, ~(a[w] >= x), b[w] >= x,
         \A y \in 1 .. x, v \in Workers : a[v] >= y => b[v] >= y
  PROVE  Below(Ranks(a, m), Ranks(b, m), m)
<1>1. ASSUME NEW y \in 1 .. x
      PROVE  /\ Ranks(a, m)[y] <= Ranks(b, m)[y]
             /\ y = x => Ranks(a, m)[y] # Ranks(b, m)[y]
  <2> DEFINE A == {v \in Workers : a[v] >= y}
             B == {v \in Workers : b[v] >= y}
  <2>1. A \subseteq B /\ B \subseteq Workers /\ (y = x => A # B)
    OBVIOUS
  <2>2. y \in 1 .. m
    OBVIOUS
  <2>3. Ranks(a, m)[y] = Cardinality(A) /\ Ranks(b, m)[y] = Cardinality(B)
    BY <2>2 DEF Ranks
  <2> HIDE DEF A, B
  <2> QED
    BY <2>1, <2>3, RanksOrdered
<1>2. Cardinality(Workers) \in Nat
  BY FS_CardinalityType DEF FinanceAssumption
<1>3. x \in 1 .. x
  OBVIOUS
<1> QED
  BY <1>1, <1>2, <1>3, RanksAreProfiles, RisingIsAbove

\* The profiles below f are fewer than those below a higher one.
LEMMA FewerBelow ==
  ASSUME NEW m \in Nat, NEW k \in Nat, NEW f \in Profiles(m, k), NEW g \in Profiles(m, k),
         Below(f, g, m)
  PROVE  Cardinality({h \in Profiles(m, k) : Below(h, f, m)}) + 1
           <= Cardinality({h \in Profiles(m, k) : Below(h, g, m)})
<1> DEFINE F == {h \in Profiles(m, k) : Below(h, f, m)}
           G == {h \in Profiles(m, k) : Below(h, g, m)}
<1>1. IsFiniteSet(Profiles(m, k))
  BY ProfilesAreFew
<1>2. F \subseteq Profiles(m, k) /\ G \subseteq Profiles(m, k) /\ f \notin F
  BY BelowIsStrict
<1>3. F \union {f} \subseteq G
  BY BelowIsTransitive
<1> HIDE DEF F, G
<1>4. IsFiniteSet(F) /\ IsFiniteSet(G)
  BY <1>1, <1>2, FS_Subset
<1>5. IsFiniteSet(F \union {f}) /\ Cardinality(F \union {f}) = Cardinality(F) + 1
  BY <1>2, <1>4, FS_AddElement
<1>6. Cardinality(F \union {f}) <= Cardinality(G)
  BY <1>3, <1>4, FS_Subset
<1>7. Cardinality(F) + 1 <= Cardinality(G)
  BY <1>5, <1>6
<1> QED
  BY <1>7 DEF F, G

\* And at least one fewer than there are.
LEMMA BelowAll ==
  ASSUME NEW m \in Nat, NEW k \in Nat, NEW f \in Profiles(m, k)
  PROVE  /\ Cardinality({h \in Profiles(m, k) : Below(h, f, m)}) \in Nat
         /\ Cardinality({h \in Profiles(m, k) : Below(h, f, m)}) <= choose(m + k, k) - 1
<1> DEFINE F == {h \in Profiles(m, k) : Below(h, f, m)}
           P == Profiles(m, k)
<1>1. IsFiniteSet(P) /\ Cardinality(P) <= choose(m + k, k)
  BY ProfilesAreFew
<1>2. F \subseteq P \ {f}
  BY BelowIsStrict
<1>3. f \in P
  OBVIOUS
<1> HIDE DEF F, P
<1>4. IsFiniteSet(P \ {f}) /\ Cardinality(P \ {f}) = Cardinality(P) - 1
  BY <1>1, <1>3, FS_RemoveElement
<1>5. IsFiniteSet(F) /\ Cardinality(F) <= Cardinality(P \ {f})
  BY <1>2, <1>4, FS_Subset
<1>6. Cardinality(F) \in Nat /\ Cardinality(P) \in Nat /\ choose(m + k, k) \in Nat
  BY <1>1, <1>5, FS_CardinalityType, ChooseType
<1>7. Cardinality(F) \in Nat /\ Cardinality(F) <= choose(m + k, k) - 1
  BY <1>1, <1>4, <1>5, <1>6
<1> QED
  BY <1>7 DEF F
-----------------------------------------------------------------------------
(***************************************************************************)
(* How often a coupon is used.                                             *)
(***************************************************************************)

\* What a request has read is a number, and so is its level, before a step and after it.
LEMMA HeldCounts ==
  /\ TypeOK => \A w \in Workers : HoldsCount(w) => local[w].read \in Nat
  /\ TypeOK' => \A w \in Workers : HoldsCount(w)' => local'[w].read \in Nat
<1>1. ASSUME TypeOK, NEW w \in Workers, HoldsCount(w)
      PROVE  local[w].read \in Nat
  <2>1. local[w] \in Issuing \union Counting
    BY <1>1, RequestShape DEF HoldsCount
  <2> QED
    BY <2>1 DEF Issuing, Counting
<1>2. ASSUME TypeOK', NEW w \in Workers, HoldsCount(w)'
      PROVE  local'[w].read \in Nat
  <2>1. local'[w] \in Issuing \union Counting
    BY <1>2 DEF TypeOK, HoldsCount, Idle, Invoicing, Numbering, Cancelling
  <2> QED
    BY <2>1 DEF Issuing, Counting
<1> QED
  BY <1>1, <1>2

LEMMA LevelsAreNumbers ==
  /\ TypeOK => [w \in Workers |-> Level(w)] \in [Workers -> Nat]
  /\ TypeOK' => [w \in Workers |-> Level(w)'] \in [Workers -> Nat]
  BY HeldCounts DEF Level, TypeOK

LEMMA LevelsAreRanks ==
  /\ Levels = Ranks([w \in Workers |-> Level(w)], MaxUses)
  /\ Levels' = Ranks([w \in Workers |-> Level(w)'], MaxUses)
<1>1. \A v \in 1 .. MaxUses :
        {w \in Workers : Level(w) >= v} = {w \in Workers : [u \in Workers |-> Level(u)][w] >= v}
  OBVIOUS
<1>2. \A v \in 1 .. MaxUses :
        {w \in Workers : Level(w)' >= v}
          = {w \in Workers : [u \in Workers |-> Level(u)'][w] >= v}
  OBVIOUS
<1> QED
  BY <1>1, <1>2 DEF Levels, Ranks

LEMMA LevelsAreProfiles ==
  /\ TypeOK => Levels \in Profiles(MaxUses, Cardinality(Workers))
  /\ TypeOK' => Levels' \in Profiles(MaxUses, Cardinality(Workers))
  BY LevelsAreNumbers, LevelsAreRanks, RanksAreProfiles

\* How many profiles are below the present one.
Under(f) == Cardinality({h \in Profiles(MaxUses, Cardinality(Workers)) : Below(h, f, MaxUses)})

\* A step that writes no count: a request may read the one that is stored, or end.
LEMMA CountsKept ==
  ASSUME TypeOK, TypeOK', DiscountsAreBelow, UNCHANGED <<used, discounts>>,
         \A w \in Workers : HoldsCount(w)' =>
           \/ HoldsCount(w) /\ local'[w].read = local[w].read
           \/ local'[w].read = used /\ (MaxUses > 0 => used < MaxUses)
  PROVE  DiscountsAreBelow'
<1> SUFFICES ASSUME MaxUses > 0
             PROVE  /\ used' <= MaxUses
                    /\ \A w \in Workers : HoldsCount(w)' => local'[w].read < MaxUses
                    /\ discounts' <= Under(Levels')
  BY DEF DiscountsAreBelow, Under
<1> DEFINE a == [w \in Workers |-> Level(w)]
           b == [w \in Workers |-> Level(w)']
<1>1. /\ used <= MaxUses
      /\ \A w \in Workers : HoldsCount(w) => local[w].read < MaxUses
      /\ discounts <= Under(Levels)
  BY DEF DiscountsAreBelow, Under
<1>2. a \in [Workers -> Nat] /\ b \in [Workers -> Nat]
  BY LevelsAreNumbers
<1>3. \A w \in Workers : a[w] <= b[w]
  BY HeldCounts DEF Level, TypeOK
<1>4. Levels = Ranks(a, MaxUses) /\ Levels' = Ranks(b, MaxUses)
  BY LevelsAreRanks
<1>5. Levels = Levels' \/ Below(Levels, Levels', MaxUses)
  <2> HIDE DEF a, b
  <2> QED BY <1>2, <1>3, <1>4, RanksNotFalling
<1>6. Under(Levels) <= Under(Levels')
  <2>1. /\ Levels \in Profiles(MaxUses, Cardinality(Workers))
        /\ Levels' \in Profiles(MaxUses, Cardinality(Workers))
        /\ Cardinality(Workers) \in Nat
    BY LevelsAreProfiles, FS_CardinalityType
  <2>2. Under(Levels) \in Nat /\ Under(Levels') \in Nat
    BY <2>1, BelowAll DEF Under
  <2>3. Below(Levels, Levels', MaxUses) => Under(Levels) + 1 <= Under(Levels')
    BY <2>1, FewerBelow DEF Under
  <2> QED
    BY <1>5, <2>2, <2>3
<1>7. discounts' <= Under(Levels')
  <2>1. Under(Levels) \in Nat /\ Under(Levels') \in Nat
    BY LevelsAreProfiles, FS_CardinalityType, BelowAll DEF Under
  <2> QED
    BY <1>1, <1>6, <2>1 DEF TypeOK
<1> QED
  BY <1>1, <1>7

\* A count is saved: at one past the level of w there is one worker more, and nobody fell
\* below a lower count.
LEMMA CountsCounted ==
  ASSUME TypeOK, TypeOK', DiscountsAreBelow, NEW w \in Workers, CountUse(w)
  PROVE  DiscountsAreBelow'
<1> SUFFICES ASSUME MaxUses > 0
             PROVE  /\ used' <= MaxUses
                    /\ \A v \in Workers : HoldsCount(v)' => local'[v].read < MaxUses
                    /\ discounts' <= Under(Levels')
  BY DEF DiscountsAreBelow, Under
<1> DEFINE a == [v \in Workers |-> Level(v)]
           b == [v \in Workers |-> Level(v)']
           x == Level(w) + 1
           r == local[w].read
<1>1. /\ used <= MaxUses
      /\ \A v \in Workers : HoldsCount(v) => local[v].read < MaxUses
      /\ discounts <= Under(Levels)
  BY DEF DiscountsAreBelow, Under
<1>2. a \in [Workers -> Nat] /\ b \in [Workers -> Nat]
  BY LevelsAreNumbers
<1>3. /\ HoldsCount(w) /\ r \in Nat /\ r < MaxUses
      /\ used \in Nat /\ used' = r + 1 /\ discounts' = discounts + 1
  BY <1>1, HeldCounts DEF CountUse, HoldsCount, TypeOK
<1>4. /\ ~HoldsCount(w)'
      /\ \A v \in Workers : v # w => (HoldsCount(v)' <=> HoldsCount(v)) /\ local'[v] = local[v]
  BY BecomeOne DEF CountUse, HoldsCount
<1>5. /\ x \in 1 .. MaxUses /\ ~(a[w] >= x) /\ b[w] >= x
      /\ \A y \in 1 .. x, v \in Workers : a[v] >= y => b[v] >= y
  <2>1. /\ Level(w) \in Nat /\ Level(w) <= r /\ Level(w) <= used
        /\ Level(w)' = r + 1
    BY <1>3, <1>4 DEF Level
  <2>2. /\ x \in 1 .. MaxUses /\ ~(a[w] >= x) /\ b[w] >= x
    BY <1>3, <2>1
  <2>3. ASSUME NEW y \in 1 .. x, NEW v \in Workers, Level(v) >= y
        PROVE  Level(v)' >= y
    <3>1. y <= r + 1
      BY <1>3, <2>1
    <3>2. CASE HoldsCount(v)'
      <4>1. v # w /\ HoldsCount(v) /\ local'[v].read = local[v].read
        BY <1>4, <3>2
      <4>2. local[v].read \in Nat
        BY <4>1, HeldCounts
      <4>3. local[v].read >= y
        BY <1>3, <2>3, <4>1, <4>2 DEF Level
      <4> QED
        BY <1>3, <3>1, <3>2, <4>1, <4>2, <4>3 DEF Level
    <3>3. CASE ~HoldsCount(v)'
      BY <1>3, <3>1, <3>3 DEF Level
    <3> QED
      BY <3>2, <3>3
  <2> QED
    BY <2>2, <2>3
<1>6. Levels = Ranks(a, MaxUses) /\ Levels' = Ranks(b, MaxUses)
  BY LevelsAreRanks
<1>7. Below(Levels, Levels', MaxUses)
  <2> HIDE DEF a, b, x
  <2> QED BY <1>2, <1>5, <1>6, RanksRising
<1>8. Under(Levels) + 1 <= Under(Levels') /\ Under(Levels) \in Nat /\ Under(Levels') \in Nat
  <2>1. /\ Levels \in Profiles(MaxUses, Cardinality(Workers))
        /\ Levels' \in Profiles(MaxUses, Cardinality(Workers))
        /\ Cardinality(Workers) \in Nat
    BY LevelsAreProfiles, FS_CardinalityType
  <2> QED
    BY <1>7, <2>1, BelowAll, FewerBelow DEF Under
<1>9. \A v \in Workers : HoldsCount(v)' => local'[v].read < MaxUses
  BY <1>1, <1>4
<1> QED
  BY <1>1, <1>3, <1>8, <1>9 DEF TypeOK

LEMMA DiscountsStep ==
  ASSUME TypeOK, TypeOK', DiscountsAreBelow, [Next]_vars
  PROVE  DiscountsAreBelow'
<1>1. ASSUME NEW w \in Workers, NEW l, Become(w, l), UNCHANGED <<used, discounts>>,
             l.pc \notin {"issuing", "creating", "counting"}
      PROVE  DiscountsAreBelow'
  <2>1. \A v \in Workers : HoldsCount(v)' => HoldsCount(v) /\ local'[v].read = local[v].read
    BY <1>1, BecomeOne DEF HoldsCount
  <2> QED
    BY <1>1, <2>1, CountsKept
<1>2. ASSUME local' = local, UNCHANGED <<used, discounts>>
      PROVE  DiscountsAreBelow'
  BY <1>2, CountsKept DEF HoldsCount
<1>3. ASSUME NEW w \in Workers, NEW p \in Participants, NEW coupon \in BOOLEAN,
             StartIssue(w, p, coupon)
      PROVE  DiscountsAreBelow'
  <2> DEFINE l == [pc |-> "issuing", who |-> p, coupon |-> coupon,
                   read |-> IF coupon THEN used ELSE 0]
  <2>1. local'[w] = l /\ \A v \in Workers : v # w => local'[v] = local[v]
    BY <1>3, BecomeOne DEF StartIssue
  <2>2. MaxUses > 0 => (coupon => used < MaxUses)
    BY <1>3 DEF StartIssue, HasUses, FinanceAssumption
  <2>3. HoldsCount(w)' => local'[w].read = used /\ (MaxUses > 0 => used < MaxUses)
    BY <2>1, <2>2 DEF HoldsCount
  <2>4. \A v \in Workers : v # w => (HoldsCount(v)' => HoldsCount(v))
    BY <2>1 DEF HoldsCount
  <2> QED
    BY <1>3, <2>1, <2>3, <2>4, CountsKept DEF StartIssue
<1>4. ASSUME NEW w \in Workers, local[w] \in Issuing,
             Become(w, [local[w] EXCEPT !.pc = "creating"]),
             local[w].pc = "issuing", UNCHANGED <<used, discounts>>
      PROVE  DiscountsAreBelow'
  <2> DEFINE l == [local[w] EXCEPT !.pc = "creating"]
  <2>1. local'[w] = l /\ \A v \in Workers : v # w => local'[v] = local[v]
    BY <1>4, BecomeOne
  <2>2. l.coupon = local[w].coupon /\ l.read = local[w].read
    BY <1>4 DEF Issuing
  <2>3. \A v \in Workers : HoldsCount(v)' => HoldsCount(v) /\ local'[v].read = local[v].read
    BY <1>4, <2>1, <2>2 DEF HoldsCount, Issuing
  <2> QED
    BY <1>4, <2>3, CountsKept
<1>5. ASSUME NEW w \in Workers, FindTicket(w)
      PROVE  DiscountsAreBelow'
  <2>1. local[w] \in Issuing /\ UNCHANGED <<used, discounts>> /\ local[w].pc = "issuing"
    BY <1>5, RequestShape DEF FindTicket
  <2>2. \A t : Become(w, [pc |-> "invoicing", ticket |-> t]) => DiscountsAreBelow'
    BY <1>1, <2>1
  <2>3. Become(w, Idle) => DiscountsAreBelow'
    BY <1>1, <2>1 DEF Idle
  <2> QED
    BY <1>4, <1>5, <2>1, <2>2, <2>3 DEF FindTicket
<1>6. ASSUME NEW w \in Workers, NEW t \in Tickets, CreateTicket(w, t)
      PROVE  DiscountsAreBelow'
  <2>1. local[w] \in Issuing /\ UNCHANGED <<used, discounts>> /\ local[w].pc = "creating"
    BY <1>6, RequestShape DEF CreateTicket
  <2>2. CASE local[w].coupon
    <3>1. /\ local'[w] = [pc |-> "counting", ticket |-> t, read |-> local[w].read]
          /\ \A v \in Workers : v # w => local'[v] = local[v]
      BY <1>6, <2>2, BecomeOne DEF CreateTicket
    <3>2. \A v \in Workers : HoldsCount(v)' => HoldsCount(v) /\ local'[v].read = local[v].read
      BY <2>1, <2>2, <3>1 DEF HoldsCount
    <3> QED
      BY <2>1, <3>2, CountsKept
  <2>3. CASE ~local[w].coupon
    <3>1. Become(w, [pc |-> "invoicing", ticket |-> t])
      BY <1>6, <2>3 DEF CreateTicket
    <3> QED
      BY <1>1, <2>1, <3>1
  <2> QED
    BY <2>2, <2>3
<1>7. ASSUME NEW w \in Workers, FindInvoice(w)
      PROVE  DiscountsAreBelow'
  <2>1. UNCHANGED <<used, discounts>>
    BY <1>7 DEF FindInvoice
  <2>2. /\ \A t : Become(w, [pc |-> "billing", ticket |-> t]) => DiscountsAreBelow'
        /\ \A t, i : Become(w, [pc |-> "numbering", ticket |-> t, invoice |-> i])
                       => DiscountsAreBelow'
    BY <1>1, <2>1
  <2>3. Become(w, Idle) => DiscountsAreBelow'
    BY <1>1, <2>1 DEF Idle
  <2> QED
    BY <1>7, <2>2, <2>3 DEF FindInvoice
<1>8. ASSUME NEW w \in Workers,
             \/ \E i \in Invoices : CreateInvoice(w, i)
             \/ \E t \in Tickets, i \in Invoices : BillByHand(w, t, i)
             \/ \E t \in Tickets : LoadTicket(w, t)
             \/ SaveNumber(w) \/ Cancel(w) \/ Abandon(w)
      PROVE  DiscountsAreBelow'
  <2>1. UNCHANGED <<used, discounts>>
    BY <1>8 DEF CreateInvoice, BillByHand, LoadTicket, SaveNumber, Cancel, Abandon
  <2>2. /\ \A t, i : Become(w, [pc |-> "numbering", ticket |-> t, invoice |-> i])
                       => DiscountsAreBelow'
        /\ \A t, s : Become(w, [pc |-> "cancelling", ticket |-> t, status |-> s])
                       => DiscountsAreBelow'
    BY <1>1, <2>1
  <2>3. Become(w, Idle) => DiscountsAreBelow'
    BY <1>1, <2>1 DEF Idle
  <2> QED
    BY <1>8, <2>2, <2>3
       DEF CreateInvoice, BillByHand, LoadTicket, SaveNumber, Cancel, Abandon
<1>9. ASSUME NEW w \in Workers, NEW t \in Tickets,
             \/ \E status \in Entries : EnterPayment(w, t, status)
             \/ MarkRefunded(w, t) \/ Reissue(w, t) \/ DeleteTicket(w, t)
      PROVE  DiscountsAreBelow'
  BY <1>2, <1>9 DEF EnterPayment, MarkRefunded, Reissue, DeleteTicket
<1>10. ASSUME NEW w \in Workers, CountUse(w)
       PROVE  DiscountsAreBelow'
  BY <1>10, CountsCounted
<1>11. CASE UNCHANGED vars
  BY <1>2, <1>11 DEF vars
<1> QED
  BY <1>3, <1>5, <1>6, <1>7, <1>8, <1>9, <1>10, <1>11 DEF Next, Serve

\* Of TicketIssueForm.save, which saves used_count + 1 of a coupon it read without a lock:
\* for every limit and every number of workers, the discounted tickets that are counted
\* are at most the ways to choose the workers out of the limit and them, less one.
THEOREM DiscountsBounded == Spec => []DiscountsAreBounded
<1>1. Init => DiscountsAreBelow
  <2> SUFFICES ASSUME Init, MaxUses > 0
               PROVE  DiscountsAreBelow
    BY DEF DiscountsAreBelow
  <2>1. TypeOK /\ used = 0 /\ discounts = 0 /\ \A w \in Workers : ~HoldsCount(w)
    BY DEF Init, TypeOK, HoldsCount, Idle
  <2>2. Cardinality(Workers) \in Nat /\ Levels \in Profiles(MaxUses, Cardinality(Workers))
    BY <2>1, LevelsAreProfiles, FS_CardinalityType
  <2>3. Cardinality({f \in Profiles(MaxUses, Cardinality(Workers)) :
                       Below(f, Levels, MaxUses)}) \in Nat
    BY <2>2, BelowAll
  <2> QED
    BY <2>1, <2>3 DEF DiscountsAreBelow
<1>2. TypeOK /\ TypeOK' /\ DiscountsAreBelow /\ [Next]_vars => DiscountsAreBelow'
  BY DiscountsStep
<1>3. TypeOK /\ DiscountsAreBelow => DiscountsAreBounded
  <2> SUFFICES ASSUME TypeOK, DiscountsAreBelow, MaxUses > 0
               PROVE  discounts <= choose(MaxUses + Cardinality(Workers), Cardinality(Workers)) - 1
    BY DEF DiscountsAreBounded
  <2>1. Cardinality(Workers) \in Nat /\ Levels \in Profiles(MaxUses, Cardinality(Workers))
    BY LevelsAreProfiles, FS_CardinalityType
  <2>2. choose(MaxUses + Cardinality(Workers), Cardinality(Workers)) \in Nat
    BY <2>1, ChooseType
  <2>3. /\ Under(Levels) \in Nat
        /\ Under(Levels) <= choose(MaxUses + Cardinality(Workers), Cardinality(Workers)) - 1
    BY <2>1, BelowAll DEF Under
  <2>4. discounts <= Under(Levels) /\ discounts \in Nat
    BY DEF DiscountsAreBelow, Under, TypeOK
  <2> QED
    BY <2>2, <2>3, <2>4
<1> QED
  BY <1>1, <1>2, <1>3, FinanceTypeCorrect, PTL DEF Spec

LEMMA ChooseOne ==
  ASSUME NEW m \in Nat
  PROVE  choose(m + 1, 1) = m + 1
<1>1. m + 1 \in Nat /\ m + 1 # 0 /\ (m + 1) - 1 = m /\ 1 \in Nat /\ 1 # 0 /\ 1 - 1 = 0
  OBVIOUS
<1>2. factorial[m + 1] = (m + 1) * factorial[m] /\ factorial[1] = 1 * factorial[0] /\ factorial[0] = 1
  BY <1>1, FactorialDef
<1>3. ASSUME NEW a \in Nat \ {0}, NEW b \in Nat \ {0}
      PROVE  (a * b) \div (1 * b) = a
  <2>1. a * b \in Nat /\ 1 * b = b
    OBVIOUS
  <2>2. a <= (a * b) \div b
    BY <2>1, QuotientAtLeast
  <2>3. (a * b) \div b <= a
    <3> DEFINE q == (a * b) \div b
    <3>1. q \in Nat /\ q * b <= a * b
      BY <2>1, QuotientIs
    <3> HIDE DEF q
    <3> SUFFICES ASSUME a + 1 <= q
                 PROVE  FALSE
      BY <3>1 DEF q
    <3>2. (a + 1) * b <= q * b /\ (a + 1) * b = a * b + b
      BY <3>1
    <3> QED
      BY <2>1, <3>1, <3>2
  <2> QED
    BY <2>1, <2>2, <2>3, QuotientIs
<1>4. factorial[m] \in Nat \ {0}
  BY FactorialPositive
<1>5. choose(m + 1, 1) = ((m + 1) * factorial[m]) \div (1 * factorial[m])
  BY <1>1, <1>2 DEF choose
<1> QED
  BY <1>1, <1>3, <1>4, <1>5

\* Where one worker serves everybody the limit of TicketIssueForm.save is exact: no more
\* discounted tickets are counted than the coupon has uses.
THEOREM DiscountsExactAlone ==
  ASSUME Cardinality(Workers) = 1
  PROVE  Spec => [](MaxUses > 0 => discounts <= MaxUses)
<1>1. TypeOK /\ DiscountsAreBounded => (MaxUses > 0 => discounts <= MaxUses)
  <2> SUFFICES ASSUME TypeOK, MaxUses > 0, discounts <= choose(MaxUses + 1, 1) - 1
               PROVE  discounts <= MaxUses
    BY DEF DiscountsAreBounded
  <2>1. MaxUses \in Nat /\ discounts \in Nat
    BY DEF TypeOK, FinanceAssumption
  <2> QED
    BY <2>1, ChooseOne
<1> QED
  BY <1>1, DiscountsBounded, FinanceTypeCorrect, PTL
=============================================================================
