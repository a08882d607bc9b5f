----------------------------- MODULE Settlement -----------------------------
(***************************************************************************)
(* Settling one order: invoice.service.ts, payments.service.ts and the     *)
(* PayOS webhook of payments.controller.ts.                                *)
(*                                                                         *)
(* Nothing here takes a lock before it writes and the database runs READ   *)
(* COMMITTED, so a call is three steps: it reads the invoice (`call'       *)
(* remembers the object); TypeORM's save reads the row again (Select); it  *)
(* writes the columns in which the object differs from that second read,   *)
(* and commits.  Between the steps any other call may commit.              *)
(***************************************************************************)
EXTENDS Pricing, Sequences, FiniteSets

CONSTANTS
  Workers,      \* the requests in flight at one time
  Endpoints,    \* the endpoints the clients of this instance call
  Bills,        \* what the order's lines may be worth: [worth, hidden]
  Promotions,   \* ids of active promotions inside their time window
  Promo,        \* Promo[p]: the promotion
  Amounts,      \* the amounts clients ask for
  Transfers,    \* references of bank transfers
  TOL,          \* how far a transfer may be off (2 dong)
  MaxPayments,  \* bound on the payments of the invoice
  NoInvoice, NoRef

\* "OPEN" stands for every status in which an order's lines change.
OrderStatus == {"OPEN", "PAID", "CANCELLED"}

InvoiceStatus == {"UNPAID", "PARTIAL", "PAID"}

Invoice == [status : InvoiceStatus, total : Nat, discount : Nat, final : Nat]

\* A payment's method is left out: both of PaymentMethod go to the cashbook.
Payment == [amount : Nat \ {0}, ref : Transfers \cup {NoRef}]

ASSUME BillsAssumption == Bills \subseteq [worth : Nat, hidden : Nat] /\ Bills # {}
ASSUME PromotionsAssumption ==
  Promo \in [Promotions -> [kind : {"PERCENT", "AMOUNT"}, value : Nat, cap : Nat,
                            min : Nat, scope : {"ORDER", "CATEGORY", "ITEM"}]]
ASSUME FiniteAssumption == IsFiniteSet(Promotions)
ASSUME AmountsAssumption == Amounts \subseteq Nat \ {0} /\ TOL \in Nat /\ MaxPayments \in Nat
ASSUME NullsAssumption == NoInvoice \notin Invoice /\ NoRef \notin Transfers

VARIABLES
  order,     \* orders.status
  bill,      \* what the order's lines are worth
  invoice,   \* the order's row of invoices
  applied,   \* invoice_promotions.discountAmount, 0 without a row
  payments,  \* payments with status SUCCESS, in the order they were stored
  cashbook,  \* receipts posted for the invoice
  link,      \* amount of the PENDING payment that carries the PayOS link, or 0
  transfer,  \* amount a customer transferred under a reference, or 0
  call       \* what each worker is doing

vars == <<order, bill, invoice, applied, payments, cashbook, link, transfer, call>>

Idle == [op |-> "idle"]

NothingApplied == [p \in Promotions |-> 0]

Init ==
  /\ order = "OPEN"
  /\ bill \in Bills
  /\ invoice = NoInvoice
  /\ applied = NothingApplied
  /\ payments = <<>>
  /\ cashbook = 0
  /\ link = 0
  /\ transfer = [t \in Transfers |-> 0]
  /\ call = [w \in Workers |-> Idle]

----------------------------------------------------------------------------

Off(a) == SumFunction(a)

Paid == SumFunction([i \in DOMAIN payments |-> payments[i].amount])

Refs == {payments[i].ref : i \in DOMAIN payments} \ {NoRef}

\* The invoice after recomputeInvoiceTotals, which loads everything afresh.
Recomputed(inv, a) ==
  LET totals == TotalsOf(bill.worth, bill.hidden, Off(a))
  IN [status |-> inv.status, total |-> totals.total,
      discount |-> totals.discount, final |-> totals.final]

\* autoApplyPromotions on an invoice without promotions: the ones with a code
\* are for customers to ask for, and every promotion has one, so an ORDER
\* promotion is never automatic.
AutoApplied(total) ==
  [p \in Promotions |->
     LET base == BaseOf(Promo[p], total, bill.worth)
     IN IF Promo[p].scope # "ORDER" /\ Applies(base, Promo[p])
        THEN ComputeDiscount(base, Promo[p]) ELSE 0]

\* TypeORM's save of `object' over the row `now', having last read it as `db'.
Saved(object, db, now) ==
  [f \in DOMAIN now |-> IF object[f] # db[f] THEN object[f] ELSE now[f]]

Starts(w, c) == call[w] = Idle /\ call' = [call EXCEPT ![w] = c]

Ends(w) == call' = [call EXCEPT ![w] = Idle]

----------------------------------------------------------------------------
(* The dining room: lines change while the order is open (OrderDesk), and  *)
(* menu prices change; the order's status is read without a lock and       *)
(* written whatever it has become.                                         *)

ChangeLines(b) ==
  /\ order = "OPEN"
  /\ bill' = b
  /\ UNCHANGED <<order, invoice, applied, payments, cashbook, link, transfer, call>>

\* updateStatus: a served order may be declared PAID with no payment at all, an
\* open one CANCELLED without its invoice.  The recomputation of the status from
\* the lines (OrderLocks) reads and writes in the same way.
AskStatus(w, to) ==
  /\ "status" \in Endpoints /\ order = "OPEN"
  /\ Starts(w, [op |-> "status", to |-> to])
  /\ UNCHANGED <<order, bill, invoice, applied, payments, cashbook, link, transfer>>

UpdateStatus(w) ==
  /\ call[w].op = "status"
  /\ order' = call[w].to
  /\ Ends(w)
  /\ UNCHANGED <<bill, invoice, applied, payments, cashbook, link, transfer>>

----------------------------------------------------------------------------
(* createFromOrder                                                         *)

OpenInvoice(w) ==
  /\ "open" \in Endpoints
  /\ Starts(w, [op |-> "open", bill |-> bill, invoice |-> invoice, applied |-> applied,
                rows |-> <<Len(payments), link>>, db |-> NoInvoice])
  /\ UNCHANGED <<order, bill, invoice, applied, payments, cashbook, link, transfer>>

\* An invoice that exists follows the lines while it is UNPAID.
FollowsLines(inv) == inv.status = "UNPAID"

\* The save cascades to the payments that were loaded: one that is not among
\* them would lose its invoiceId, which is NOT NULL, and the save fails.
Cascades(c) == c.op = "open" => c.rows = <<Len(payments), link>>

\* The second read of a call that saves an invoice it has read.
Select(w) ==
  /\ call[w].op \in {"open", "pay", "mark", "cancel", "totals"}
  /\ call[w].invoice # NoInvoice /\ call[w].db = NoInvoice
  /\ call' = [call EXCEPT ![w] = IF Cascades(call[w]) THEN [call[w] EXCEPT !.db = invoice] ELSE Idle]
  /\ UNCHANGED <<order, bill, invoice, applied, payments, cashbook, link, transfer>>

Selected(w, op) == call[w].op = op /\ call[w].db # NoInvoice

\* An invoice that exists: its total follows the lines, its final amount does
\* not.
InvoiceUpdated(w) ==
  /\ Selected(w, "open")
  /\ invoice' = IF FollowsLines(call[w].invoice)
                THEN Saved([call[w].invoice EXCEPT !.total = call[w].bill.worth],
                           call[w].db, invoice)
                ELSE invoice
  /\ Ends(w)
  /\ UNCHANGED <<order, bill, applied, payments, cashbook, link, transfer>>

\* No invoice was found: it is created with the automatic promotions, unless
\* another call was faster (order_id is unique).
InvoiceCreated(w) ==
  /\ call[w].op = "open" /\ call[w].invoice = NoInvoice
  /\ IF invoice = NoInvoice
     THEN /\ applied' = AutoApplied(call[w].bill.worth)
          /\ invoice' = Recomputed([status |-> "UNPAID"], applied')
     ELSE UNCHANGED <<invoice, applied>>
  /\ Ends(w)
  /\ UNCHANGED <<order, bill, payments, cashbook, link, transfer>>

----------------------------------------------------------------------------
(* addPayment                                                              *)

\* What addPayment has read when it comes to write: the invoice, the payments
\* and, from both, how much of `amount' it takes.
PaymentAsked(amount, ref) ==
  [op |-> "pay", invoice |-> invoice, db |-> NoInvoice, paid |-> Paid,
   take |-> Lesser(amount, ToPay(invoice) - Paid), ref |-> ref]

\* Seeded fault: an invoice that is paid in full still takes payments.
RemainsOrCovered == invoice # NoInvoice /\ ToPay(invoice) >= Paid

Remains == invoice # NoInvoice /\ ToPay(invoice) > Paid

\* Bound: stored payments and the ones on their way.
RoomForPayment ==
  Len(payments) + Cardinality({w \in Workers : call[w].op \in {"pay", "webhook"}}) < MaxPayments

\* POST /invoices/:id/payments, /payments/manual, /payments/mock.
AskPayment(w, amount) ==
  /\ "pay" \in Endpoints
  /\ Remains /\ RoomForPayment
  /\ Starts(w, PaymentAsked(amount, NoRef))
  /\ UNCHANGED <<order, bill, invoice, applied, payments, cashbook, link, transfer>>

\* Seeded fault: externalTxnId is not unique.
MayStoreAlways(c) == TRUE

\* externalTxnId is unique.
MayStore(c) == c.ref \notin Refs

\* Seeded fault: the webhook's tolerance closes the invoice too.
FullWithinTolerance(c) == c.paid + c.take + TOL >= ToPay(c.invoice)

\* The payment completes what was asked for when the call read it.
Full(c) == c.paid + c.take >= ToPay(c.invoice)

\* Seeded fault: the cashbook gets the invoice's total instead of the payment.
StorePaymentPostingTotal(w) ==
  LET c == call[w]
  IN /\ Selected(w, "pay")
     /\ IF MayStore(c)
        THEN /\ payments' = Append(payments, [amount |-> c.take, ref |-> c.ref])
             /\ invoice' = Saved([c.invoice EXCEPT !.status = IF Full(c) THEN "PAID" ELSE "PARTIAL"],
                              c.db, invoice)
             /\ order' = IF Full(c) THEN "PAID" ELSE order
             /\ cashbook' = cashbook + (IF Full(c) THEN c.invoice.final ELSE c.take)
        ELSE UNCHANGED <<order, invoice, payments, cashbook>>
     /\ Ends(w)
     /\ UNCHANGED <<bill, applied, link, transfer>>

\* The payment, the invoice as it was read with its new status, the order and
\* the cashbook's receipt, in one transaction.
StorePayment(w) ==
  LET c == call[w]
  IN /\ Selected(w, "pay")
     /\ IF MayStore(c)
        THEN /\ payments' = Append(payments, [amount |-> c.take, ref |-> c.ref])
             /\ invoice' = Saved([c.invoice EXCEPT !.status = IF Full(c) THEN "PAID" ELSE "PARTIAL"],
                              c.db, invoice)
             /\ order' = IF Full(c) THEN "PAID" ELSE order
             /\ cashbook' = cashbook + c.take
        ELSE UNCHANGED <<order, invoice, payments, cashbook>>
     /\ Ends(w)
     /\ UNCHANGED <<bill, applied, link, transfer>>

----------------------------------------------------------------------------
(* PayOS                                                                   *)

\* create-link: the link of a PENDING payment is handed out again whatever
\* amount it was made for, and no payment ever stops being PENDING.
CreateLink(amount) ==
  /\ "link" \in Endpoints
  /\ invoice # NoInvoice /\ link = 0
  /\ link' = amount
  /\ UNCHANGED <<order, bill, invoice, applied, payments, cashbook, transfer, call>>

\* A customer pays the amount the link shows.
MakeTransfer(t) ==
  /\ link # 0 /\ transfer[t] = 0
  /\ transfer' = [transfer EXCEPT ![t] = link]
  /\ UNCHANGED <<order, bill, invoice, applied, payments, cashbook, link, call>>

\* The webhook reports a transfer, once or again: outside any transaction it
\* compares the amount with what remains of the final amount.  A transfer that
\* does not match is dropped.
Webhook(w, t) ==
  /\ transfer[t] # 0 /\ invoice # NoInvoice /\ RoomForPayment
  /\ LET remaining == NotNegative(invoice.final - Paid)
     IN transfer[t] - remaining \in -TOL..TOL
  /\ Starts(w, [op |-> "webhook", ref |-> t])
  /\ UNCHANGED <<order, bill, invoice, applied, payments, cashbook, link, transfer>>

\* ... and calls addPayment, which reads again.
WebhookPays(w) ==
  /\ call[w].op = "webhook"
  /\ call' = [call EXCEPT ![w] =
       IF Remains THEN PaymentAsked(transfer[call[w].ref], call[w].ref) ELSE Idle]
  /\ UNCHANGED <<order, bill, invoice, applied, payments, cashbook, link, transfer>>

----------------------------------------------------------------------------
(* markPaid, promotions and OrdersService.cancel                           *)

AskMarkPaid(w) ==
  /\ "mark" \in Endpoints /\ invoice # NoInvoice
  /\ Starts(w, [op |-> "mark", invoice |-> invoice, db |-> NoInvoice])
  /\ UNCHANGED <<order, bill, invoice, applied, payments, cashbook, link, transfer>>

MarkPaid(w) ==
  /\ Selected(w, "mark")
  /\ invoice' = Saved([call[w].invoice EXCEPT !.status = "PAID"], call[w].db, invoice)
  /\ order' = "PAID"
  /\ Ends(w)
  /\ UNCHANGED <<bill, applied, payments, cashbook, link, transfer>>

\* Seeded fault: promotions are refused on paid invoices only.
MayPromoteUnlessPaid ==
  "promote" \in Endpoints /\ invoice # NoInvoice /\ invoice.status # "PAID"

MayPromote == "promote" \in Endpoints /\ invoice # NoInvoice /\ invoice.status = "UNPAID"

\* applyPromotions of one promotion.
AskPromotion(w, p) ==
  LET base == BaseOf(Promo[p], invoice.total, bill.worth)
  IN /\ MayPromote
     /\ applied[p] = 0
     /\ Applies(base, Promo[p]) /\ CalcDiscount(base, Promo[p]) > 0
     /\ Starts(w, [op |-> "promote", promo |-> p, off |-> CalcDiscount(base, Promo[p])])
     /\ UNCHANGED <<order, bill, invoice, applied, payments, cashbook, link, transfer>>

\* removePromotion, which takes an id that is not applied as well.
AskRemoval(w, p) ==
  /\ MayPromote
  /\ Starts(w, [op |-> "promote", promo |-> p, off |-> 0])
  /\ UNCHANGED <<order, bill, invoice, applied, payments, cashbook, link, transfer>>

\* Either way the totals are then computed from what is there by now.
ComputeTotals(w) ==
  LET c == call[w]
  IN /\ c.op = "promote"
     /\ call' = [call EXCEPT ![w] =
          [op |-> "totals", promo |-> c.promo, off |-> c.off, db |-> NoInvoice,
           invoice |-> Recomputed(invoice, [applied EXCEPT ![c.promo] = c.off])]]
     /\ UNCHANGED <<order, bill, invoice, applied, payments, cashbook, link, transfer>>

Promote(w) ==
  /\ Selected(w, "totals")
  /\ applied' = [applied EXCEPT ![call[w].promo] = call[w].off]
  /\ invoice' = Saved(call[w].invoice, call[w].db, invoice)
  /\ Ends(w)
  /\ UNCHANGED <<order, bill, payments, cashbook, link, transfer>>

AskCancel(w) ==
  /\ "cancel" \in Endpoints
  /\ order # "PAID"
  /\ invoice # NoInvoice => invoice.status # "PAID"
  /\ Starts(w, [op |-> "cancel", invoice |-> invoice, db |-> NoInvoice])
  /\ UNCHANGED <<order, bill, invoice, applied, payments, cashbook, link, transfer>>

\* cancel: the invoice is not voided but UNPAID, also one that is partly paid.
Cancel(w) ==
  /\ call[w].op = "cancel"
  /\ \/ call[w].invoice = NoInvoice /\ UNCHANGED invoice
     \/ /\ Selected(w, "cancel")
        /\ invoice' = Saved([call[w].invoice EXCEPT !.status = "UNPAID"], call[w].db, invoice)
  /\ order' = "CANCELLED"
  /\ Ends(w)
  /\ UNCHANGED <<bill, applied, payments, cashbook, link, transfer>>

----------------------------------------------------------------------------

Request(w) ==
  \/ OpenInvoice(w) \/ AskMarkPaid(w) \/ AskCancel(w)
  \/ \E to \in OrderStatus : AskStatus(w, to)
  \/ \E amount \in Amounts : AskPayment(w, amount)
  \/ \E t \in Transfers : Webhook(w, t)
  \/ \E p \in Promotions : AskPromotion(w, p) \/ AskRemoval(w, p)

Commit(w) ==
  \/ InvoiceCreated(w) \/ InvoiceUpdated(w) \/ StorePayment(w) \/ WebhookPays(w)
  \/ MarkPaid(w) \/ ComputeTotals(w) \/ Promote(w) \/ Cancel(w) \/ UpdateStatus(w)
  \/ Select(w)

Next ==
  \/ \E w \in Workers : Request(w) \/ Commit(w)
  \/ \E b \in Bills : ChangeLines(b)
  \/ \E amount \in Amounts : CreateLink(amount)
  \/ \E t \in Transfers : MakeTransfer(t)

Spec == Init /\ [][Next]_vars

----------------------------------------------------------------------------
(* What the till promises                                                  *)

Call ==
  [op : {"idle"}]
    \cup [op : {"open"}, bill : [worth : Nat, hidden : Nat],
          invoice : Invoice \cup {NoInvoice}, db : Invoice \cup {NoInvoice},
          applied : [Promotions -> Nat], rows : Nat \X Nat]
    \cup [op : {"pay"}, invoice : Invoice, db : Invoice \cup {NoInvoice}, paid : Nat,
          take : Nat \ {0}, ref : Transfers \cup {NoRef}]
    \cup [op : {"webhook"}, ref : Transfers]
    \cup [op : {"status"}, to : OrderStatus]
    \cup [op : {"mark"}, invoice : Invoice, db : Invoice \cup {NoInvoice}]
    \cup [op : {"cancel"}, invoice : Invoice \cup {NoInvoice}, db : Invoice \cup {NoInvoice}]
    \cup [op : {"promote"}, promo : Promotions, off : Nat]
    \cup [op : {"totals"}, promo : Promotions, off : Nat, invoice : Invoice,
          db : Invoice \cup {NoInvoice}]

\* Every column and every request in flight holds a value of its type; no
\* payment of zero is stored and no amount falls below zero.
TypeOK ==
  /\ order \in OrderStatus
  /\ bill \in [worth : Nat, hidden : Nat]
  /\ invoice \in Invoice \cup {NoInvoice}
  /\ applied \in [Promotions -> Nat]
  /\ payments \in Seq(Payment)
  /\ cashbook \in Nat
  /\ link \in Nat
  /\ transfer \in [Transfers -> Nat]
  /\ call \in [Workers -> Call]

\* With one request at a time the invoice is a register: its price is fixed by
\* the first payment, and no more is taken than it asks for.
AsRegister ==
  INSTANCE Register WITH due <- IF invoice = NoInvoice THEN 0 ELSE ToPay(invoice),
                         paid <- Paid

RegisterSpec == AsRegister!Spec

\* The cashbook's receipts are the invoice's payments, neither more nor less,
\* however requests interleave (cashbook.service.ts writes in addPayment's
\* transaction).
BooksBalance == cashbook = Paid

\* A transfer the bank reports again and again, to several workers at once, is
\* counted once and with no more than was transferred.
TransferCountedOnce ==
  \A i \in DOMAIN payments : payments[i].ref # NoRef =>
    /\ payments[i].amount <= transfer[payments[i].ref]
    /\ \A j \in DOMAIN payments : payments[j].ref = payments[i].ref => j = i

\* markPaid and updateStatus declare what they are told.
ClosedByHand == \E w \in Workers : call[w].op \in {"mark", "status"} /\ Ends(w)

Closes ==
  \/ order # "PAID" /\ order' = "PAID"
  \/ invoice # NoInvoice /\ invoice.status # "PAID" /\ invoice'.status = "PAID"

\* Unless a person declares it, an order or its invoice turns PAID only in the
\* step in which the payments come to cover the invoice's final amount, whoever
\* pays, cancels, reopens or declares at the same time (addPayment closes both
\* on sums it has read without a lock).
PaidMeansCovered == [][Closes => ClosedByHand \/ Paid' >= invoice'.final]_vars

\* Together the payments never exceed what the invoice asks for.
NeverOverpaid == invoice # NoInvoice => Paid <= ToPay(invoice)

=============================================================================
