-------------------------- MODULE Settlement_proofs --------------------------
(***************************************************************************)
(* Theorems about Settlement, for every number of workers and transfers,    *)
(* every promotion and every bill: the types, that a bank transfer is       *)
(* counted once, that the cashbook follows the payments, that what turns    *)
(* PAID is covered or was declared, and that one request at a time leaves a *)
(* register.                                                               *)
(* What the calls in flight have read is part of every invariant.           *)
(***************************************************************************)
EXTENDS Settlement, SumTheorems

MaybeInvoice == Invoice \cup {NoInvoice}

\* The calls that save an invoice.
Saving == {"open", "pay", "mark", "cancel", "totals"}

\* A call that computes totals found an invoice; one that has read an invoice
\* again had found one, and there still is one.
CallsHaveInvoice ==
  \A w \in Workers :
    /\ call[w].op = "promote" => invoice # NoInvoice
    /\ call[w].op \in Saving /\ call[w].db # NoInvoice
         => invoice # NoInvoice /\ call[w].invoice # NoInvoice

\* A webhook reports a transfer that was made, and takes no more than that.
CallsHaveTransfer ==
  \A w \in Workers :
    /\ call[w].op = "webhook" => transfer[call[w].ref] # 0
    /\ call[w].op = "pay" /\ call[w].ref # NoRef => call[w].take <= transfer[call[w].ref]

IInv == TypeOK /\ CallsHaveInvoice /\ CallsHaveTransfer

----------------------------------------------------------------------------
(* Arithmetic                                                              *)

LEMMA LesserType == ASSUME NEW a \in Int, NEW b \in Int
  PROVE Lesser(a, b) \in {a, b} /\ Lesser(a, b) <= a /\ Lesser(a, b) <= b
BY DEF Lesser

LEMMA OffType == ASSUME NEW a \in [Promotions -> Nat] PROVE Off(a) \in Nat
<1>1. DOMAIN a = Promotions /\ \A p \in Promotions : a[p] \in Nat
  OBVIOUS
<1> QED
  BY <1>1, SumNat, FiniteAssumption DEF Off, SumFunction

\* What is paid is a number, and a payment that is stored adds its amount.
LEMMA PaymentsAre ==
  ASSUME payments \in Seq(Payment)
  PROVE  /\ IsFiniteSet(DOMAIN payments)
         /\ \A i \in DOMAIN payments : payments[i] \in Payment
         /\ \A i \in DOMAIN payments : payments[i].amount \in Nat \ {0}
<1>1. Len(payments) \in Nat /\ DOMAIN payments = 1..Len(payments)
  OBVIOUS
<1>2. IsFiniteSet(1..Len(payments))
  BY <1>1, FS_Interval
<1>3. \A i \in DOMAIN payments : payments[i] \in Payment
  OBVIOUS
<1>4. \A p \in Payment : p.amount \in Nat \ {0}
  BY DEF Payment
<1> QED
  BY <1>1, <1>2, <1>3, <1>4

LEMMA PaidType == ASSUME payments \in Seq(Payment) PROVE Paid \in Nat
<1> DEFINE f == [i \in DOMAIN payments |-> payments[i].amount]
<1>1. IsFiniteSet(DOMAIN payments) /\ \A i \in DOMAIN payments : f[i] \in Nat
  BY PaymentsAre
<1>2. Paid = SumFunctionOnSet(f, DOMAIN payments)
  BY DEF Paid, SumFunction
<1> HIDE DEF f
<1> QED
  BY <1>1, <1>2, SumNat

LEMMA PaidAppend ==
  ASSUME payments \in Seq(Payment), NEW p \in Payment, payments' = Append(payments, p)
  PROVE  Paid' = Paid + p.amount
<1> DEFINE n == Len(payments)
           f == [i \in DOMAIN payments |-> payments[i].amount]
           g == [i \in DOMAIN payments' |-> payments'[i].amount]
<1>1. /\ n \in Nat /\ DOMAIN payments = 1..n /\ DOMAIN payments' = 1..(n + 1)
      /\ payments'[n + 1] = p /\ \A i \in 1..n : payments'[i] = payments[i]
  OBVIOUS
<1>2. /\ p.amount \in Int /\ p.amount \in Nat
      /\ \A i \in 1..n : payments[i].amount \in Int
  <2>1. p.amount \in Nat \ {0}
    BY DEF Payment
  <2> QED
    BY <1>1, <2>1, PaymentsAre
<1>3. /\ \A i \in 1..n : f[i] \in Int /\ f[i] = g[i]
      /\ g[n + 1] = p.amount
  <2>1. n + 1 \in 1..(n + 1) /\ \A i \in 1..n : i \in 1..(n + 1)
    BY <1>1
  <2>2. \A i \in 1..n : f[i] = payments[i].amount /\ g[i] = payments'[i].amount
    BY <1>1, <2>1
  <2> QED
    BY <1>1, <1>2, <2>1, <2>2
<1>4. Paid = SumFunctionOnSet(f, 1..n) /\ Paid' = SumFunctionOnSet(g, 1..(n + 1))
  BY <1>1 DEF Paid, SumFunction
<1>5. IsFiniteSet(1..n)
  BY <1>1, FS_Interval
<1>6. 1..(n + 1) = (1..n) \cup {n + 1} /\ n + 1 \notin 1..n
  BY <1>1
<1> HIDE DEF f, g, n
<1>7. SumFunctionOnSet(g, 1..n) = SumFunctionOnSet(f, 1..n)
  BY <1>3, <1>5, SumSame
<1>8. SumFunctionOnSet(f, 1..n) \in Int
  BY <1>3, <1>5, SumRemove
<1>9. g[n + 1] \in Int /\ \A i \in 1..n : g[i] \in Int
  BY <1>2, <1>3
<1>10. SumFunctionOnSet(g, (1..n) \cup {n + 1}) = g[n + 1] + SumFunctionOnSet(g, 1..n)
  BY <1>5, <1>6, <1>9, SumAdd
<1>11. SumFunctionOnSet(g, 1..(n + 1)) = SumFunctionOnSet(g, (1..n) \cup {n + 1})
  BY <1>6, Zenon
<1> QED
  BY <1>2, <1>3, <1>4, <1>7, <1>8, <1>10, <1>11

LEMMA ToPayType == ASSUME NEW inv \in Invoice PROVE ToPay(inv) \in Nat
BY DEF ToPay, NotNegative, Invoice

LEMMA PercentType == ASSUME NEW base \in Nat, NEW value \in Nat
  PROVE (base * value) \div 100 \in Nat
<1>1. base * value \in Nat
  OBVIOUS
<1> QED
  BY <1>1

LEMMA PromoType ==
  ASSUME NEW p \in Promotions
  PROVE  /\ Promo[p].kind \in {"PERCENT", "AMOUNT"}
         /\ Promo[p].value \in Nat /\ Promo[p].cap \in Nat /\ Promo[p].min \in Nat
BY PromotionsAssumption

\* No discount is negative.
LEMMA DiscountType ==
  ASSUME NEW p \in Promotions, NEW base \in Nat
  PROVE  CalcDiscount(base, Promo[p]) \in Nat /\ ComputeDiscount(base, Promo[p]) \in Nat
<1> DEFINE percent == (base * Promo[p].value) \div 100
<1>1. percent \in Nat /\ Promo[p].value \in Nat /\ Promo[p].cap \in Nat
  BY PromoType, PercentType
<1> HIDE DEF percent
<1>2. Capped(percent, Promo[p].cap) \in Nat /\ Capped(Promo[p].value, Promo[p].cap) \in Nat
  BY <1>1 DEF Capped, Lesser
<1>3. CalcDiscount(base, Promo[p]) \in Nat
  <2>1. CalcDiscount(base, Promo[p]) =
          Lesser(base, IF Promo[p].kind = "PERCENT" THEN Capped(percent, Promo[p].cap)
                                                    ELSE Promo[p].value)
    BY DEF CalcDiscount, percent
  <2> QED
    BY <1>1, <1>2, <2>1 DEF Lesser
<1>4. ComputeDiscount(base, Promo[p]) \in Nat
  <2>1. ComputeDiscount(base, Promo[p]) =
          Capped(IF Promo[p].kind = "PERCENT" THEN percent ELSE Promo[p].value, Promo[p].cap)
    BY DEF ComputeDiscount, percent
  <2> QED
    BY <1>2, <2>1
<1> QED
  BY <1>3, <1>4

LEMMA RecomputedType ==
  ASSUME bill \in [worth : Nat, hidden : Nat], NEW inv, inv.status \in InvoiceStatus,
         NEW a \in [Promotions -> Nat]
  PROVE  Recomputed(inv, a) \in Invoice
<1> DEFINE totals == TotalsOf(bill.worth, bill.hidden, Off(a))
<1>1. bill.worth \in Nat /\ bill.hidden \in Nat /\ Off(a) \in Nat
  BY OffType
<1>2. totals.total \in Nat /\ totals.discount \in Nat /\ totals.final \in Nat
  BY <1>1 DEF TotalsOf, Lesser, NotNegative
<1> QED
  BY <1>2 DEF Recomputed, Invoice

LEMMA AutoAppliedType ==
  ASSUME bill \in [worth : Nat, hidden : Nat], NEW total \in Nat
  PROVE  AutoApplied(total) \in [Promotions -> Nat]
<1>1. \A p \in Promotions : BaseOf(Promo[p], total, bill.worth) \in Nat
  BY DEF BaseOf
<1>2. \A p \in Promotions : ComputeDiscount(BaseOf(Promo[p], total, bill.worth), Promo[p]) \in Nat
  BY <1>1, DiscountType
<1> QED
  BY <1>2 DEF AutoApplied

\* Whatever a call read and read again, what it saves is an invoice.
LEMMA SavedType ==
  ASSUME NEW object \in Invoice, NEW db \in Invoice, NEW now \in Invoice
  PROVE  Saved(object, db, now) \in Invoice
<1>1. DOMAIN now = {"status", "total", "discount", "final"}
  BY DEF Invoice
<1>2. \A f \in DOMAIN now : Saved(object, db, now)[f] \in {object[f], now[f]}
  BY DEF Saved
<1>3. DOMAIN Saved(object, db, now) = DOMAIN now
  BY DEF Saved
<1>4. Saved(object, db, now) = [f \in DOMAIN now |-> Saved(object, db, now)[f]]
  BY DEF Saved
<1> QED
  BY <1>1, <1>2, <1>3, <1>4 DEF Invoice

----------------------------------------------------------------------------
(* The calls in flight                                                     *)

LEMMA CallFields ==
  ASSUME NEW c \in Call
  PROVE  /\ c.op = "open" => c.bill.worth \in Nat /\ c.invoice \in MaybeInvoice
         /\ c.op = "pay" => /\ c.take \in Nat \ {0} /\ c.ref \in Transfers \cup {NoRef}
                            /\ c.paid \in Nat
         /\ c.op \in {"pay", "mark", "totals"} => c.invoice \in Invoice
         /\ c.op = "cancel" => c.invoice \in MaybeInvoice
         /\ c.op \in Saving => c.db \in MaybeInvoice
         /\ c.op = "webhook" => c.ref \in Transfers
         /\ c.op = "status" => c.to \in OrderStatus
         /\ c.op \in {"promote", "totals"} => c.promo \in Promotions /\ c.off \in Nat
BY DEF Call, Saving, MaybeInvoice

LEMMA SelectedCall ==
  ASSUME NEW c \in Call, c.op \in Saving, NEW inv \in MaybeInvoice
  PROVE  [c EXCEPT !.db = inv] \in Call
BY DEF Call, Saving, MaybeInvoice

\* A step after which a worker is idle and nothing it could spoil has changed.
LEMMA EndsKeepsCalls ==
  ASSUME IInv, NEW w \in Workers, Ends(w), UNCHANGED transfer,
         invoice # NoInvoice => invoice' # NoInvoice
  PROVE  call' \in [Workers -> Call] /\ CallsHaveInvoice' /\ CallsHaveTransfer'
<1>1. Idle \in Call
  BY DEF Idle, Call
<1>2. /\ call' \in [Workers -> Call] /\ call'[w].op = "idle"
      /\ \A v \in Workers \ {w} : call'[v] = call[v]
  BY <1>1 DEF Ends, IInv, TypeOK, Idle
<1>3. "idle" \notin Saving
  BY DEF Saving
<1> QED
  BY <1>2, <1>3 DEF IInv, CallsHaveInvoice, CallsHaveTransfer

\* A step that only moves a worker to another stage of its call.
LEMMA MovesKeepInv ==
  ASSUME IInv, NEW w \in Workers, NEW c \in Call, call' = [call EXCEPT ![w] = c],
         UNCHANGED <<order, bill, invoice, applied, payments, cashbook, link, transfer>>,
         c.op = "promote" => invoice # NoInvoice,
         c.op \in Saving /\ c.db # NoInvoice => invoice # NoInvoice /\ c.invoice # NoInvoice,
         c.op = "webhook" => transfer[c.ref] # 0,
         c.op = "pay" /\ c.ref # NoRef => c.take <= transfer[c.ref]
  PROVE  IInv'
<1>1. /\ call' \in [Workers -> Call] /\ call'[w] = c
      /\ \A v \in Workers \ {w} : call'[v] = call[v]
  BY DEF IInv, TypeOK
<1>2. CallsHaveInvoice'
  BY <1>1 DEF IInv, CallsHaveInvoice
<1>3. CallsHaveTransfer'
  BY <1>1 DEF IInv, CallsHaveTransfer
<1> QED
  BY <1>1, <1>2, <1>3 DEF IInv, TypeOK

\* A payment that is asked for takes something, and no more than was asked.
LEMMA PaymentAskedType ==
  ASSUME TypeOK, Remains, NEW amount \in Nat \ {0}, NEW ref \in Transfers \cup {NoRef}
  PROVE  /\ PaymentAsked(amount, ref) \in Call
         /\ PaymentAsked(amount, ref).take <= amount
<1>1. invoice \in Invoice /\ ToPay(invoice) \in Nat /\ Paid \in Nat /\ ToPay(invoice) > Paid
  BY ToPayType, PaidType DEF TypeOK, Remains
<1> DEFINE take == Lesser(amount, ToPay(invoice) - Paid)
<1>2. take \in Nat \ {0} /\ take <= amount
  BY <1>1 DEF Lesser
<1>3. PaymentAsked(amount, ref) = [op |-> "pay", invoice |-> invoice, db |-> NoInvoice,
                                   paid |-> Paid, take |-> take, ref |-> ref]
  BY DEF PaymentAsked
<1> HIDE DEF take
<1> QED
  BY <1>1, <1>2, <1>3 DEF Call

----------------------------------------------------------------------------
(* The types                                                               *)

LEMMA RequestKeepsInv ==
  ASSUME IInv, NEW w \in Workers, Request(w)
  PROVE  IInv'
<1>1. CASE OpenInvoice(w)
  <2> DEFINE c == [op |-> "open", bill |-> bill, invoice |-> invoice, applied |-> applied,
                   rows |-> <<Len(payments), link>>, db |-> NoInvoice]
  <2>1. c \in Call
    BY DEF Call, IInv, TypeOK
  <2>2. c.op = "open" /\ c.db = NoInvoice
    OBVIOUS
  <2>3. call' = [call EXCEPT ![w] = c]
    BY <1>1 DEF OpenInvoice, Starts
  <2> HIDE DEF c
  <2> QED
    BY <1>1, <2>1, <2>2, <2>3, MovesKeepInv DEF OpenInvoice
<1>2. CASE AskMarkPaid(w) \/ AskCancel(w)
  <2>1. PICK op \in {"mark", "cancel"} :
          /\ op = "mark" => invoice # NoInvoice
          /\ call' = [call EXCEPT ![w] = [op |-> op, invoice |-> invoice, db |-> NoInvoice]]
    BY <1>2 DEF AskMarkPaid, AskCancel, Starts
  <2> DEFINE c == [op |-> op, invoice |-> invoice, db |-> NoInvoice]
  <2>2. c \in Call
    BY <2>1 DEF Call, IInv, TypeOK
  <2>3. c.op \in {"mark", "cancel"} /\ c.db = NoInvoice
    OBVIOUS
  <2> HIDE DEF c
  <2>4. call' = [call EXCEPT ![w] = c]
    BY <2>1 DEF c
  <2> QED
    BY <1>2, <2>2, <2>3, <2>4, MovesKeepInv DEF AskMarkPaid, AskCancel
<1>3. CASE \E amount \in Amounts : AskPayment(w, amount)
  <2>1. PICK amount \in Amounts : AskPayment(w, amount)
    BY <1>3
  <2> DEFINE c == PaymentAsked(amount, NoRef)
  <2>2. c \in Call
    BY <2>1, PaymentAskedType, AmountsAssumption DEF AskPayment, IInv
  <2>3. c.op = "pay" /\ c.db = NoInvoice /\ c.ref = NoRef
    BY DEF PaymentAsked
  <2>4. call' = [call EXCEPT ![w] = c]
    BY <2>1 DEF AskPayment, Starts
  <2> HIDE DEF c
  <2> QED
    BY <2>1, <2>2, <2>3, <2>4, MovesKeepInv DEF AskPayment
<1>4. CASE \E t \in Transfers : Webhook(w, t)
  <2>1. PICK t \in Transfers : Webhook(w, t)
    BY <1>4
  <2> DEFINE c == [op |-> "webhook", ref |-> t]
  <2>2. c \in Call /\ c.op = "webhook" /\ c.ref = t
    BY DEF Call
  <2>3. call' = [call EXCEPT ![w] = c]
    BY <2>1 DEF Webhook, Starts
  <2> HIDE DEF c
  <2>4. transfer[c.ref] # 0
    BY <2>1, <2>2 DEF Webhook
  <2>5. "webhook" \notin Saving
    BY DEF Saving
  <2> QED
    BY <2>1, <2>2, <2>3, <2>4, <2>5, MovesKeepInv DEF Webhook
<1>5. CASE \E p \in Promotions : AskPromotion(w, p) \/ AskRemoval(w, p)
  <2>1. PICK p \in Promotions : AskPromotion(w, p) \/ AskRemoval(w, p)
    BY <1>5
  <2>2. BaseOf(Promo[p], invoice.total, bill.worth) \in Nat
    BY <2>1 DEF BaseOf, AskPromotion, AskRemoval, MayPromote, IInv, TypeOK, Invoice
  <2>3. PICK off \in Nat :
          call' = [call EXCEPT ![w] = [op |-> "promote", promo |-> p, off |-> off]]
    BY <2>1, <2>2, DiscountType DEF AskPromotion, AskRemoval, Starts
  <2> DEFINE c == [op |-> "promote", promo |-> p, off |-> off]
  <2>4. c \in Call /\ c.op = "promote"
    BY DEF Call
  <2>5. call' = [call EXCEPT ![w] = c]
    BY <2>3
  <2> HIDE DEF c
  <2>6. invoice # NoInvoice
    BY <2>1 DEF AskPromotion, AskRemoval, MayPromote
  <2>7. "promote" \notin Saving
    BY DEF Saving
  <2>8. UNCHANGED <<order, bill, invoice, applied, payments, cashbook, link, transfer>>
    BY <2>1 DEF AskPromotion, AskRemoval
  <2> QED
    BY <2>4, <2>5, <2>6, <2>7, <2>8, MovesKeepInv
<1>6. CASE \E to \in OrderStatus : AskStatus(w, to)
  <2>1. PICK to \in OrderStatus : AskStatus(w, to)
    BY <1>6
  <2> DEFINE c == [op |-> "status", to |-> to]
  <2>2. c \in Call /\ c.op = "status"
    BY DEF Call
  <2>3. call' = [call EXCEPT ![w] = c]
    BY <2>1 DEF AskStatus, Starts
  <2> HIDE DEF c
  <2>4. "status" \notin Saving
    BY DEF Saving
  <2> QED
    BY <2>1, <2>2, <2>3, <2>4, MovesKeepInv DEF AskStatus
<1> QED
  BY <1>1, <1>2, <1>3, <1>4, <1>5, <1>6 DEF Request

LEMMA SelectKeepsInv ==
  ASSUME IInv, NEW w \in Workers, Select(w)
  PROVE  IInv'
<1>1. call[w] \in Call /\ call[w].op \in Saving /\ invoice \in MaybeInvoice
  BY DEF Select, Saving, IInv, TypeOK, MaybeInvoice
<1>2. CASE Cascades(call[w])
  <2> DEFINE c == [call[w] EXCEPT !.db = invoice]
  <2>1. c \in Call
    BY <1>1, SelectedCall
  <2>2. /\ c.op = call[w].op /\ c.db = invoice /\ c.invoice # NoInvoice
        /\ c.op = "pay" => c.ref = call[w].ref /\ c.take = call[w].take
    BY <1>1 DEF Call, Saving, Select
  <2>3. call' = [call EXCEPT ![w] = c]
    BY <1>2 DEF Select
  <2> HIDE DEF c
  <2>4. c.op \notin {"promote", "webhook"}
    BY <1>1, <2>2 DEF Saving
  <2>5. c.op = "pay" /\ c.ref # NoRef => c.take <= transfer[c.ref]
    BY <2>2 DEF IInv, CallsHaveTransfer
  <2> QED
    BY <2>1, <2>2, <2>3, <2>4, <2>5, MovesKeepInv DEF Select
<1>3. CASE ~Cascades(call[w])
  <2>1. Idle \in Call /\ Idle.op = "idle" /\ "idle" \notin Saving
    BY DEF Idle, Call, Saving
  <2>2. call' = [call EXCEPT ![w] = Idle]
    BY <1>3 DEF Select
  <2> QED
    BY <2>1, <2>2, MovesKeepInv DEF Select
<1> QED
  BY <1>2, <1>3

LEMMA StagesKeepInv ==
  ASSUME IInv, NEW w \in Workers, WebhookPays(w) \/ ComputeTotals(w)
  PROVE  IInv'
<1>1. call[w] \in Call
  BY DEF IInv, TypeOK
<1>2. CASE WebhookPays(w) /\ Remains
  <2> DEFINE t == call[w].ref
             c == PaymentAsked(transfer[t], t)
  <2>1. t \in Transfers /\ transfer[t] \in Nat \ {0} /\ t # NoRef
    BY <1>1, <1>2, CallFields, NullsAssumption
    DEF WebhookPays, IInv, CallsHaveTransfer, TypeOK
  <2>2. c \in Call /\ c.take <= transfer[t]
    BY <1>2, <2>1, PaymentAskedType DEF IInv
  <2>3. c.op = "pay" /\ c.db = NoInvoice /\ c.ref = t
    BY DEF PaymentAsked
  <2>4. call' = [call EXCEPT ![w] = c]
    BY <1>2 DEF WebhookPays
  <2> HIDE DEF c
  <2> QED
    BY <1>2, <2>2, <2>3, <2>4, MovesKeepInv DEF WebhookPays
<1>3. CASE WebhookPays(w) /\ ~Remains
  <2>1. Idle \in Call /\ Idle.op = "idle" /\ "idle" \notin Saving
    BY DEF Idle, Call, Saving
  <2>2. call' = [call EXCEPT ![w] = Idle]
    BY <1>3 DEF WebhookPays
  <2> QED
    BY <1>3, <2>1, <2>2, MovesKeepInv DEF WebhookPays
<1>4. CASE ComputeTotals(w)
  <2> DEFINE p == call[w].promo
             totals == Recomputed(invoice, [applied EXCEPT ![p] = call[w].off])
             c == [op |-> "totals", promo |-> p, off |-> call[w].off, db |-> NoInvoice,
                   invoice |-> totals]
  <2>1. p \in Promotions /\ call[w].off \in Nat
    BY <1>1, <1>4, CallFields DEF ComputeTotals
  <2>2. invoice \in Invoice
    BY <1>4 DEF ComputeTotals, IInv, CallsHaveInvoice, TypeOK
  <2>3. totals \in Invoice
    <3>1. [applied EXCEPT ![p] = call[w].off] \in [Promotions -> Nat]
      BY <2>1 DEF IInv, TypeOK
    <3> QED
      BY <2>2, <3>1, RecomputedType DEF IInv, TypeOK, Invoice
  <2>4. c \in Call /\ c.op = "totals" /\ c.db = NoInvoice
    BY <2>1, <2>3 DEF Call
  <2>5. call' = [call EXCEPT ![w] = c]
    BY <1>4 DEF ComputeTotals
  <2> HIDE DEF c
  <2> QED
    BY <1>4, <2>4, <2>5, MovesKeepInv DEF ComputeTotals
<1> QED
  BY <1>2, <1>3, <1>4

\* A call that saves has an invoice to save, and so has the table.
LEMMA SelectedInvoice ==
  ASSUME IInv, NEW w \in Workers, NEW op \in Saving, Selected(w, op)
  PROVE  call[w].invoice \in Invoice /\ call[w].db \in Invoice /\ invoice \in Invoice
<1>1. call[w] \in Call /\ call[w].op = op /\ call[w].db # NoInvoice
  BY DEF Selected, IInv, TypeOK
<1>2. call[w].invoice # NoInvoice /\ invoice # NoInvoice
  BY <1>1 DEF IInv, CallsHaveInvoice
<1>3. call[w].db \in Invoice /\ call[w].invoice \in Invoice
  BY <1>1, <1>2, CallFields DEF Saving, MaybeInvoice
<1> QED
  BY <1>2, <1>3 DEF IInv, TypeOK

LEMMA InvoicesAreInvoices == \A i \in Invoice : i # NoInvoice
BY NullsAssumption

\* The invoice as read, with another status or total, is an invoice.
LEMMA ChangedInvoice ==
  ASSUME NEW inv \in Invoice, NEW s \in InvoiceStatus, NEW n \in Nat
  PROVE  [inv EXCEPT !.status = s] \in Invoice /\ [inv EXCEPT !.total = n] \in Invoice
BY DEF Invoice

LEMMA InvoiceUpdatedKeepsInv ==
  ASSUME IInv, NEW w \in Workers, InvoiceUpdated(w)
  PROVE  IInv'
<1>1. call[w] \in Call /\ call[w].op = "open" /\ "open" \in Saving
  BY DEF InvoiceUpdated, Selected, IInv, TypeOK, Saving
<1>2. call[w].invoice \in Invoice /\ call[w].db \in Invoice /\ invoice \in Invoice
  BY <1>1, SelectedInvoice DEF InvoiceUpdated
<1>3. call[w].bill.worth \in Nat
  BY <1>1, CallFields
<1>4. "UNPAID" \in InvoiceStatus
  BY DEF InvoiceStatus
<1>5. Saved([call[w].invoice EXCEPT !.total = call[w].bill.worth], call[w].db, invoice) \in Invoice
  BY <1>2, <1>3, <1>4, ChangedInvoice, SavedType
<1>6. invoice' \in Invoice
  BY <1>2, <1>5 DEF InvoiceUpdated
<1>7. call' \in [Workers -> Call] /\ CallsHaveInvoice' /\ CallsHaveTransfer'
  BY <1>6, InvoicesAreInvoices, EndsKeepsCalls DEF InvoiceUpdated
<1> QED
  BY <1>6, <1>7 DEF InvoiceUpdated, IInv, TypeOK

LEMMA InvoiceCreatedKeepsInv ==
  ASSUME IInv, NEW w \in Workers, InvoiceCreated(w)
  PROVE  IInv'
<1>1. call[w].bill.worth \in Nat /\ bill \in [worth : Nat, hidden : Nat]
  BY CallFields DEF InvoiceCreated, IInv, TypeOK
<1>2. applied' \in [Promotions -> Nat]
  BY <1>1, AutoAppliedType DEF InvoiceCreated, IInv, TypeOK
<1>3. [status |-> "UNPAID"].status \in InvoiceStatus
  BY DEF InvoiceStatus
<1>4. Recomputed([status |-> "UNPAID"], applied') \in Invoice
  BY <1>1, <1>2, <1>3, RecomputedType
<1>5. /\ invoice' \in MaybeInvoice
      /\ invoice # NoInvoice => invoice' # NoInvoice
  BY <1>4 DEF InvoiceCreated, IInv, TypeOK, MaybeInvoice
<1>6. call' \in [Workers -> Call] /\ CallsHaveInvoice' /\ CallsHaveTransfer'
  BY <1>5, EndsKeepsCalls DEF InvoiceCreated
<1> QED
  BY <1>2, <1>5, <1>6 DEF InvoiceCreated, IInv, TypeOK, MaybeInvoice

LEMMA StorePaymentKeepsInv ==
  ASSUME IInv, NEW w \in Workers, StorePayment(w)
  PROVE  IInv'
<1> DEFINE c == call[w]
           s == IF Full(c) THEN "PAID" ELSE "PARTIAL"
<1>1. c \in Call /\ c.op = "pay" /\ "pay" \in Saving
  BY DEF StorePayment, Selected, IInv, TypeOK, Saving
<1>2. c.take \in Nat \ {0} /\ c.ref \in Transfers \cup {NoRef} /\ c.invoice \in Invoice
  BY <1>1, CallFields
<1>3. c.db \in Invoice /\ invoice \in Invoice
  BY <1>1, SelectedInvoice DEF StorePayment
<1>4. s \in InvoiceStatus
  BY DEF InvoiceStatus
<1>5. Saved([c.invoice EXCEPT !.status = s], c.db, invoice) \in Invoice
  BY <1>2, <1>3, <1>4, ChangedInvoice, SavedType
<1>6. invoice' \in Invoice
  BY <1>3, <1>5 DEF StorePayment
<1>7. [amount |-> c.take, ref |-> c.ref] \in Payment
  BY <1>2 DEF Payment
<1>8. payments' \in Seq(Payment)
  <2> DEFINE p == [amount |-> c.take, ref |-> c.ref]
  <2>1. payments \in Seq(Payment) /\ p \in Payment
    BY <1>7 DEF IInv, TypeOK
  <2>2. payments' = Append(payments, p) \/ payments' = payments
    BY DEF StorePayment
  <2> HIDE DEF p
  <2> QED
    BY <2>1, <2>2
<1>9. cashbook' \in Nat /\ order' \in OrderStatus
  BY <1>2 DEF StorePayment, OrderStatus, IInv, TypeOK
<1>10. call' \in [Workers -> Call] /\ CallsHaveInvoice' /\ CallsHaveTransfer'
  BY <1>6, InvoicesAreInvoices, EndsKeepsCalls DEF StorePayment
<1> QED
  BY <1>6, <1>8, <1>9, <1>10 DEF StorePayment, IInv, TypeOK

LEMMA StatusWritersKeepInv ==
  ASSUME IInv, NEW w \in Workers, MarkPaid(w) \/ Cancel(w)
  PROVE  IInv'
<1>1. CASE /\ Selected(w, "mark") \/ Selected(w, "cancel")
           /\ \E s \in InvoiceStatus :
                invoice' = Saved([call[w].invoice EXCEPT !.status = s], call[w].db, invoice)
  <2>1. PICK s \in InvoiceStatus :
          invoice' = Saved([call[w].invoice EXCEPT !.status = s], call[w].db, invoice)
    BY <1>1
  <2>2. call[w].invoice \in Invoice /\ call[w].db \in Invoice /\ invoice \in Invoice
    BY <1>1, SelectedInvoice DEF Saving
  <2>3. [call[w].invoice EXCEPT !.status = s] \in Invoice
    BY <2>2, ChangedInvoice
  <2>4. invoice' \in Invoice
    BY <2>1, <2>2, <2>3, SavedType
  <2>5. call' \in [Workers -> Call] /\ CallsHaveInvoice' /\ CallsHaveTransfer'
    BY <2>4, InvoicesAreInvoices, EndsKeepsCalls DEF MarkPaid, Cancel
  <2> QED
    BY <2>4, <2>5 DEF MarkPaid, Cancel, OrderStatus, IInv, TypeOK
<1>2. CASE Cancel(w) /\ UNCHANGED invoice
  <2>1. call' \in [Workers -> Call] /\ CallsHaveInvoice' /\ CallsHaveTransfer'
    BY <1>2, EndsKeepsCalls DEF Cancel
  <2> QED
    BY <1>2, <2>1 DEF Cancel, OrderStatus, IInv, TypeOK
<1>3. "PAID" \in InvoiceStatus /\ "UNPAID" \in InvoiceStatus
  BY DEF InvoiceStatus
<1> QED
  BY <1>1, <1>2, <1>3 DEF MarkPaid, Cancel

LEMMA UpdateStatusKeepsInv ==
  ASSUME IInv, NEW w \in Workers, UpdateStatus(w)
  PROVE  IInv'
<1>1. call' \in [Workers -> Call] /\ CallsHaveInvoice' /\ CallsHaveTransfer'
  BY EndsKeepsCalls DEF UpdateStatus
<1>2. order' \in OrderStatus
  BY CallFields DEF UpdateStatus, IInv, TypeOK
<1> QED
  BY <1>1, <1>2 DEF UpdateStatus, IInv, TypeOK

LEMMA PromoteKeepsInv ==
  ASSUME IInv, NEW w \in Workers, Promote(w)
  PROVE  IInv'
<1>1. call[w] \in Call /\ call[w].op = "totals" /\ "totals" \in Saving
  BY DEF Promote, Selected, IInv, TypeOK, Saving
<1>2. /\ call[w].invoice \in Invoice
      /\ call[w].promo \in Promotions /\ call[w].off \in Nat
  BY <1>1, CallFields
<1>3. call[w].db \in Invoice /\ invoice \in Invoice
  BY <1>1, SelectedInvoice DEF Promote
<1>4. invoice' \in Invoice
  BY <1>2, <1>3, SavedType DEF Promote
<1>5. applied' \in [Promotions -> Nat]
  BY <1>2 DEF Promote, IInv, TypeOK
<1>6. call' \in [Workers -> Call] /\ CallsHaveInvoice' /\ CallsHaveTransfer'
  BY <1>4, InvoicesAreInvoices, EndsKeepsCalls DEF Promote
<1> QED
  BY <1>4, <1>5, <1>6 DEF Promote, IInv, TypeOK

\* Every column and every call in flight is of its type in every reachable
\* state: nothing is negative and no payment of zero is stored.
THEOREM InvariantHolds == Spec => []IInv
<1>1. Init => IInv
  <2> SUFFICES ASSUME Init PROVE IInv
    OBVIOUS
  <2>1. Idle \in Call /\ Idle.op = "idle" /\ "idle" \notin Saving
    BY DEF Idle, Call, Saving
  <2>2. \A w \in Workers : call[w] = Idle
    BY DEF Init
  <2>3. call \in [Workers -> Call] /\ bill \in [worth : Nat, hidden : Nat]
    BY <2>1, BillsAssumption DEF Init
  <2>4. CallsHaveInvoice /\ CallsHaveTransfer
    BY <2>1, <2>2 DEF CallsHaveInvoice, CallsHaveTransfer
  <2> QED
    BY <2>3, <2>4 DEF Init, IInv, TypeOK, NothingApplied, OrderStatus
<1>2. IInv /\ [Next]_vars => IInv'
  <2> SUFFICES ASSUME IInv, [Next]_vars PROVE IInv'
    OBVIOUS
  <2>1. ASSUME NEW w \in Workers, Commit(w) PROVE IInv'
    BY <2>1, InvoiceCreatedKeepsInv, InvoiceUpdatedKeepsInv, StorePaymentKeepsInv,
       StagesKeepInv, StatusWritersKeepInv, UpdateStatusKeepsInv, PromoteKeepsInv,
       SelectKeepsInv DEF Commit
  <2>2. ASSUME NEW b \in Bills, ChangeLines(b) PROVE IInv'
    BY <2>2, BillsAssumption
    DEF ChangeLines, IInv, TypeOK, CallsHaveInvoice, CallsHaveTransfer
  <2>3. ASSUME NEW amount \in Amounts, CreateLink(amount) PROVE IInv'
    BY <2>3, AmountsAssumption
    DEF CreateLink, IInv, TypeOK, CallsHaveInvoice, CallsHaveTransfer
  <2>4. ASSUME NEW t \in Transfers, MakeTransfer(t) PROVE IInv'
    <3>1. /\ transfer' \in [Transfers -> Nat]
          /\ \A u \in Transfers : transfer[u] # 0 => transfer'[u] = transfer[u]
      BY <2>4 DEF MakeTransfer, IInv, TypeOK
    <3>2. \A w \in Workers : call[w] \in Call /\ call'[w] = call[w]
      BY <2>4 DEF MakeTransfer, IInv, TypeOK
    <3>3. CallsHaveTransfer'
      <4> SUFFICES ASSUME NEW w \in Workers
                   PROVE  /\ call[w].op = "webhook" => transfer'[call[w].ref] # 0
                          /\ call[w].op = "pay" /\ call[w].ref # NoRef =>
                               call[w].take <= transfer'[call[w].ref]
        BY <3>2 DEF CallsHaveTransfer
      <4>1. CASE call[w].op = "webhook"
        BY <3>1, <3>2, <4>1, CallFields DEF IInv, CallsHaveTransfer
      <4>2. CASE call[w].op = "pay" /\ call[w].ref # NoRef
        <5>1. call[w].ref \in Transfers /\ call[w].take \in Nat \ {0}
          BY <3>2, <4>2, CallFields
        <5>2. transfer[call[w].ref] # 0
          BY <4>2, <5>1 DEF IInv, CallsHaveTransfer, TypeOK
        <5> QED
          BY <3>1, <4>2, <5>1, <5>2 DEF IInv, CallsHaveTransfer
      <4> QED
        BY <4>1, <4>2
    <3> QED
      BY <2>4, <3>1, <3>3 DEF MakeTransfer, IInv, TypeOK, CallsHaveInvoice
  <2>5. CASE UNCHANGED vars
    BY <2>5 DEF vars, IInv, TypeOK, CallsHaveInvoice, CallsHaveTransfer
  <2> QED
    BY <2>1, <2>2, <2>3, <2>4, <2>5, RequestKeepsInv DEF Next
<1> QED
  BY <1>1, <1>2, PTL DEF Spec

\* The types alone, as the runs check them.
THEOREM SettlementTypes == Spec => []TypeOK
<1>1. IInv => TypeOK
  BY DEF IInv
<1> QED
  BY <1>1, InvariantHolds, PTL

----------------------------------------------------------------------------
(* A transfer is counted once                                              *)

\* A payment that carries a transfer's reference is the only one: the unique
\* index stops the second, however many webhooks got that far.
LEMMA StorePaymentCountsOnce ==
  ASSUME IInv, TransferCountedOnce, NEW w \in Workers, StorePayment(w)
  PROVE  TransferCountedOnce'
<1> DEFINE c == call[w]
           new == [amount |-> c.take, ref |-> c.ref]
<1>1. UNCHANGED transfer
  BY DEF StorePayment
<1>2. CASE ~MayStore(c)
  BY <1>1, <1>2 DEF StorePayment, TransferCountedOnce
<1>3. CASE MayStore(c)
  <2>1. payments \in Seq(Payment) /\ payments' = Append(payments, new)
    BY <1>3 DEF StorePayment, IInv, TypeOK
  <2> DEFINE n == Len(payments)
  <2>2. /\ n \in Nat /\ DOMAIN payments = 1..n /\ DOMAIN payments' = 1..(n + 1)
        /\ payments'[n + 1] = new
        /\ \A i \in 1..n : payments'[i] = payments[i]
    <3>1. new \in Payment
      <4>1. c \in Call /\ c.op = "pay"
        BY DEF StorePayment, Selected, IInv, TypeOK
      <4> QED
        BY <4>1, CallFields DEF Payment
    <3> HIDE DEF new
    <3> QED
      BY <2>1, <3>1
  <2>3. new.ref = c.ref /\ new.amount = c.take
    OBVIOUS
  <2>4. c.ref # NoRef => \A i \in 1..n : payments[i].ref # c.ref
    BY <1>3, <2>2 DEF MayStore, Refs
  <2>5. c.ref # NoRef => c.take <= transfer[c.ref]
    BY DEF IInv, CallsHaveTransfer, StorePayment, Selected
  <2> HIDE DEF new, n, c
  <2> SUFFICES ASSUME NEW i \in 1..(n + 1), payments'[i].ref # NoRef
               PROVE  /\ payments'[i].amount <= transfer[payments'[i].ref]
                      /\ \A j \in 1..(n + 1) : payments'[j].ref = payments'[i].ref => j = i
    BY <1>1, <2>2 DEF TransferCountedOnce
  <2>6. CASE i = n + 1
    <3>1. \A j \in 1..(n + 1) : j # i => j \in 1..n
      BY <2>2, <2>6
    <3> QED
      BY <2>2, <2>3, <2>4, <2>5, <2>6, <3>1
  <2>7. CASE i \in 1..n
    <3>1. /\ payments[i].amount <= transfer[payments[i].ref]
          /\ \A j \in 1..n : payments[j].ref = payments[i].ref => j = i
      BY <2>2, <2>7 DEF TransferCountedOnce
    <3>2. \A j \in 1..(n + 1) : j \in 1..n \/ j = n + 1
      BY <2>2
    <3> QED
      BY <2>2, <2>3, <2>4, <2>7, <3>1, <3>2
  <2> QED
    BY <2>2, <2>6, <2>7
<1> QED
  BY <1>2, <1>3

\* Reported again and again, to any number of workers at once, a transfer is
\* stored as one payment of no more than what was transferred.
THEOREM TransfersCountOnce == Spec => []TransferCountedOnce
<1>1. Init => TransferCountedOnce
  BY DEF Init, TransferCountedOnce
<1>2. IInv /\ TransferCountedOnce /\ [Next]_vars => TransferCountedOnce'
  <2> SUFFICES ASSUME IInv, TransferCountedOnce, [Next]_vars PROVE TransferCountedOnce'
    OBVIOUS
  <2>1. CASE UNCHANGED <<payments, transfer>>
    BY <2>1 DEF TransferCountedOnce
  <2>2. ASSUME NEW w \in Workers, Request(w) PROVE UNCHANGED <<payments, transfer>>
    BY <2>2 DEF Request, OpenInvoice, AskMarkPaid, AskCancel, AskPayment, Webhook,
                AskPromotion, AskRemoval, AskStatus
  <2>3. ASSUME NEW w \in Workers, Commit(w), ~StorePayment(w)
        PROVE  UNCHANGED <<payments, transfer>>
    BY <2>3 DEF Commit, InvoiceCreated, InvoiceUpdated, WebhookPays, MarkPaid, ComputeTotals,
                Promote, Cancel, Select, UpdateStatus
  <2>4. ASSUME NEW t \in Transfers, MakeTransfer(t) PROVE TransferCountedOnce'
    <3>1. /\ payments' = payments
          /\ \A u \in Transfers : transfer[u] # 0 => transfer'[u] = transfer[u]
      BY <2>4 DEF MakeTransfer, IInv, TypeOK
    <3>2. \A i \in DOMAIN payments : payments[i] \in Payment
      BY DEF IInv, TypeOK
    <3>3. \A i \in DOMAIN payments : payments[i].ref # NoRef =>
            /\ payments[i].ref \in Transfers
            /\ transfer[payments[i].ref] # 0
      BY <3>2 DEF TransferCountedOnce, Payment, IInv, TypeOK
    <3> QED
      BY <3>1, <3>3 DEF TransferCountedOnce
  <2>5. CASE \/ \E b \in Bills : ChangeLines(b)
             \/ \E amount \in Amounts : CreateLink(amount)
             \/ UNCHANGED vars
    BY <2>1, <2>5 DEF ChangeLines, CreateLink, vars
  <2> QED
    BY <2>1, <2>2, <2>3, <2>4, <2>5, StorePaymentCountsOnce DEF Next
<1> QED
  BY <1>1, <1>2, InvariantHolds, PTL DEF Spec

----------------------------------------------------------------------------
(* The books                                                               *)

\* A payment is stored and posted in one transaction.
LEMMA StorePaymentPays ==
  ASSUME IInv, NEW w \in Workers, StorePayment(w)
  PROVE  /\ call[w] \in Call /\ call[w].op = "pay" /\ call[w].take \in Nat \ {0}
         /\ MayStore(call[w]) => Paid' = Paid + call[w].take
         /\ ~MayStore(call[w]) => UNCHANGED <<order, invoice, payments, cashbook>>
<1> DEFINE c == call[w]
           p == [amount |-> c.take, ref |-> c.ref]
<1>1. c \in Call /\ c.op = "pay"
  BY DEF StorePayment, Selected, IInv, TypeOK
<1>2. c.take \in Nat \ {0} /\ p \in Payment
  BY <1>1, CallFields DEF Payment
<1>3. MayStore(c) => payments' = Append(payments, p)
  BY DEF StorePayment
<1>4. p.amount = c.take
  OBVIOUS
<1>5. MayStore(c) => Paid' = Paid + p.amount
  <2> HIDE DEF p
  <2> QED
    BY <1>2, <1>3, PaidAppend DEF IInv, TypeOK
<1> QED
  BY <1>1, <1>2, <1>4, <1>5 DEF StorePayment

\* Nothing but StorePayment touches the payments or the cashbook.
LEMMA OthersPayNothing ==
  ASSUME [Next]_vars, \A w \in Workers : ~StorePayment(w)
  PROVE  UNCHANGED <<payments, cashbook>>
BY DEF Next, vars, Request, Commit, OpenInvoice, AskMarkPaid, AskCancel, AskPayment, Webhook,
       AskPromotion, AskRemoval, InvoiceCreated, InvoiceUpdated, WebhookPays, MarkPaid,
       ComputeTotals, Promote, Cancel, Select, AskStatus, UpdateStatus, ChangeLines, CreateLink, MakeTransfer

LEMMA NothingPaid == payments = <<>> => Paid = 0
<1> DEFINE f == [i \in DOMAIN payments |-> payments[i].amount]
<1>1. ASSUME payments = <<>> PROVE DOMAIN f = {}
  BY <1>1
<1>2. Paid = SumFunctionOnSet(f, DOMAIN f)
  BY DEF Paid, SumFunction
<1> HIDE DEF f
<1>3. ASSUME DOMAIN f = {} PROVE SumFunctionOnSet(f, DOMAIN f) = 0
  BY <1>3, SumEmpty
<1> QED
  BY <1>1, <1>2, <1>3

\* The cashbook's receipts are the invoice's payments, however the requests of
\* any number of workers interleave.
THEOREM BooksAlwaysBalance == Spec => []BooksBalance
<1>1. Init => BooksBalance
  BY NothingPaid DEF Init, BooksBalance
<1>2. IInv /\ BooksBalance /\ [Next]_vars => BooksBalance'
  <2> SUFFICES ASSUME IInv, BooksBalance, [Next]_vars PROVE BooksBalance'
    OBVIOUS
  <2>1. CASE \E w \in Workers : StorePayment(w)
    <3>1. PICK w \in Workers : StorePayment(w)
      BY <2>1
    <3>2. CASE MayStore(call[w])
      BY <3>1, <3>2, StorePaymentPays DEF StorePayment, BooksBalance
    <3>3. CASE ~MayStore(call[w])
      BY <3>1, <3>3, StorePaymentPays DEF BooksBalance, Paid
    <3> QED
      BY <3>2, <3>3
  <2>2. CASE \A w \in Workers : ~StorePayment(w)
    BY <2>2, OthersPayNothing DEF BooksBalance, Paid
  <2> QED
    BY <2>1, <2>2
<1> QED
  BY <1>1, <1>2, InvariantHolds, PTL DEF Spec

----------------------------------------------------------------------------
(* What turns PAID is covered, or was declared                             *)

\* What a save leaves in a column: the object's value where it differs from the
\* second read, else what the table holds by now.
LEMMA SavedFields ==
  ASSUME NEW object, NEW db, NEW now \in Invoice, NEW s \in {Saved(object, db, now)}
  PROVE  /\ s.final = IF object.final # db.final THEN object.final ELSE now.final
         /\ s.status = IF object.status # db.status THEN object.status ELSE now.status
         /\ s.total = IF object.total # db.total THEN object.total ELSE now.total
         /\ s.discount = IF object.discount # db.discount THEN object.discount ELSE now.discount
BY DEF Saved, Invoice

\* No endpoint that changes an invoice's promotions.
NoPromotion == "promote" \notin Endpoints

\* Whatever a call has read of the invoice, its final amount still is the
\* invoice's, and no less has been paid than the call counted.
CallCovered(c) ==
  /\ c.op \notin {"promote", "totals"}
  /\ c.op \in Saving /\ c.invoice # NoInvoice =>
       invoice # NoInvoice /\ c.invoice.final = invoice.final
  /\ c.op \in Saving /\ c.db # NoInvoice => c.db.final = invoice.final
  /\ c.op = "pay" => c.paid <= Paid

Covered == \A w \in Workers : CallCovered(call[w])

\* What PaidMeansCovered says of one step.
ClosesCovered == Closes => ClosedByHand \/ Paid' >= invoice'.final

LEMMA AsksForFinal == ASSUME NEW inv \in Invoice PROVE inv.final <= ToPay(inv)
BY DEF ToPay, NotNegative, Invoice

\* A step that only moves a worker to another stage of its call.
LEMMA MovesKeepCovered ==
  ASSUME IInv, Covered, NEW w \in Workers, NEW c, CallCovered(c),
         call' = [call EXCEPT ![w] = c],
         UNCHANGED <<order, invoice, payments>>
  PROVE  Covered' /\ ClosesCovered
<1>1. call'[w] = c /\ \A v \in Workers \ {w} : call'[v] = call[v]
  BY DEF IInv, TypeOK
<1>2. Paid' = Paid
  BY DEF Paid
<1>3. ASSUME NEW v \in Workers PROVE CallCovered(call[v])'
  <2>1. CallCovered(call'[v])
    BY <1>1 DEF Covered
  <2> QED
    BY <1>2, <2>1 DEF CallCovered
<1> QED
  BY <1>2, <1>3 DEF Covered, ClosesCovered, Closes

\* A step that commits: the final amount stays, no payment is lost.
LEMMA CommitKeepsCovered ==
  ASSUME IInv, IInv', Covered, NEW w \in Workers, Ends(w),
         invoice # NoInvoice => invoice' # NoInvoice /\ invoice'.final = invoice.final,
         Paid' \in Nat, Paid <= Paid'
  PROVE  Covered'
<1>1. call'[w] = Idle /\ \A v \in Workers \ {w} : call'[v] = call[v]
  BY DEF Ends, IInv, TypeOK
<1>2. Idle.op = "idle" /\ "idle" \notin Saving
  BY DEF Idle, Saving
<1>3. CallCovered(call[w])'
  BY <1>1, <1>2 DEF CallCovered
<1>4. ASSUME NEW v \in Workers \ {w} PROVE CallCovered(call[v])'
  <2>1. call[v] \in Call /\ CallCovered(call[v]) /\ call'[v] = call[v]
    BY <1>1 DEF Covered, IInv, TypeOK
  <2>2. call[v].op \in Saving /\ call[v].db # NoInvoice => invoice # NoInvoice
    BY DEF IInv, CallsHaveInvoice
  <2>3. call[v].op = "pay" => call[v].paid <= Paid'
    BY <2>1, PaidType, CallFields DEF CallCovered, IInv, TypeOK
  <2> QED
    BY <2>1, <2>2, <2>3 DEF CallCovered
<1> QED
  BY <1>3, <1>4 DEF Covered

LEMMA SaveKeepsFinal ==
  ASSUME NEW object \in Invoice, NEW db \in Invoice, NEW now \in Invoice,
         object.final = now.final, db.final = now.final
  PROVE  Saved(object, db, now) \in Invoice /\ Saved(object, db, now).final = now.final
BY SavedType, SavedFields

\* A payment completes the order only with what its own reading asked for.
LEMMA StorePaymentKeepsCovered ==
  ASSUME IInv, IInv', Covered, NEW w \in Workers, StorePayment(w)
  PROVE  Covered' /\ ClosesCovered
<1> DEFINE c == call[w]
           s == [c.invoice EXCEPT !.status = IF Full(c) THEN "PAID" ELSE "PARTIAL"]
<1>1. /\ c \in Call /\ c.op = "pay" /\ c.op \in Saving /\ c.take \in Nat \ {0}
      /\ Paid \in Nat /\ c.paid \in Nat
  BY StorePaymentPays, CallFields, PaidType DEF Saving, IInv, TypeOK
<1>2. c.invoice \in Invoice /\ c.db \in Invoice /\ invoice \in Invoice /\ c.db # NoInvoice
  BY <1>1, SelectedInvoice DEF StorePayment, Selected
<1>3. CallCovered(c)
  BY DEF Covered
<1>4. c.invoice.final = invoice.final /\ c.db.final = invoice.final /\ c.paid <= Paid
  BY <1>1, <1>2, <1>3, InvoicesAreInvoices DEF CallCovered
<1>5. Ends(w)
  BY DEF StorePayment
<1>6. CASE ~MayStore(c)
  <2>1. UNCHANGED <<order, invoice, payments>> /\ Paid' = Paid
    BY <1>6, StorePaymentPays DEF Paid
  <2>2. ClosesCovered
    BY <2>1 DEF ClosesCovered, Closes
  <2> QED
    BY <1>1, <1>5, <2>1, <2>2, CommitKeepsCovered
<1>7. CASE MayStore(c)
  <2>1. Paid' = Paid + c.take
    BY <1>7, StorePaymentPays
  <2>2. invoice' = Saved(s, c.db, invoice) /\ s.final = c.invoice.final
    BY <1>2, <1>7 DEF StorePayment, Invoice
  <2>3. invoice' \in Invoice /\ invoice'.final = invoice.final
    <3>1. s \in Invoice
      BY <1>2, ChangedInvoice DEF InvoiceStatus
    <3> HIDE DEF s, c
    <3> QED
      BY <1>2, <1>4, <2>2, <3>1, SaveKeepsFinal
  <2>4. invoice.final \in Nat
    BY <1>2 DEF Invoice
  <2>5. ASSUME Full(c) PROVE invoice.final <= Paid'
    BY <1>1, <1>2, <1>4, <2>1, <2>4, <2>5, AsksForFinal, ToPayType DEF Full
  <2>6. ASSUME ~Full(c) PROVE ~Closes
    <3>1. s.status = "PARTIAL" /\ order' = order
      BY <1>2, <1>7, <2>6 DEF StorePayment, Invoice
    <3> HIDE DEF s, c
    <3>2. invoice'.status \in {"PARTIAL", invoice.status}
      BY <1>2, <2>2, <3>1, SavedFields
    <3> QED
      BY <3>1, <3>2 DEF Closes
  <2>7. ClosesCovered
    <3>1. CASE Full(c)
      BY <1>1, <2>1, <2>3, <2>4, <2>5, <3>1 DEF ClosesCovered
    <3>2. CASE ~Full(c)
      BY <2>6, <3>2 DEF ClosesCovered
    <3> QED
      BY <3>1, <3>2
  <2> QED
    BY <1>1, <1>5, <2>1, <2>3, <2>7, InvoicesAreInvoices, CommitKeepsCovered
<1> QED
  BY <1>6, <1>7

\* The other saves keep the final amount: an invoice that is opened again has
\* its total changed, one that is cancelled or marked as paid its status.
LEMMA SaveIsOfStatusOrTotal ==
  ASSUME IInv, NEW w \in Workers,
         InvoiceUpdated(w) \/ Cancel(w) \/ MarkPaid(w), ~UNCHANGED invoice
  PROVE  \E op \in {"open", "cancel", "mark"} :
           /\ Selected(w, op)
           /\ \E object \in Invoice :
                /\ object.final = call[w].invoice.final
                /\ op = "open" => object.status = call[w].invoice.status
                                  /\ object.status = "UNPAID"
                /\ op = "cancel" => object.status = "UNPAID"
                /\ invoice' = Saved(object, call[w].db, invoice)
<1>1. CASE InvoiceUpdated(w)
  <2> DEFINE object == [call[w].invoice EXCEPT !.total = call[w].bill.worth]
  <2>1. Selected(w, "open") /\ call[w] \in Call /\ call[w].op = "open"
    BY <1>1 DEF InvoiceUpdated, Selected, IInv, TypeOK
  <2>2. call[w].invoice \in Invoice /\ call[w].bill.worth \in Nat /\ "UNPAID" \in InvoiceStatus
    BY <2>1, SelectedInvoice, CallFields DEF Saving, InvoiceStatus
  <2>3. /\ object \in Invoice /\ object.final = call[w].invoice.final
        /\ object.status = call[w].invoice.status
    BY <2>2, ChangedInvoice DEF Invoice
  <2>4. FollowsLines(call[w].invoice) /\ invoice' = Saved(object, call[w].db, invoice)
    BY <1>1 DEF InvoiceUpdated
  <2> QED
    BY <2>1, <2>3, <2>4 DEF FollowsLines
<1>2. ASSUME NEW op \in {"cancel", "mark"}, NEW s \in InvoiceStatus, Selected(w, op),
             op = "cancel" => s = "UNPAID",
             invoice' = Saved([call[w].invoice EXCEPT !.status = s], call[w].db, invoice)
      PROVE  \E object \in Invoice :
               /\ object.final = call[w].invoice.final
               /\ op = "cancel" => object.status = "UNPAID"
               /\ invoice' = Saved(object, call[w].db, invoice)
  <2> DEFINE object == [call[w].invoice EXCEPT !.status = s]
  <2>1. call[w].invoice \in Invoice
    BY <1>2, SelectedInvoice DEF Saving
  <2>2. object \in Invoice /\ object.final = call[w].invoice.final /\ object.status = s
    BY <2>1, ChangedInvoice DEF Invoice
  <2> QED
    BY <1>2, <2>2
<1>3. "PAID" \in InvoiceStatus /\ "UNPAID" \in InvoiceStatus
  BY DEF InvoiceStatus
<1>4. CASE Cancel(w)
  <2>1. /\ Selected(w, "cancel")
        /\ invoice' = Saved([call[w].invoice EXCEPT !.status = "UNPAID"], call[w].db, invoice)
    BY <1>4 DEF Cancel
  <2> QED
    BY <1>2, <1>3, <2>1
<1>5. CASE MarkPaid(w)
  <2>1. /\ Selected(w, "mark")
        /\ invoice' = Saved([call[w].invoice EXCEPT !.status = "PAID"], call[w].db, invoice)
    BY <1>5 DEF MarkPaid
  <2> QED
    BY <1>2, <1>3, <2>1
<1> QED
  BY <1>1, <1>4, <1>5

LEMMA SavesKeepCovered ==
  ASSUME IInv, IInv', Covered, NEW w \in Workers,
         \/ InvoiceUpdated(w) \/ InvoiceCreated(w) \/ Cancel(w) \/ MarkPaid(w)
         \/ UpdateStatus(w)
  PROVE  Covered' /\ ClosesCovered
<1>1. Ends(w) /\ Paid' = Paid /\ Paid \in Nat
  BY PaidType DEF InvoiceUpdated, InvoiceCreated, Cancel, MarkPaid, UpdateStatus, Paid,
                  IInv, TypeOK
<1>2. ASSUME invoice # NoInvoice, ~UNCHANGED invoice
      PROVE  /\ invoice' # NoInvoice /\ invoice'.final = invoice.final
             /\ MarkPaid(w) \/ invoice'.status \in {"UNPAID", invoice.status}
  <2>1. InvoiceUpdated(w) \/ Cancel(w) \/ MarkPaid(w)
    BY <1>2 DEF InvoiceCreated, UpdateStatus
  <2>2. PICK op \in {"open", "cancel", "mark"} :
          /\ Selected(w, op)
          /\ \E object \in Invoice :
               /\ object.final = call[w].invoice.final
               /\ op = "open" => object.status = "UNPAID"
               /\ op = "cancel" => object.status = "UNPAID"
               /\ invoice' = Saved(object, call[w].db, invoice)
    BY <1>2, <2>1, SaveIsOfStatusOrTotal
  <2>3. PICK object \in Invoice :
          /\ object.final = call[w].invoice.final
          /\ op \in {"open", "cancel"} => object.status = "UNPAID"
          /\ invoice' = Saved(object, call[w].db, invoice)
    BY <2>2
  <2>4. /\ call[w].op = op /\ op \in Saving
        /\ call[w].invoice \in Invoice /\ call[w].db \in Invoice /\ invoice \in Invoice
    BY <2>2, SelectedInvoice DEF Selected, Saving
  <2>5. call[w].invoice.final = invoice.final /\ call[w].db.final = invoice.final
    BY <2>4, InvoicesAreInvoices DEF Covered, CallCovered
  <2>6. invoice' \in Invoice /\ invoice'.final = invoice.final
    BY <2>3, <2>4, <2>5, SaveKeepsFinal
  <2>7. op \in {"open", "cancel"} => invoice'.status \in {"UNPAID", invoice.status}
    BY <2>3, <2>4, SavedFields
  <2>8. op = "mark" => MarkPaid(w)
    BY <2>1, <2>4 DEF InvoiceUpdated, Cancel, Selected
  <2> QED
    BY <2>2, <2>6, <2>7, <2>8, InvoicesAreInvoices
<1>3. ClosedByHand \/ ~Closes
  <2>1. CASE MarkPaid(w) \/ UpdateStatus(w)
    BY <2>1 DEF ClosedByHand, MarkPaid, UpdateStatus, Selected
  <2>2. CASE ~MarkPaid(w) /\ ~UpdateStatus(w)
    <3>1. order' \in {order, "CANCELLED"}
      BY <2>2 DEF InvoiceUpdated, InvoiceCreated, Cancel
    <3> QED
      BY <1>2, <2>2, <3>1 DEF Closes
  <2> QED
    BY <2>1, <2>2
<1> QED
  BY <1>1, <1>2, <1>3, CommitKeepsCovered DEF ClosesCovered

\* What a call reads it reads from the table as it is.
LEMMA ReadsKeepCovered ==
  ASSUME IInv, IInv', Covered, NoPromotion, NEW w \in Workers,
         Request(w) \/ Select(w) \/ WebhookPays(w)
  PROVE  Covered' /\ ClosesCovered
<1>1. UNCHANGED <<order, invoice, payments>>
  BY DEF Request, OpenInvoice, AskMarkPaid, AskCancel, AskPayment, Webhook, AskPromotion,
         AskRemoval, AskStatus, Select, WebhookPays
<1>2. Paid \in Nat /\ call[w] \in Call /\ CallCovered(call[w])
  BY PaidType DEF IInv, TypeOK, Covered
<1>3. CallCovered(Idle)
  BY DEF CallCovered, Idle, Saving
<1>4. ASSUME NEW amount, NEW ref, Remains PROVE CallCovered(PaymentAsked(amount, ref))
  BY <1>2, <1>4 DEF CallCovered, PaymentAsked, Saving, Remains
<1>5. CASE Select(w)
  <2>1. CallCovered([call[w] EXCEPT !.db = invoice])
    BY <1>2, <1>5, SelectedCall DEF Select, CallCovered, Saving, Call
  <2> QED
    BY <1>1, <1>3, <1>5, <2>1, MovesKeepCovered DEF Select
<1>6. CASE WebhookPays(w)
  BY <1>1, <1>3, <1>4, <1>6, MovesKeepCovered DEF WebhookPays
<1>7. CASE \E amount \in Amounts : AskPayment(w, amount)
  BY <1>1, <1>4, <1>7, MovesKeepCovered DEF AskPayment, Starts
<1>8. CASE \E t \in Transfers : Webhook(w, t)
  <2>1. ASSUME NEW t PROVE CallCovered([op |-> "webhook", ref |-> t])
    BY DEF CallCovered, Saving
  <2> QED
    BY <1>1, <1>8, <2>1, MovesKeepCovered DEF Webhook, Starts
<1>9. CASE OpenInvoice(w)
  <2> DEFINE c == [op |-> "open", bill |-> bill, invoice |-> invoice, applied |-> applied,
                   rows |-> <<Len(payments), link>>, db |-> NoInvoice]
  <2>1. CallCovered(c)
    BY DEF CallCovered, Saving
  <2>2. call' = [call EXCEPT ![w] = c]
    BY <1>9 DEF OpenInvoice, Starts
  <2> HIDE DEF c
  <2> QED
    BY <1>1, <2>1, <2>2, MovesKeepCovered
<1>10. CASE AskCancel(w) \/ AskMarkPaid(w)
  <2>1. ASSUME NEW op \in {"cancel", "mark"}
        PROVE  CallCovered([op |-> op, invoice |-> invoice, db |-> NoInvoice])
    BY DEF CallCovered, Saving
  <2> QED
    BY <1>1, <1>10, <2>1, MovesKeepCovered DEF AskCancel, AskMarkPaid, Starts
<1>11. CASE \E to \in OrderStatus : AskStatus(w, to)
  <2>1. ASSUME NEW to PROVE CallCovered([op |-> "status", to |-> to])
    BY DEF CallCovered, Saving
  <2> QED
    BY <1>1, <1>11, <2>1, MovesKeepCovered DEF AskStatus, Starts
<1> QED
  BY <1>5, <1>6, <1>7, <1>8, <1>9, <1>10, <1>11
  DEF Request, NoPromotion, AskPromotion, AskRemoval, MayPromote

\* Where no endpoint changes an invoice's promotions, what turns PAID is covered
\* by its payments or was declared by markPaid or updateStatus, however the
\* payments, webhooks, cancellations and declarations of any number of workers
\* interleave.
THEOREM PaidOrdersAreCovered ==
  ASSUME NoPromotion
  PROVE  Spec => PaidMeansCovered
<1>1. Init => Covered
  BY DEF Init, Covered, CallCovered, Idle, Saving
<1>2. IInv /\ IInv' /\ Covered /\ [Next]_vars => Covered' /\ ClosesCovered
  <2> SUFFICES ASSUME IInv, IInv', Covered, [Next]_vars PROVE Covered' /\ ClosesCovered
    OBVIOUS
  <2>1. ASSUME NEW w \in Workers, ComputeTotals(w) \/ Promote(w) PROVE FALSE
    BY <2>1 DEF ComputeTotals, Promote, Selected, Covered, CallCovered
  <2>2. ASSUME NEW w \in Workers, Request(w) \/ Commit(w) PROVE Covered' /\ ClosesCovered
    BY <2>1, <2>2, StorePaymentKeepsCovered, SavesKeepCovered, ReadsKeepCovered DEF Commit
  <2>3. CASE UNCHANGED <<order, invoice, payments, call>>
    BY <2>3 DEF Covered, CallCovered, Paid, ClosesCovered, Closes
  <2>4. CASE \/ \E b \in Bills : ChangeLines(b)
             \/ \E amount \in Amounts : CreateLink(amount)
             \/ \E t \in Transfers : MakeTransfer(t)
             \/ UNCHANGED vars
    BY <2>3, <2>4 DEF ChangeLines, CreateLink, MakeTransfer, vars
  <2> QED
    BY <2>2, <2>4 DEF Next
<1>3. ClosesCovered => (Closes => ClosedByHand \/ Paid' >= invoice'.final)
  BY DEF ClosesCovered
<1> QED
  BY <1>1, <1>2, <1>3, InvariantHolds, PTL DEF Spec, PaidMeansCovered

----------------------------------------------------------------------------
(* One request at a time: the register                                     *)

OneWorker == \A v, w \in Workers : v = w

NoCancel == "cancel" \notin Endpoints

\* What a call has read of the invoice and its payments still is what they are.
CallCurrent(c) ==
  /\ c.op # "cancel"
  /\ c.op \in {"open", "pay", "mark"} => c.invoice = invoice
  /\ c.op \in Saving /\ c.db # NoInvoice => c.db = invoice
  /\ c.op = "pay" => c.paid = Paid /\ c.take <= ToPay(invoice) - Paid
  /\ c.op \in {"promote", "totals"} => invoice # NoInvoice /\ invoice.status = "UNPAID"
  /\ c.op = "totals" => c.invoice.status = "UNPAID"

\* An invoice that has payments no longer follows lines or promotions.
PaymentsFixPrice == payments # <<>> => invoice # NoInvoice /\ invoice.status # "UNPAID"

Current == (\A w \in Workers : CallCurrent(call[w])) /\ PaymentsFixPrice

\* A register's step, or none.
RegisterStep ==
  [AsRegister!Next]_<<IF invoice = NoInvoice THEN 0 ELSE ToPay(invoice), Paid>>

LEMMA IdleIsCurrent == CallCurrent(Idle)
BY DEF CallCurrent, Idle, Saving

\* What a call reads it reads from the table as it is.
LEMMA ReadsKeepCurrent ==
  ASSUME IInv, Current, OneWorker, NoCancel, NEW w \in Workers,
         Request(w) \/ Select(w) \/ WebhookPays(w) \/ ComputeTotals(w)
  PROVE  Current' /\ RegisterStep
<1>1. UNCHANGED <<invoice, payments>> /\ Paid' = Paid
  BY DEF Request, OpenInvoice, AskMarkPaid, AskCancel, AskPayment, Webhook, AskPromotion,
         AskRemoval, AskStatus, Select, WebhookPays, ComputeTotals, Paid
<1>2. Paid \in Nat /\ call[w] \in Call /\ CallCurrent(call[w])
  BY PaidType DEF IInv, TypeOK, Current
<1>3. ASSUME NEW c, CallCurrent(c), call' = [call EXCEPT ![w] = c] PROVE Current' /\ RegisterStep
  <2>1. \A v \in Workers : call'[v] = c
    BY <1>3 DEF OneWorker, IInv, TypeOK
  <2>2. ASSUME NEW v \in Workers PROVE CallCurrent(call[v])'
    BY <1>1, <1>3, <2>1 DEF CallCurrent
  <2> QED
    BY <1>1, <2>2 DEF Current, PaymentsFixPrice, RegisterStep
<1>4. ASSUME NEW amount \in Nat \ {0}, NEW ref, Remains PROVE CallCurrent(PaymentAsked(amount, ref))
  <2>1. ToPay(invoice) \in Nat
    BY <1>4, ToPayType DEF Remains, IInv, TypeOK
  <2>2. Lesser(amount, ToPay(invoice) - Paid) <= ToPay(invoice) - Paid
    BY <1>2, <2>1, LesserType
  <2> QED
    BY <2>2 DEF CallCurrent, PaymentAsked, Saving
<1>5. CASE Select(w)
  <2>1. CallCurrent([call[w] EXCEPT !.db = invoice])
    <3>1. call[w].op \in Saving
      BY <1>5 DEF Select, Saving
    <3> DEFINE c == [call[w] EXCEPT !.db = invoice]
    <3>2. /\ c.op = call[w].op /\ c.db = invoice /\ c.invoice = call[w].invoice
          /\ c.op = "pay" => c.paid = call[w].paid /\ c.take = call[w].take
      BY <1>2, <3>1 DEF Call, Saving
    <3> HIDE DEF c
    <3> QED
      BY <1>2, <3>2 DEF CallCurrent, c
  <2> QED
    BY <1>3, <1>5, <2>1, IdleIsCurrent DEF Select
<1>6. CASE WebhookPays(w)
  <2>1. transfer[call[w].ref] \in Nat \ {0}
    BY <1>2, <1>6, CallFields DEF WebhookPays, IInv, CallsHaveTransfer, TypeOK
  <2> QED
    BY <1>3, <1>4, <1>6, <2>1, IdleIsCurrent DEF WebhookPays
<1>7. CASE \E amount \in Amounts : AskPayment(w, amount)
  BY <1>3, <1>4, <1>7, AmountsAssumption DEF AskPayment, Starts
<1>8. CASE \E t \in Transfers : Webhook(w, t)
  <2>1. ASSUME NEW t PROVE CallCurrent([op |-> "webhook", ref |-> t])
    BY DEF CallCurrent, Saving
  <2> QED
    BY <1>3, <1>8, <2>1 DEF Webhook, Starts
<1>9. CASE OpenInvoice(w)
  <2> DEFINE c == [op |-> "open", bill |-> bill, invoice |-> invoice, applied |-> applied,
                   rows |-> <<Len(payments), link>>, db |-> NoInvoice]
  <2>1. CallCurrent(c)
    BY DEF CallCurrent, Saving
  <2>2. call' = [call EXCEPT ![w] = c]
    BY <1>9 DEF OpenInvoice, Starts
  <2> HIDE DEF c
  <2> QED
    BY <1>3, <2>1, <2>2
<1>10. CASE AskMarkPaid(w)
  <2> DEFINE c == [op |-> "mark", invoice |-> invoice, db |-> NoInvoice]
  <2>1. CallCurrent(c)
    BY DEF CallCurrent, Saving
  <2>2. call' = [call EXCEPT ![w] = c]
    BY <1>10 DEF AskMarkPaid, Starts
  <2> HIDE DEF c
  <2> QED
    BY <1>3, <2>1, <2>2
<1>11. CASE \E p \in Promotions : AskPromotion(w, p) \/ AskRemoval(w, p)
  <2>1. ASSUME NEW p, NEW off, MayPromote
        PROVE  CallCurrent([op |-> "promote", promo |-> p, off |-> off])
    BY <2>1 DEF CallCurrent, Saving, MayPromote
  <2> QED
    BY <1>3, <1>11, <2>1 DEF AskPromotion, AskRemoval, Starts
<1>12. CASE ComputeTotals(w)
  <2> DEFINE totals == Recomputed(invoice, [applied EXCEPT ![call[w].promo] = call[w].off])
             c == [op |-> "totals", promo |-> call[w].promo, off |-> call[w].off,
                   db |-> NoInvoice, invoice |-> totals]
  <2>1. invoice # NoInvoice /\ invoice.status = "UNPAID"
    BY <1>2, <1>12 DEF ComputeTotals, CallCurrent
  <2>2. totals.status = invoice.status
    BY DEF Recomputed
  <2> HIDE DEF totals
  <2>3. CallCurrent(c)
    BY <2>1, <2>2 DEF CallCurrent, Saving
  <2>4. call' = [call EXCEPT ![w] = c]
    BY <1>12 DEF ComputeTotals, totals
  <2> HIDE DEF c
  <2> QED
    BY <1>3, <2>3, <2>4
<1>13. CASE \E to \in OrderStatus : AskStatus(w, to)
  <2>1. ASSUME NEW to PROVE CallCurrent([op |-> "status", to |-> to])
    BY DEF CallCurrent, Saving
  <2> QED
    BY <1>3, <1>13, <2>1 DEF AskStatus, Starts
<1> QED
  BY <1>5, <1>6, <1>7, <1>8, <1>9, <1>10, <1>11, <1>12, <1>13 DEF Request, NoCancel, AskCancel

\* After a commit no call is in flight.
LEMMA CommitKeepsCurrent ==
  ASSUME IInv, OneWorker, NEW w \in Workers, Ends(w), PaymentsFixPrice'
  PROVE  Current'
<1>1. \A v \in Workers : call'[v] = Idle
  BY DEF Ends, OneWorker, IInv, TypeOK
<1>2. ASSUME NEW v \in Workers PROVE CallCurrent(call[v])'
  BY <1>1 DEF CallCurrent, Idle, Saving
<1> QED
  BY <1>2 DEF Current

\* A save over an unchanged row writes the object's columns.
LEMMA SaveOfCurrent ==
  ASSUME NEW object \in Invoice, NEW now \in Invoice
  PROVE  /\ Saved(object, now, now) \in Invoice
         /\ Saved(object, now, now).status = object.status
         /\ ToPay(Saved(object, now, now)) = ToPay(object)
<1> DEFINE s == Saved(object, now, now)
<1>1. s \in Invoice
  BY SavedType
<1>2. /\ s.status = object.status /\ s.final = object.final
      /\ s.total = object.total /\ s.discount = object.discount
  BY SavedFields
<1> HIDE DEF s
<1> QED
  BY <1>1, <1>2 DEF ToPay, s

\* What a call that saves holds is the invoice, read twice.
LEMMA SelectedIsCurrent ==
  ASSUME IInv, Current, NEW w \in Workers, NEW op \in Saving, Selected(w, op)
  PROVE  /\ invoice \in Invoice /\ call[w].db = invoice /\ call[w].invoice \in Invoice
         /\ op \in {"open", "pay", "mark"} => call[w].invoice = invoice
BY SelectedInvoice DEF Selected, Current, CallCurrent

\* The price moves only while nothing has been paid.
LEMMA UnpaidReprices ==
  ASSUME IInv, IInv', payments = <<>>, UNCHANGED payments
  PROVE  RegisterStep
<1>1. Paid = 0 /\ Paid' = Paid
  BY NothingPaid DEF Paid
<1>2. invoice' \in MaybeInvoice
  BY DEF IInv, TypeOK, MaybeInvoice
<1>3. (IF invoice' = NoInvoice THEN 0 ELSE ToPay(invoice')) \in Nat
  BY <1>2, ToPayType DEF MaybeInvoice
<1> QED
  BY <1>1, <1>3 DEF RegisterStep, AsRegister!Next, AsRegister!Reprice, ToPay

LEMMA UpdatesFollowRegister ==
  ASSUME IInv, IInv', Current, NEW w \in Workers, InvoiceUpdated(w) \/ InvoiceCreated(w)
  PROVE  PaymentsFixPrice' /\ RegisterStep
<1>1. UNCHANGED payments /\ Paid' = Paid
  BY DEF InvoiceUpdated, InvoiceCreated, Paid
<1>2. CASE UNCHANGED invoice
  BY <1>1, <1>2 DEF RegisterStep, Current, PaymentsFixPrice
<1>3. CASE InvoiceUpdated(w) /\ FollowsLines(call[w].invoice)
  <2>1. call[w].invoice = invoice /\ invoice \in Invoice
    BY <1>3, SelectedIsCurrent DEF InvoiceUpdated, Saving
  <2>2. payments = <<>>
    BY <1>3, <2>1 DEF FollowsLines, Current, PaymentsFixPrice
  <2> QED
    BY <1>1, <2>2, UnpaidReprices DEF PaymentsFixPrice
<1>4. CASE InvoiceCreated(w) /\ invoice = NoInvoice
  <2>1. payments = <<>>
    BY <1>4 DEF Current, PaymentsFixPrice
  <2> QED
    BY <1>1, <2>1, UnpaidReprices DEF PaymentsFixPrice
<1> QED
  BY <1>2, <1>3, <1>4 DEF InvoiceUpdated, InvoiceCreated

LEMMA PromoteFollowsRegister ==
  ASSUME IInv, IInv', Current, NEW w \in Workers, Promote(w)
  PROVE  PaymentsFixPrice' /\ RegisterStep
<1>1. UNCHANGED payments /\ CallCurrent(call[w]) /\ call[w].op = "totals"
  BY DEF Promote, Selected, Current
<1>2. payments = <<>>
  BY <1>1 DEF CallCurrent, Current, PaymentsFixPrice
<1> QED
  BY <1>1, <1>2, UnpaidReprices DEF PaymentsFixPrice

LEMMA MarkPaidFollowsRegister ==
  ASSUME IInv, Current, NEW w \in Workers, MarkPaid(w)
  PROVE  PaymentsFixPrice' /\ RegisterStep
<1> DEFINE object == [invoice EXCEPT !.status = "PAID"]
<1>1. invoice \in Invoice /\ call[w].db = invoice /\ call[w].invoice = invoice
  BY SelectedIsCurrent DEF MarkPaid, Saving
<1>2. object \in Invoice /\ object.status = "PAID" /\ ToPay(object) = ToPay(invoice)
  BY <1>1, ChangedInvoice DEF InvoiceStatus, Invoice, ToPay
<1>3. invoice' = Saved(object, invoice, invoice)
  BY <1>1 DEF MarkPaid
<1> HIDE DEF object
<1>4. invoice' \in Invoice /\ invoice'.status = "PAID" /\ ToPay(invoice') = ToPay(invoice)
  BY <1>1, <1>2, <1>3, SaveOfCurrent
<1>5. Paid' = Paid /\ invoice' # NoInvoice /\ invoice # NoInvoice
  BY <1>1, <1>4, InvoicesAreInvoices DEF MarkPaid, Paid
<1> QED
  BY <1>4, <1>5 DEF RegisterStep, PaymentsFixPrice, ToPay

LEMMA StorePaymentFollowsRegister ==
  ASSUME IInv, Current, NEW w \in Workers, StorePayment(w)
  PROVE  PaymentsFixPrice' /\ RegisterStep
<1> DEFINE c == call[w]
           status == IF Full(c) THEN "PAID" ELSE "PARTIAL"
           object == [invoice EXCEPT !.status = status]
<1>1. /\ c.op = "pay" /\ c.take \in Nat \ {0} /\ Paid \in Nat
      /\ c.take <= ToPay(invoice) - Paid
  BY StorePaymentPays, PaidType DEF IInv, TypeOK, Current, CallCurrent
<1>2. invoice \in Invoice /\ c.db = invoice /\ c.invoice = invoice
  BY <1>1, SelectedIsCurrent DEF StorePayment, Saving
<1>3. CASE ~MayStore(c)
  BY <1>3, StorePaymentPays DEF RegisterStep, Current, PaymentsFixPrice, Paid
<1>4. CASE MayStore(c)
  <2>1. status \in {"PAID", "PARTIAL"}
    OBVIOUS
  <2>2. invoice' = Saved(object, invoice, invoice)
    BY <1>2, <1>4 DEF StorePayment
  <2> HIDE DEF status
  <2>3. object \in Invoice /\ object.status = status /\ ToPay(object) = ToPay(invoice)
    BY <1>2, <2>1, ChangedInvoice DEF InvoiceStatus, Invoice, ToPay
  <2> HIDE DEF object
  <2>4. invoice' \in Invoice /\ invoice'.status # "UNPAID" /\ ToPay(invoice') = ToPay(invoice)
    BY <1>2, <2>1, <2>2, <2>3, SaveOfCurrent
  <2>5. invoice' # NoInvoice /\ invoice # NoInvoice
    BY <1>2, <2>4, InvoicesAreInvoices
  <2>6. Paid' = Paid + c.take /\ ToPay(invoice) \in Nat
    BY <1>2, <1>4, StorePaymentPays, ToPayType
  <2>7. Paid' \in (Paid + 1)..ToPay(invoice)
    BY <1>1, <2>6
  <2>8. PaymentsFixPrice'
    BY <2>4, <2>5 DEF PaymentsFixPrice
  <2>9. RegisterStep
    BY <2>4, <2>5, <2>7 DEF RegisterStep, AsRegister!Next, AsRegister!Charge, ToPay
  <2> QED
    BY <2>8, <2>9
<1> QED
  BY <1>3, <1>4

\* With one request served at a time and no cancellation, the invoice is a
\* register: once a payment is stored its price is fixed, and no more is taken
\* than it asks for, whatever bills, promotions, transfers and amounts there are.
THEOREM SettlementImplementsRegister ==
  ASSUME OneWorker, NoCancel
  PROVE  Spec => RegisterSpec
<1>1. Init => Current
  BY DEF Init, Current, CallCurrent, PaymentsFixPrice, Idle, Saving
<1>2. IInv /\ IInv' /\ Current /\ [Next]_vars => Current' /\ RegisterStep
  <2> SUFFICES ASSUME IInv, IInv', Current, [Next]_vars PROVE Current' /\ RegisterStep
    OBVIOUS
  <2>1. ASSUME NEW w \in Workers, Cancel(w) PROVE FALSE
    BY <2>1 DEF Cancel, Current, CallCurrent
  <2>2. ASSUME NEW w \in Workers,
               \/ InvoiceUpdated(w) \/ InvoiceCreated(w) \/ Promote(w) \/ MarkPaid(w)
               \/ StorePayment(w) \/ UpdateStatus(w)
        PROVE  Current' /\ RegisterStep
    <3>1. ASSUME UpdateStatus(w) PROVE PaymentsFixPrice' /\ RegisterStep
      BY <3>1 DEF UpdateStatus, Current, PaymentsFixPrice, RegisterStep, Paid
    <3>2. PaymentsFixPrice' /\ RegisterStep
      BY <2>2, <3>1, UpdatesFollowRegister, PromoteFollowsRegister, MarkPaidFollowsRegister,
         StorePaymentFollowsRegister
    <3>3. Ends(w)
      BY <2>2 DEF InvoiceUpdated, InvoiceCreated, Promote, MarkPaid, StorePayment, UpdateStatus
    <3> QED
      BY <3>2, <3>3, CommitKeepsCurrent
  <2>3. ASSUME NEW w \in Workers, Request(w) \/ Commit(w) PROVE Current' /\ RegisterStep
    BY <2>1, <2>2, <2>3, ReadsKeepCurrent DEF Commit
  <2>4. CASE UNCHANGED <<invoice, payments, call>>
    BY <2>4 DEF Current, PaymentsFixPrice, CallCurrent, RegisterStep, Paid
  <2>5. CASE \/ \E b \in Bills : ChangeLines(b)
             \/ \E amount \in Amounts : CreateLink(amount)
             \/ \E t \in Transfers : MakeTransfer(t)
             \/ UNCHANGED vars
    BY <2>4, <2>5 DEF ChangeLines, CreateLink, MakeTransfer, vars
  <2> QED
    BY <2>3, <2>5 DEF Next
<1>3. Init => AsRegister!Init
  BY NothingPaid DEF Init, AsRegister!Init
<1>4. RegisterStep <=>
        [AsRegister!Next]_<<IF invoice = NoInvoice THEN 0 ELSE ToPay(invoice), Paid>>
  BY DEF RegisterStep
<1> QED
  BY <1>1, <1>2, <1>3, <1>4, InvariantHolds, PTL DEF Spec, RegisterSpec, AsRegister!Spec

=============================================================================
