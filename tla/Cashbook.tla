------------------------------ MODULE Cashbook ------------------------------
(***************************************************************************)
(* Entries made by hand in the cashbook: cashbook.service.ts.  An entry    *)
(* against a receipt or a return is stored first; then, in a transaction   *)
(* of its own, the document is brought up to date with the sum of its      *)
(* entries.  A crash may fall between the two.                             *)
(*                                                                         *)
(* Entries against invoices or against no document change nothing else and *)
(* are left out.                                                           *)
(***************************************************************************)
EXTENDS Purchasing, PurchaseReturns

vars == <<stock, moved, cashbook, drift, call, receipts, returns>>

Exists(doc) == IF doc \in Receipts THEN receipts[doc] # NoDoc ELSE returns[doc] # NoDoc

\* `doc' is to be brought up to date next, unless the entry names none.
Touches(w, doc) ==
  /\ call[w] = NoDoc
  /\ call' = [call EXCEPT ![w] = doc]
  /\ drift' = drift \cup ({doc} \ {NoDoc})

CreateCashBookEntry(w, type, doc, amount) ==
  /\ Exists(doc) /\ HasRoom
  /\ Touches(w, doc)
  /\ cashbook' = Vouched(type, doc, amount)
  /\ UNCHANGED <<stock, moved, receipts, returns>>

\* An edited payment is stored below zero, a new one above.
UpdateEntry(w, e, amount) ==
  /\ Touches(w, e.doc)
  /\ cashbook' = (cashbook (-) SetToBag({e})) (+)
       SetToBag({[e EXCEPT !.amount = IF e.type = "PAYMENT" THEN -amount ELSE amount]})
  /\ UNCHANGED <<stock, moved, receipts, returns>>

\* Seeded fault: payments stored below zero are taken for none.
SyncReceiptDebtSigned(w) ==
  /\ call[w] \in Receipts
  /\ LET r == call[w]
     IN /\ receipts' = [receipts EXCEPT ![r] =
                          Settled(@.bill, NotNegative(Booked("PAYMENT", r)))]
        /\ drift' = drift \ {r}
  /\ call' = [call EXCEPT ![w] = NoDoc]
  /\ UNCHANGED <<stock, moved, cashbook, returns>>

\* A receipt of whatever status is settled with what was paid for it.
SyncReceiptDebt(w) ==
  /\ call[w] \in Receipts
  /\ LET r == call[w]
     IN /\ receipts' = [receipts EXCEPT ![r] =
                          Settled(@.bill, Magnitude(Booked("PAYMENT", r)))]
        /\ drift' = drift \ {r}
  /\ call' = [call EXCEPT ![w] = NoDoc]
  /\ UNCHANGED <<stock, moved, cashbook, returns>>

\* The table refuses more than the refund: the entry then stays on its own.
SyncReturnPaidAmount(w) ==
  /\ call[w] \in Returns
  /\ LET t == call[w]
         net == NetReceived(t)
         stored == Exists(t) /\ NotNegative(net) <= returns[t].refund
     IN /\ returns' = IF stored THEN [returns EXCEPT ![t].paid = NotNegative(net)] ELSE returns
        /\ drift' = IF stored /\ net >= 0 /\ ~ ReturnIs(t, "CANCELLED") THEN drift \ {t} ELSE drift
  /\ call' = [call EXCEPT ![w] = NoDoc]
  /\ UNCHANGED <<stock, moved, cashbook, receipts>>

\* The process stops between the two transactions of an entry.
Crash ==
  /\ \E w \in Workers : call[w] # NoDoc
  /\ call' = [w \in Workers |-> NoDoc]
  /\ UNCHANGED <<stock, moved, cashbook, drift, receipts, returns>>

Init == StockroomInit /\ PurchasingInit /\ ReturnsInit

CashbookNext ==
  \/ \E w \in Workers, amount \in Payments \ {0} :
       \/ \E type \in {"RECEIPT", "PAYMENT"}, doc \in Docs : CreateCashBookEntry(w, type, doc, amount)
       \/ \E e \in BagToSet(cashbook) : UpdateEntry(w, e, amount)
  \/ \E w \in Workers : SyncReceiptDebt(w) \/ SyncReturnPaidAmount(w)
  \/ Crash

Next ==
  \/ PurchasingNext /\ UNCHANGED returns
  \/ ReturnsNext /\ UNCHANGED receipts
  \/ CashbookNext

Spec == Init /\ [][Next]_vars

----------------------------------------------------------------------------
(* What must hold                                                          *)

TypeOK ==
  /\ stock \in [Items -> [qty : Nat, avg : Nat]]
  /\ moved \in [Docs -> [Items -> Int]]
  /\ IsABag(cashbook) /\ BagToSet(cashbook) \subseteq Voucher
  /\ drift \subseteq Docs
  /\ call \in [Workers -> Docs \cup {NoDoc}]
  /\ receipts \in [Receipts -> Receipt \cup {NoDoc}]
  /\ returns \in [Returns -> Return \cup {NoDoc}]

\* Payments of one sign: none, or all, of them were edited.
OneSign(doc) ==
  \A e, f \in Entries("PAYMENT", doc) : e.amount > 0 <=> f.amount > 0

\* A receipt that is owed or paid, and that no crash left apart from its
\* vouchers, has been paid what its vouchers say, through posting, paying off
\* and entries made and edited by hand; its debt is the rest and it is PAID
\* exactly when there is none (purchasereceipt.service, syncReceiptDebt).
PaidMatchesBook ==
  \A r \in Receipts \ drift :
    receipts[r] # NoDoc /\ receipts[r].status \in {"PAID", "OWING"} /\ OneSign(r) =>
      /\ receipts[r].paid = Total(Magnitude, Entries("PAYMENT", r))
      /\ receipts[r].debt = NotNegative(ReceiptTotal(receipts[r].bill) - receipts[r].paid)
      /\ receipts[r].status = "PAID" <=> receipts[r].debt = 0

\* What the supplier has refunded on a posted return is what its vouchers say,
\* net of what was paid back; nothing is left of a cancelled one.  Returns with
\* an edited payment are excepted: it is then added instead of subtracted
\* (purchasereturn.service update and remove, syncReturnPaidAmount).
RefundsMatchBook ==
  \A t \in Returns \ drift :
    returns[t] # NoDoc /\ (\A e \in Entries("PAYMENT", t) : e.amount > 0) =>
      CASE returns[t].status = "POSTED" -> returns[t].paid = NetReceived(t)
        [] returns[t].status = "CANCELLED" -> NetReceived(t) = 0
        [] OTHER -> TRUE

\* The goods of a document move once: those of a receipt at most once and never
\* for a draft, those of a return exactly while it is posted; the stock is what
\* it opened with and what the documents moved (the inventory transactions).
GoodsOnce ==
  /\ \A i \in Items :
       stock[i].qty = Opening[i].qty + SumOver(LAMBDA d : moved[d][i], Docs)
  /\ \A r \in Receipts, i \in Items :
       LET all == IF receipts[r] = NoDoc THEN 0 ELSE QtyIn(receipts[r].bill.lines, i)
       IN IF receipts[r] = NoDoc \/ receipts[r].status = "DRAFT" THEN moved[r][i] = 0
          ELSE moved[r][i] \in {0, all}
  /\ \A t \in Returns, i \in Items :
       moved[t][i] = IF ReturnIs(t, "POSTED") THEN - QtyIn(returns[t].bill.lines, i) ELSE 0

\* The average cost of an item lies between the lowest and the highest unit
\* cost it was ever bought at, however receipts, returns and cancelled returns
\* follow each other (the weighted average of purchasereceipt.service).
AvgCostInRange ==
  \A i \in Items :
    LET costs == UNION {{Rounded(100 * b.lines[k].price, b.lines[k].factor) :
                           k \in {m \in DOMAIN b.lines : b.lines[m].item = i}} : b \in Bills}
    IN Opening[i].qty = 0 /\ stock[i].avg # Opening[i].avg =>
         \E low, high \in costs : stock[i].avg \in low..high

=============================================================================
