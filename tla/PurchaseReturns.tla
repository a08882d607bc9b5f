--------------------------- MODULE PurchaseReturns ---------------------------
(***************************************************************************)
(* Returns of goods to a supplier: purchasereturn.service.ts.  A return is *)
(* drafted, edited, posted (the goods leave the stock, what the supplier   *)
(* has refunded is vouchered), settled, and removed: a draft is deleted, a *)
(* posted return is cancelled and its goods come back.                     *)
(***************************************************************************)
EXTENDS Stockroom

CONSTANT ReturnBills   \* what a return may list: [supplier, day, lines, disc]

ReturnLine == [item : Items, qty : Nat \ {0}, factor : Nat \ {0}, price : Nat]

\* A return lists an item once.
ASSUME ReturnBillsAssumption ==
  \A b \in ReturnBills :
    /\ b.day \in Nat /\ b.disc \in DiscountTerms /\ b.lines \in Seq(ReturnLine)
    /\ \A k, m \in DOMAIN b.lines : k # m => b.lines[k].item # b.lines[m].item

VARIABLE returns

ReturnStatus == {"DRAFT", "POSTED", "CANCELLED"}

\* `each' is what the lines' own rows say is refunded; `amended', a history
\* field, that the refund was changed afterwards and they were not.
Return == [status : ReturnStatus, bill : ReturnBills, refund : Nat, paid : Nat, debt : Int,
           each : Seq(Nat), amended : BOOLEAN]

ASSUME ReturnAssumption == NoDoc \notin Return

LineGoods(l) == l.qty * l.price

Goods(b) == SumOf(b.lines, LineGoods)

\* What the supplier owes for a return; a discount above the goods is refused.
RefundDue(b) == Goods(b) - Discount(b.disc, Goods(b))

\* A line's share in the discount, to the nearest unit.
DiscountShare(b, l) ==
  IF Goods(b) = 0 THEN 0 ELSE Rounded(LineGoods(l) * Discount(b.disc, Goods(b)), Goods(b))

\* Seeded fault: what rounding leaves of the discount is lost.
AllocatedRoughly(b) == [k \in DOMAIN b.lines |-> DiscountShare(b, b.lines[k])]

\* allocateDiscount: the last line takes what rounding leaves of the discount.
Allocated(b) ==
  LET left == IF Goods(b) = 0 THEN 0
              ELSE Discount(b.disc, Goods(b)) - SumOf(b.lines, LAMBDA l : DiscountShare(b, l))
  IN [k \in DOMAIN b.lines |->
        DiscountShare(b, b.lines[k]) + (IF k = Len(b.lines) THEN left ELSE 0)]

LineRefunds(b) == [k \in DOMAIN b.lines |-> LineGoods(b.lines[k]) - Allocated(b)[k]]

\* The table of lines refuses a part of the discount below zero or above the
\* line.
Listable(b) == \A k \in DOMAIN b.lines : Allocated(b)[k] >= 0 /\ LineRefunds(b)[k] >= 0

ReturnIs(t, status) == returns[t] # NoDoc /\ returns[t].status = status

NewReturn(status, b, paid, debt) ==
  [status |-> status, bill |-> b, refund |-> RefundDue(b), paid |-> paid, debt |-> debt,
   each |-> LineRefunds(b), amended |-> FALSE]

\* A draft keeps what has been refunded, and records no debt yet.
CreateReturnDraft(t, b, paid) ==
  /\ returns[t] = NoDoc /\ paid <= RefundDue(b) /\ Listable(b)
  /\ returns' = [returns EXCEPT ![t] = NewReturn("DRAFT", b, paid, 0)]
  /\ UNCHANGED <<stock, moved, cashbook, drift, call>>

GoodsLeave(t, b) ==
  /\ InStock(b.lines)
  /\ stock' = Shifted(b.lines, -1)
  /\ moved' = Logged(t, b.lines, -1)

CreateStandalone(t, b, paid) ==
  /\ returns[t] = NoDoc /\ paid <= RefundDue(b) /\ Listable(b) /\ HasRoom
  /\ GoodsLeave(t, b)
  /\ returns' = [returns EXCEPT ![t] = NewReturn("POSTED", b, paid, RefundDue(b) - paid)]
  /\ cashbook' = Vouched("RECEIPT", t, paid)
  /\ UNCHANGED <<drift, call>>

\* Posting leaves the debt as the draft has it, and vouchers the whole amount
\* paid, also when the cashbook holds entries against the draft.
PostReturn(t) ==
  /\ ReturnIs(t, "DRAFT") /\ HasRoom
  /\ GoodsLeave(t, returns[t].bill)
  /\ returns' = [returns EXCEPT ![t].status = "POSTED"]
  /\ cashbook' = Vouched("RECEIPT", t, returns[t].paid)
  /\ drift' = IF NetReceived(t) = 0 THEN drift ELSE drift \cup {t}
  /\ UNCHANGED call

EditReturnDraft(t, b, paid) ==
  /\ ReturnIs(t, "DRAFT") /\ paid <= RefundDue(b) /\ Listable(b)
  /\ returns' = [returns EXCEPT ![t] = NewReturn("DRAFT", b, paid, RefundDue(b) - paid)]
  /\ UNCHANGED <<stock, moved, cashbook, drift, call>>

Amended(t, refund) == returns[t].amended \/ refund # returns[t].refund

\* An edit that sends no lines leaves theirs as they are, also when it changes
\* the discount.
EditReturnTerms(t, b, paid) ==
  /\ ReturnIs(t, "DRAFT") /\ paid <= RefundDue(b) /\ b.lines = returns[t].bill.lines
  /\ returns' = [returns EXCEPT ![t] =
       [NewReturn("DRAFT", b, paid, RefundDue(b) - paid)
          EXCEPT !.each = returns[t].each, !.amended = Amended(t, RefundDue(b))]]
  /\ UNCHANGED <<stock, moved, cashbook, drift, call>>

\* Seeded fault: the whole amount is vouchered again, not the difference.
SettleInFull(t, refund, paid) ==
  /\ ReturnIs(t, "POSTED") /\ HasRoom
  /\ paid <= refund
  /\ cashbook' = Vouched("RECEIPT", t, paid)
  /\ returns' = [returns EXCEPT ![t].refund = refund, ![t].paid = paid, ![t].debt = refund - paid,
                                ![t].amended = Amended(t, refund)]
  /\ UNCHANGED <<stock, moved, drift, call>>

\* On a posted return the amounts alone may change, and not those of its lines;
\* the difference to what had been paid is vouchered in or out.
Settle(t, refund, paid) ==
  /\ ReturnIs(t, "POSTED") /\ HasRoom
  /\ paid <= refund
  /\ LET delta == paid - returns[t].paid
     IN cashbook' = Vouched(IF delta > 0 THEN "RECEIPT" ELSE "PAYMENT", t, Magnitude(delta))
  /\ returns' = [returns EXCEPT ![t].refund = refund, ![t].paid = paid, ![t].debt = refund - paid,
                                ![t].amended = Amended(t, refund)]
  /\ UNCHANGED <<stock, moved, drift, call>>

\* The entries that name a document name none any more.
Detached(doc) ==
  LET its == Entries("RECEIPT", doc) \cup Entries("PAYMENT", doc)
      freed == {[e EXCEPT !.doc = NoDoc] : e \in its}
  IN [e \in BagToSet(cashbook) \ its |-> cashbook[e]] (+)
       [e \in freed |-> cashbook[[e EXCEPT !.doc = doc]]]

\* Deleting a draft detaches its entries.
RemoveDraft(t) ==
  /\ ReturnIs(t, "DRAFT")
  /\ returns' = [returns EXCEPT ![t] = NoDoc]
  /\ cashbook' = Detached(t)
  /\ drift' = drift \ {t}
  /\ UNCHANGED <<stock, moved, call>>

\* Seeded fault: the goods of a cancelled return stay away.
CancelReturnWithoutGoods(t) ==
  /\ ReturnIs(t, "POSTED") /\ HasRoom
  /\ returns' = [returns EXCEPT ![t].status = "CANCELLED"]
  /\ cashbook' = Vouched("PAYMENT", t, returns[t].paid)
  /\ UNCHANGED <<stock, moved, drift, call>>

\* The goods come back at the average cost of now; what was refunded is paid
\* back, and the amount stays on the return.
CancelReturn(t) ==
  /\ ReturnIs(t, "POSTED") /\ HasRoom
  /\ stock' = Shifted(returns[t].bill.lines, 1)
  /\ moved' = Logged(t, returns[t].bill.lines, 1)
  /\ returns' = [returns EXCEPT ![t].status = "CANCELLED"]
  /\ cashbook' = Vouched("PAYMENT", t, returns[t].paid)
  /\ UNCHANGED <<drift, call>>

ReturnsInit == returns = [t \in Returns |-> NoDoc]

ReturnsNext ==
  \E t \in Returns :
    \/ \E b \in ReturnBills, paid \in Payments :
         \/ CreateReturnDraft(t, b, paid)
         \/ CreateStandalone(t, b, paid)
         \/ EditReturnDraft(t, b, paid)
         \/ EditReturnTerms(t, b, paid)
    \/ PostReturn(t)
    \/ \E refund, paid \in Payments : Settle(t, refund, paid)
    \/ RemoveDraft(t)
    \/ CancelReturn(t)

=============================================================================
