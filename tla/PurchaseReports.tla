--------------------------- MODULE PurchaseReports ---------------------------
(***************************************************************************)
(* The purchase reports of report.service.ts, computed from the receipts   *)
(* and returns of the moment: suppliersTop, purchasesBySupplier,           *)
(* purchasesBySupplierItems and the two reports on returns.                *)
(*                                                                         *)
(* Paging, names and the search box are left out; periods are in whole     *)
(* days, and the reports on returns are taken over all time.               *)
(***************************************************************************)
EXTENDS Cashbook

Suppliers == {b.supplier : b \in Bills \cup ReturnBills}

Days == {b.day : b \in Bills}

\* Seeded fault: the day after belongs to the period.
WithinBoth(day, from, to) == day >= from /\ day <= to + 1

\* [from 00:00, the day after to, 00:00)
Within(day, from, to) == day >= from /\ day < to + 1

Counted(s, from, to) ==
  {r \in Receipts :
     /\ receipts[r] # NoDoc /\ receipts[r].status \in {"PAID", "OWING"}
     /\ receipts[r].bill.supplier = s /\ Within(receipts[r].bill.day, from, to)}

PostedReturns(s) == {t \in Returns : ReturnIs(t, "POSTED") /\ returns[t].bill.supplier = s}

LineNet(l) == l.qty * l.price - Discount(l.disc, l.qty * l.price)

ReceiptGoods(b) == SumOf(b.lines, LineNet)

ReceiptDiscount(b) == Discount(b.disc, ReceiptGoods(b))

\* suppliersTop: purchases, returns and their difference.
TopRow(s, from, to) ==
  LET purchase == SumOver(LAMBDA r : ReceiptGoods(receipts[r].bill) - ReceiptDiscount(receipts[r].bill)
                                   + receipts[r].bill.ship, Counted(s, from, to))
      return == SumOver(LAMBDA t : returns[t].refund, PostedReturns(s))
  IN [purchaseAmount |-> purchase, returnAmount |-> return, netAmount |-> purchase - return]

\* purchasesBySupplier: the totals of a supplier's receipts.
SupplierRow(s, from, to) ==
  LET of(F(_)) == SumOver(LAMBDA r : F(receipts[r].bill), Counted(s, from, to))
      goods == of(ReceiptGoods)
      discount == of(ReceiptDiscount)
      ship == of(LAMBDA b : b.ship)
  IN [goodsAmount |-> goods, invoiceDiscount |-> discount, netGoods |-> goods - discount,
      shippingFee |-> ship, totalAmount |-> goods - discount + ship,
      receiptCount |-> Cardinality(Counted(s, from, to))]

\* A line's share in its receipt's discount, to the nearest unit.
HeaderShare(b, l) ==
  IF ReceiptGoods(b) = 0 THEN 0 ELSE Rounded(LineNet(l) * ReceiptDiscount(b), ReceiptGoods(b))

\* purchasesBySupplierItems: an item's part in the goods, in base units and in
\* the receipts' discounts.
ItemRow(s, i, from, to) ==
  LET of(F(_, _)) == SumOver(LAMBDA r :
                           LET b == receipts[r].bill
                           IN SumOf(b.lines, LAMBDA l : IF l.item = i THEN F(b, l) ELSE 0),
                         Counted(s, from, to))
  IN [baseQty |-> of(LAMBDA b, l : BaseQty(l)), goodsAmount |-> of(LAMBDA b, l : LineNet(l)),
      headerDiscount |-> of(HeaderShare)]

\* purchaseReturnsBySupplier.
ReturnRow(s) ==
  [returnQtyBase |-> SumOver(LAMBDA t : SumOf(returns[t].bill.lines, BaseQty), PostedReturns(s)),
   returnAmount  |-> SumOver(LAMBDA t : returns[t].refund, PostedReturns(s)),
   returnCount   |-> Cardinality(PostedReturns(s))]

\* What the lines of an item say is refunded.
RefundOf(row, i) ==
  SumOver(LAMBDA k : IF row.bill.lines[k].item = i THEN row.each[k] ELSE 0, DOMAIN row.bill.lines)

\* purchaseReturnItemsBySupplier, which reads the lines' own refunds.
ReturnItemRow(s, i) ==
  [returnBaseQty |-> SumOver(LAMBDA t : QtyIn(returns[t].bill.lines, i), PostedReturns(s)),
   refundAmount  |-> SumOver(LAMBDA t : RefundOf(returns[t], i), PostedReturns(s))]

----------------------------------------------------------------------------
(* What must hold                                                          *)

\* Bills on which no discount exceeds what it is taken from: above that the
\* receipt's own total stops at zero and the reports go on below.
Plain(b) ==
  /\ \A k \in DOMAIN b.lines : LineNet(b.lines[k]) >= 0
  /\ ReceiptGoods(b) >= ReceiptDiscount(b)

\* A supplier's total in suppliersTop and in purchasesBySupplier is what his
\* receipts came to.
TotalsAgree(s, from, to) ==
  LET mine == Counted(s, from, to)
      total == SupplierRow(s, from, to).totalAmount
      top == TopRow(s, from, to)
  IN /\ top.purchaseAmount = total
     /\ top.returnAmount = ReturnRow(s).returnAmount
     /\ (\A r \in mine : Plain(receipts[r].bill)) =>
          total = SumOver(LAMBDA r : ReceiptTotal(receipts[r].bill), mine)

\* The items' goods sum to the goods and their discounts, to within half a unit
\* a line, to the discounts.  Where a receipt's goods come to nothing its items
\* show no discount, whatever the receipt has.
ItemsAddUp(s, from, to) ==
  LET mine == Counted(s, from, to)
      row == SupplierRow(s, from, to)
      lines == SumOver(LAMBDA r : Len(receipts[r].bill.lines), mine)
      items == [i \in Items |-> ItemRow(s, i, from, to)]
      shared == SumOver(LAMBDA i : items[i].headerDiscount, Items)
  IN /\ row.goodsAmount = SumOver(LAMBDA i : items[i].goodsAmount, Items)
     /\ (\A r \in mine : Plain(receipts[r].bill)) =>
          2 * Magnitude(row.invoiceDiscount - shared) <= lines

\* What the reports on returns show as returned is what left the stock.
ReturnsLeftStock(s) ==
  LET left(i) == - SumOver(LAMBDA t : moved[t][i], PostedReturns(s))
  IN /\ \A i \in Items : ReturnItemRow(s, i).returnBaseQty = left(i)
     /\ ReturnRow(s).returnQtyBase = SumOver(left, Items)

\* The items' refunds sum to the returns' unless one was amended: its lines
\* then still say what they said before.
RefundsAgree(s) ==
  (\A t \in PostedReturns(s) : ~ returns[t].amended) =>
    SumOver(LAMBDA i : ReturnItemRow(s, i).refundAmount, Items) = ReturnRow(s).returnAmount

\* The purchase reports tell the same story as each other, as the receipts and
\* as the stock, for every supplier and period (suppliersTop,
\* purchasesBySupplier, purchasesBySupplierItems and the reports on returns,
\* each a query of its own).
ReportsReconcile ==
  \A s \in Suppliers :
    /\ ReturnsLeftStock(s) /\ RefundsAgree(s)
    /\ \A from, to \in Days : TotalsAgree(s, from, to) /\ ItemsAddUp(s, from, to)

\* Adjoining periods share no receipt and lose none: the reports of two of them
\* add up to the report of both (resolveLocalRange: to is the day after).
PeriodsAddUp ==
  \A s \in Suppliers, from, mid, to \in Days :
    from <= mid /\ mid < to =>
      LET first == SupplierRow(s, from, mid)
          rest == SupplierRow(s, mid + 1, to)
          both == SupplierRow(s, from, to)
      IN \A f \in DOMAIN both : both[f] = first[f] + rest[f]

=============================================================================
