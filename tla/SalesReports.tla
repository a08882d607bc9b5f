---------------------------- MODULE SalesReports ----------------------------
(***************************************************************************)
(* The sales reports of report.service.ts, computed from the invoices,     *)
(* lines, payments and vouchers of the moment, joins and all: a join with  *)
(* payments counts a line once per payment, a join with lines counts a     *)
(* discount once per line.                                                 *)
(*                                                                         *)
(* Periods are in whole days of the restaurant's time zone.  Paging,       *)
(* sorting, names and the filters by area, table and text are left out.    *)
(***************************************************************************)
EXTENDS SalesReturns

CONSTANTS
  MonthLength,  \* days of every month of the calendar
  AvgCost       \* Items -> average cost of a base unit

Days == 1..LastDay

\* resolveRange, as days.
RangeOf(key) ==
  LET first == today - (today % MonthLength)
  IN CASE key = "today" -> today..today
       [] key = "yesterday" -> (today - 1)..(today - 1)
       [] key = "last7" -> (today - 6)..today
       [] key = "thisMonth" -> first..(first + MonthLength - 1)
       [] key = "lastMonth" -> (first - MonthLength)..(first - 1)

\* Seeded fault: the day after the last is included too.
LocalRangeLong(from, to) ==
  LET start == IF from # Nothing THEN from ELSE IF to # Nothing THEN to ELSE today
      end == IF to # Nothing THEN to ELSE start
  IN {d \in Days : d >= start /\ d <= end + 1}

\* resolveLocalRange: both days included; a missing one is the other, or today.
LocalRange(from, to) ==
  LET start == IF from # Nothing THEN from ELSE IF to # Nothing THEN to ELSE today
      end == IF to # Nothing THEN to ELSE start
  IN {d \in Days : d >= start /\ d < end + 1}

Billed(D) == {i \in Invoices : sales[i] # Nothing /\ sales[i].createdAt \in D}
Paid(D) == {i \in Billed(D) : sales[i].status = "PAID"}
PaidLately(D) == {i \in Paid(Days) : sales[i].updatedAt \in D}

Qty(i) == SumOver(LAMBDA l : Order[i].lines[l].qty, Lines(i))

(***************************************************************************)
(* The dashboard, by the day an invoice was last written.                  *)
(***************************************************************************)
Summary(D) ==
  [revenue |-> SumOver(FinalAmount, PaidLately(D)), ordersDone |-> Cardinality(PaidLately(D))]

\* Seeded fault: the days are those of the bills.
SeriesByDayBilled(D) == [d \in D |-> SumOver(FinalAmount, Paid({d}))]

\* salesSeries by day: a bucket for every day, empty ones at 0.
SeriesByDay(D) == [d \in D |-> SumOver(FinalAmount, PaidLately({d}))]

\* salesSeries by day of the week.
SeriesByWeekday(D) ==
  [w \in 0..6 |-> SumOver(FinalAmount, PaidLately({d \in D : d % 7 = w}))]

\* topItems: quantity or revenue by dish.
TopItems(D, by) ==
  LET sold == UNION {{<<i, l>> : l \in Lines(i)} : i \in PaidLately(D)}
      value(s) == IF by = "qty" THEN Order[s[1]].lines[s[2]].qty ELSE Amount(s[1], s[2])
  IN [dish \in DOMAIN Recipe |->
        SumOver(value, {s \in sold : Order[s[1]].lines[s[2]].dish = dish})]

(***************************************************************************)
(* salesDaily: every invoice of the days, paid or not.  Copies is how      *)
(* often the join with payments repeats a line, for a filter on the method.*)
(***************************************************************************)
Copies(i, method) ==
  IF method = Nothing
  THEN Max({1, Len(sales[i].payments)})
  ELSE Cardinality({k \in DOMAIN sales[i].payments : sales[i].payments[k].method = method})

DailyRow(i, method) ==
  [itemsCount |-> Copies(i, method) * Qty(i), goodsAmount |-> TotalAmount(i),
   invoiceDiscount |-> DiscountTotal(i), revenue |-> FinalAmount(i)]

DailySummary(D, method) ==
  LET S == {i \in Billed(D) : Copies(i, method) > 0}
      taken(i) == IF method = Nothing THEN 1 ELSE Copies(i, method)
  IN [itemsCount |-> SumOver(LAMBDA i : Copies(i, method) * Qty(i), S),
      goodsAmount |-> SumOver(LAMBDA i : Copies(i, method) * TotalAmount(i), S),
      invoiceDiscount |-> SumOver(DiscountTotal, S),
      revenue |-> SumOver(LAMBDA i : taken(i) * FinalAmount(i), S),
      invoiceCount |-> Cardinality(S)]

\* postReceiptFromInvoice: the payments with a voucher, cash and VietQR.
Booked(i, D) ==
  {k \in DOMAIN sales[i].payments :
     sales[i].payments[k].method \in {"CASH", "VIETQR"} /\ sales[i].payments[k].day \in D}

\* cashbookDaily: receipts of invoices and refunds.
CashbookDaily(D) ==
  LET receipt == SumOver(LAMBDA i : SumOver(LAMBDA k : sales[i].payments[k].amount, Booked(i, D)),
                         Billed(Days))
      paidOut == {v \in vouchers : v.day \in D}
      payment == SumOver(LAMBDA v : v.amount, paidOut)
  IN [totalReceipt |-> receipt, totalPayment |-> payment, diff |-> receipt - payment,
      voucherCount |-> SumOver(LAMBDA i : Cardinality(Booked(i, D)), Billed(Days)) + Cardinality(paidOut)]

\* summaryCashBookEntries: the balance before the first day, and after the last.
CashSummary(from, to) ==
  LET before == IF from = Nothing THEN {} ELSE {d \in Days : d < from}
      within == {d \in Days : (from # Nothing => d >= from) /\ (to # Nothing => d <= to)}
      book == CashbookDaily(within)
      opening == CashbookDaily(before).diff
  IN [openingBalance |-> opening, totalReceipt |-> book.totalReceipt,
      totalPayment |-> book.totalPayment, closingBalance |-> opening + book.diff]

\* list of invoice.service.ts: a filter on the method loads the payments of that
\* method only, so `remaining' then counts the others as unpaid.
InvoiceRow(i, method) ==
  LET paid(m) == SumOver(LAMBDA k : sales[i].payments[k].amount,
                         {k \in DOMAIN sales[i].payments :
                            sales[i].payments[k].method = m /\ method \in {m, Nothing}})
      total == paid("CASH") + paid("VIETQR")
  IN [paidCash |-> paid("CASH"), paidBank |-> paid("VIETQR"), paidTotal |-> total,
      remaining |-> Max({0, FinalAmount(i) - total})]

\* getInvoiceReturnSummary: what was sold, returned and is left of every line.
ReturnSummary(i) ==
  [l \in Lines(i) |-> LET back == Returned(Of(i), l)
                      IN [soldQty |-> Order[i].lines[l].qty, returnedQty |-> back,
                          remainQty |-> Max({0, Order[i].lines[l].qty - back})]]

\* cancelItemsDaily: the lines cancelled on these days, with their value.
CancelledLines(D) ==
  {r \in UNION {{<<i, l>> : l \in Lines(i)} : i \in Invoices} :
     LET struck == Order[r[1]].struck
     IN r[2] \in DOMAIN struck /\ struck[r[2]] \in D /\ struck[r[2]] <= today}

CancelledItems(D) ==
  LET rows == CancelledLines(D)
  IN [count |-> Cardinality(rows), value |-> SumOver(LAMBDA r : Amount(r[1], r[2]), rows)]

(***************************************************************************)
(* Staff.  An invoice is its cashier's, else the waiter's.  The discount   *)
(* is summed over the lines of the join.                                   *)
(***************************************************************************)
StaffOf(i) == IF sales[i].cashier # Nothing THEN sales[i].cashier ELSE Order[i].creator

StaffSales(D, user) ==
  LET S == {i \in Billed(D) : StaffOf(i) = user}
      goods == SumOver(TotalAmount, S)
      discount == SumOver(LAMBDA i : Cardinality(Lines(i)) * DiscountTotal(i), S)
  IN [revenue |-> goods - discount, returnValue |-> 0, netRevenue |-> goods - discount]

\* The lines a promotion of an order, of categories or of dishes is about.
Scope(i, p) ==
  IF p.applyWith = "ORDER" THEN Lines(i)
  ELSE {l \in Lines(i) : Order[i].lines[l].dish \in p.dishes}

GoodsOfScope(i, p) == SumOver(LAMBDA l : Amount(i, l), Scope(i, p))

\* A line's share of the promotions about it, each in proportion to its amount:
\* whole units, each share rounded down.
Allocated(i, l) ==
  SumOver(LAMBDA k : (Order[i].promos[k].amount * Amount(i, l)) \div GoodsOfScope(i, Order[i].promos[k]),
          {k \in DOMAIN Order[i].promos : l \in Scope(i, Order[i].promos[k])})

StaffItems(D, user) ==
  LET sold == UNION {{<<i, l>> : l \in Lines(i)} : i \in {j \in Paid(D) : StaffOf(j) = user}}
      goods == SumOver(LAMBDA s : Amount(s[1], s[2]), sold)
      discount == SumOver(LAMBDA s : Allocated(s[1], s[2]), sold)
  IN [soldQty |-> SumOver(LAMBDA s : Order[s[1]].lines[s[2]].qty, sold), goodsAmount |-> goods,
      discount |-> discount, netRevenue |-> goods - discount]

(***************************************************************************)
(* Customers: a walk-in guest is a customer of his own.                    *)
(***************************************************************************)
CustomersCount(D) ==
  LET known == {i \in Paid(D) : Order[i].customer # Nothing}
  IN Cardinality({Order[i].customer : i \in known}) + Cardinality(Paid(D) \ known)

CustomerRow(i) ==
  LET goods == Copies(i, Nothing) * TotalAmount(i)
  IN [itemsCount |-> Copies(i, Nothing) * Qty(i), goodsAmount |-> goods,
      invoiceDiscount |-> DiscountTotal(i), netRevenue |-> goods - DiscountTotal(i)]

CustomerSum(D) ==
  LET goods == SumOver(TotalAmount, Paid(D))
      discount == SumOver(LAMBDA i : Cardinality(Lines(i)) * DiscountTotal(i), Paid(D))
  IN [itemsCount |-> SumOver(Qty, Paid(D)), goodsAmount |-> goods, invoiceDiscount |-> discount,
      netRevenue |-> goods - discount]

(***************************************************************************)
(* Profit, at the ingredients' average costs of the moment.                *)
(***************************************************************************)
Cost(i) ==
  LET portion(dish) == SumOver(LAMBDA n : Recipe[dish][n].quantity * AvgCost[Recipe[dish][n].item],
                               DOMAIN Recipe[dish])
  IN SumOver(LAMBDA l : Order[i].lines[l].qty * portion(Order[i].lines[l].dish), Lines(i))

\* Seeded fault: the discount comes from the join with the lines.
ProfitPointJoined(d) ==
  LET net == SumOver(TotalAmount, Paid({d}))
               - SumOver(LAMBDA i : Cardinality(Lines(i)) * DiscountTotal(i), Paid({d}))
      cogs == SumOver(LAMBDA i : Cost(i), Paid({d}))
  IN [revenue |-> net, cogs |-> cogs, profit |-> net - cogs]

ProfitPoint(d) ==
  LET net == SumOver(TotalAmount, Paid({d})) - SumOver(DiscountTotal, Paid({d}))
      cogs == SumOver(LAMBDA i : Cost(i), Paid({d}))
  IN [revenue |-> net, cogs |-> cogs, profit |-> net - cogs]

ProfitDaily(D) ==
  LET of(F(_)) == SumOver(LAMBDA d : F(ProfitPoint(d)), D)
  IN [revenue |-> of(LAMBDA p : p.revenue), cogs |-> of(LAMBDA p : p.cogs),
      profit |-> of(LAMBDA p : p.profit)]

ProfitRow(i) ==
  LET net == TotalAmount(i) - DiscountTotal(i)
  IN [goodsAmount |-> TotalAmount(i), invoiceDiscount |-> DiscountTotal(i), netRevenue |-> net,
      cogs |-> Cost(i), grossProfit |-> net - Cost(i)]

InvoiceDiscounts(D) ==
  [transactionCount |-> Cardinality(Paid(D)), goodsAmount |-> SumOver(TotalAmount, Paid(D)),
   discountAmount |-> SumOver(DiscountTotal, Paid(D))]

(***************************************************************************)
(* Properties of the reports, at rest: requests in flight change none.     *)
(***************************************************************************)
Resting == \A c \in Cashiers : tx[c] = Nothing

Users == Cashiers \cup {Order[i].creator : i \in Invoices}

\* The rows of the database: finitely many; a promotion is only applied to goods
\* of some value and takes off no more than these (calcDiscount), a payment is
\* cash or VietQR, the line cancelled is one of the order.
ASSUME ReportsAssumption ==
  /\ IsFiniteSet(Invoices) /\ IsFiniteSet(DOMAIN Recipe)
  /\ \A i \in Invoices :
       /\ DOMAIN Order[i].struck \subseteq Lines(i)
       /\ \A k \in DOMAIN Order[i].promos :
            LET p == Order[i].promos[k] IN GoodsOfScope(i, p) > 0 /\ p.amount <= GoodsOfScope(i, p)
  /\ AvgCost \in [Items -> Int]
  /\ MonthLength \in Nat \ {0}
  /\ \A p \in Payments : p.method \in {"CASH", "VIETQR"}
  /\ Nothing \notin Int

\* What an invoice's promotions take off, and into how many shares that is split.
Promised(i) == SumOver(LAMBDA k : Order[i].promos[k].amount, DOMAIN Order[i].promos)
Shares(i) == SumOver(LAMBDA k : Cardinality(Scope(i, Order[i].promos[k])), DOMAIN Order[i].promos)

(***************************************************************************)
(* Over any period the reports on paid invoices tell one story: profit by  *)
(* day, profit by invoice and invoice discounts have the same revenue,     *)
(* although each joins other tables; employees and customers have the same *)
(* goods, and customers are no more than the invoices.  By employee the    *)
(* revenue is the same too, but for the shares rounded down, as long as no *)
(* invoice was promised more off than it cost.  The list of invoices asks  *)
(* nothing more of exactly the paid ones and of those that cost nothing,   *)
(* and what it says was paid is what came into the cashbook; what the      *)
(* return screen says is left of an invoice, with its refunds, is its      *)
(* goods, until one of its lines was returned beyond what it sold.         *)
(***************************************************************************)
ReportsAgree ==
  Resting => \A from, to \in Days :
    LET D == LocalRange(from, to)
        profit == ProfitDaily(D)
        discounts == InvoiceDiscounts(D)
    IN /\ profit.revenue = SumOver(LAMBDA i : ProfitRow(i).netRevenue, Paid(D))
       /\ profit.profit = SumOver(LAMBDA i : ProfitRow(i).grossProfit, Paid(D))
       /\ profit.revenue = discounts.goodsAmount - discounts.discountAmount
       /\ SumOver(LAMBDA u : StaffItems(D, u).goodsAmount, Users) = discounts.goodsAmount
       /\ (\A i \in Paid(D) : DiscountTotal(i) = Promised(i)) =>
            LET net == SumOver(LAMBDA u : StaffItems(D, u).netRevenue, Users)
            IN profit.revenue <= net /\ net <= profit.revenue + SumOver(Shares, Paid(D))
       /\ CustomerSum(D).goodsAmount = discounts.goodsAmount
       /\ CustomersCount(D) <= discounts.transactionCount
       /\ \A i \in Billed(D) :
            LET left == ReturnSummary(i)
            IN /\ (InvoiceRow(i, Nothing).remaining = 0) = (i \in Paid(D) \/ FinalAmount(i) = 0)
               /\ (\A l \in Lines(i) : left[l].returnedQty <= left[l].soldQty) =>
                    SumOver(LAMBDA l : left[l].remainQty * Order[i].lines[l].price, Lines(i))
                      + SumOver(LAMBDA r : r.refund, Of(i)) = TotalAmount(i)
       /\ CashSummary(Nothing, Nothing).totalReceipt
            = SumOver(LAMBDA i : InvoiceRow(i, Nothing).paidTotal, Billed(Days))

(***************************************************************************)
(* The dashboard's revenue is the sum of its series, by day and by weekday,*)
(* for every range it offers; this month's and last month's add up to both,*)
(* and over all days it is the net revenue of the invoices paid.           *)
(***************************************************************************)
DashboardAddsUp ==
  Resting =>
    /\ \A key \in {"today", "yesterday", "last7", "thisMonth", "lastMonth"} :
         LET D == RangeOf(key) \cap Days
             byDay == SeriesByDay(D)
             byWeekday == SeriesByWeekday(D)
         IN /\ Summary(D).revenue = SumOver(LAMBDA d : byDay[d], D)
            /\ Summary(D).revenue = SumOver(LAMBDA w : byWeekday[w], 0..6)
    /\ RangeOf("lastMonth") \cap RangeOf("thisMonth") = {}
    /\ Summary(Days).revenue = ProfitDaily(Days).revenue
    /\ LET revenue == TopItems(Days, "revenue")
       IN SumOver(LAMBDA d : revenue[d], DOMAIN Recipe) = InvoiceDiscounts(Days).goodsAmount

(***************************************************************************)
(* Two periods one after the other add up to the period of both, in every  *)
(* report that takes dates: no sale, voucher or cancelled line is counted  *)
(* on two days or on none.  The cashbook's balance after the first is the  *)
(* balance the second opens with, and both close with that of the whole.   *)
(***************************************************************************)
DaysAddUp ==
  Resting => \A from, to \in Days : \A mid \in from..(to - 1) :
    LET Whole(F(_)) == F(LocalRange(from, to)) = F(LocalRange(from, mid)) + F(LocalRange(mid + 1, to))
    IN /\ Whole(LAMBDA D : ProfitDaily(D).profit)
       /\ Whole(LAMBDA D : CashbookDaily(D).diff)
       /\ Whole(LAMBDA D : CashbookDaily(D).voucherCount)
       /\ CashSummary(from, mid).closingBalance = CashSummary(mid + 1, to).openingBalance
       /\ CashSummary(from, to).closingBalance = CashSummary(mid + 1, to).closingBalance
       /\ CashSummary(Nothing, to).closingBalance = CashSummary(from, to).closingBalance
       /\ Whole(LAMBDA D : CancelledItems(D).value)
       /\ \A method \in {p.method : p \in Payments} \cup {Nothing} :
            Whole(LAMBDA D : DailySummary(D, method).revenue)

Next ==
  \/ NextDay
  \/ \E i \in Invoices, p \in Payments : TakePayment(i, p)
  \/ \E c \in Cashiers :
       \/ \E i \in Invoices : Bill(c, i)
       \/ \E i \in Invoices, request \in Requests : ReadInvoice(c, i, request)
       \/ Number(c) \/ InsertReturn(c) \/ ReadStock(c) \/ Commit(c) \/ Fail(c)

Spec == Init /\ [][Next]_<<salesVars, returnVars>>

=============================================================================
