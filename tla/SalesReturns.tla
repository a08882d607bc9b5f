---------------------------- MODULE SalesReturns ----------------------------
(***************************************************************************)
(* Sales and what customers bring back: sales-return.service.ts, with as   *)
(* much of an invoice as a return and the reports read.  create is one     *)
(* transaction at READ COMMITTED without a lock; its reads are steps of    *)
(* their own, so cashiers overlap.                                         *)
(*                                                                         *)
(* The number of a return is unique in its day only through an index: the  *)
(* second insert of a number waits for the first transaction and fails if  *)
(* that one commits.  All steps here fall on the day of the returns.       *)
(***************************************************************************)
EXTENDS Integers, Sequences, FiniteSets, FiniteSetsExt, Functions

CONSTANTS
  Cashiers,    \* users whose requests may overlap
  Invoices,    \* invoices, each of one order
  Order,       \* Invoices -> [lines, struck, promos, creator, customer]: what was
               \* ordered, and the day each of its cancelled lines was cancelled
  Recipe,      \* dish -> sequence of ingredients: [item, quantity, selected, factor]
  Items,       \* ingredients in stock
  Opening,     \* Items -> quantity
  Requests,    \* bodies of a return: sequences of [line, qty]
  Payments,    \* what a customer hands over: [method, amount]
  Refunds,     \* the most returns in the register
  LastDay,     \* the calendar of an instance
  Nothing      \* no invoice, no request

\* The columns' types: quantities are positive, prices and amounts never
\* negative (order_items has a CHECK, the DTOs a Min).
ASSUME SalesAssumption ==
  /\ \A i \in Invoices :
       /\ Order[i].lines \in Seq([dish : DOMAIN Recipe, qty : Nat, price : Nat])
       /\ IsFiniteSet(DOMAIN Order[i].promos)
       /\ \A k \in DOMAIN Order[i].promos : Order[i].promos[k].amount \in Nat
  /\ \A dish \in DOMAIN Recipe :
       Recipe[dish] \in Seq([item : Items, quantity : Nat, selected : Nat, factor : Nat])
  /\ Opening \in [Items -> Nat]
  /\ Requests \subseteq Seq([line : Nat, qty : Nat \ {0}])
  /\ \A p \in Payments : p.amount \in Nat

ASSUME BoundsAssumption ==
  IsFiniteSet(Cashiers) /\ Refunds \in Nat /\ LastDay \in Nat \ {0}

VARIABLES
  today,
  sales,       \* Invoices -> the invoice, or Nothing
  returns,     \* committed returns
  stock,       \* Items -> quantity
  moves,       \* the stock log of returns: [number, item, before, after]
  vouchers,    \* refund vouchers of the cashbook: [source, amount, day]
  tx           \* Cashiers -> the request in flight, or Nothing

salesVars == <<today, sales>>
returnVars == <<returns, stock, moves, vouchers, tx>>

SumOver(F(_), S) == SumFunction([x \in S |-> F(x)])

Lines(i) == DOMAIN Order[i].lines
Amount(i, l) == Order[i].lines[l].qty * Order[i].lines[l].price

(***************************************************************************)
(* Sales.                                                                  *)
(***************************************************************************)
\* Cancelled lines are part of the total like any other.
TotalAmount(i) == SumOver(LAMBDA l : Amount(i, l), Lines(i))
DiscountTotal(i) ==
  Min({TotalAmount(i), SumOver(LAMBDA k : Order[i].promos[k].amount, DOMAIN Order[i].promos)})
FinalAmount(i) == TotalAmount(i) - DiscountTotal(i)
PaidSoFar(payments) == SumOver(LAMBDA k : payments[k].amount, DOMAIN payments)
Remaining(i) == FinalAmount(i) - PaidSoFar(sales[i].payments)

\* createFromOrder.
Bill(c, i) ==
  /\ sales[i] = Nothing
  /\ sales' = [sales EXCEPT ![i] = [status |-> "UNPAID", createdAt |-> today, updatedAt |-> today,
                                    payments |-> <<>>, cashier |-> c]]
  /\ UNCHANGED <<today, returnVars>>

\* Seeded fault: a payment is taken in full, however little is left.
TakePaymentUncapped(i, p) ==
  /\ sales[i] # Nothing /\ Remaining(i) > 0
  /\ sales' = [sales EXCEPT ![i].payments = Append(@, [method |-> p.method, amount |-> p.amount, day |-> today]),
                            ![i].status = IF p.amount >= Remaining(i) THEN "PAID" ELSE "PARTIAL",
                            ![i].updatedAt = today]
  /\ UNCHANGED <<today, returnVars>>

\* addPayment: never more than what is left.
TakePayment(i, p) ==
  /\ sales[i] # Nothing /\ Remaining(i) > 0
  /\ LET take == Min({p.amount, Remaining(i)})
     IN sales' = [sales EXCEPT ![i].payments = Append(@, [method |-> p.method, amount |-> take, day |-> today]),
                               ![i].status = IF take = Remaining(i) THEN "PAID" ELSE "PARTIAL",
                               ![i].updatedAt = today]
  /\ UNCHANGED <<today, returnVars>>

NextDay ==
  /\ today < LastDay /\ \A c \in Cashiers : tx[c] = Nothing
  /\ today' = today + 1
  /\ UNCHANGED <<sales, returnVars>>

(***************************************************************************)
(* Returns.                                                                *)
(***************************************************************************)
Of(i) == {r \in returns : r.invoice = i}

\* The rows of a return are a function on positions of its request.
QtyOf(rows, l) == SumOver(LAMBDA k : IF rows[k].line = l THEN rows[k].qty ELSE 0, DOMAIN rows)

Returned(rs, l) == SumOver(LAMBDA r : QtyOf(r.rows, l), rs)

\* Seeded fault: earlier returns are not subtracted.
AcceptedInFull(i, request) ==
  [k \in {j \in DOMAIN request : /\ request[j].line \in Lines(i)
                                 /\ request[j].qty <= Order[i].lines[request[j].line].qty} |->
     request[k]]

\* The rows that are taken: known lines, each cut to what is left of its line.
Accepted(i, request) ==
  LET left(l) == Order[i].lines[l].qty - Returned(Of(i), l)
      take(k) == Min({request[k].qty, left(request[k].line)})
  IN [k \in {j \in DOMAIN request : request[j].line \in Lines(i) /\ take(j) > 0} |->
        [line |-> request[k].line, qty |-> take(k)]]

Goods(i, rows) == SumOver(LAMBDA k : rows[k].qty * Order[i].lines[rows[k].line].price, DOMAIN rows)

\* What one portion takes of an ingredient: the base quantity, else the chosen
\* quantity converted, else nothing.
BasePerMenu(ing) == IF ing.quantity > 0 THEN ing.quantity ELSE ing.selected * ing.factor

PerPortion(dish, x) ==
  SumOver(LAMBDA n : IF Recipe[dish][n].item = x THEN BasePerMenu(Recipe[dish][n]) ELSE 0,
          DOMAIN Recipe[dish])

\* restoreInventoryForSalesReturn: what goes back, per ingredient.
Back(i, rows) ==
  [x \in Items |->
     SumOver(LAMBDA k : rows[k].qty * PerPortion(Order[i].lines[rows[k].line].dish, x), DOMAIN rows)]

\* Seeded fault: numbers by the cashier, so two at once do not meet in the index.
ReturnNumberAny == CHOOSE n \in 1..(2 * Refunds + 2) :
  n \notin {r.number : r \in returns} \cup {tx[c].number : c \in {d \in Cashiers : tx[d] # Nothing}}

\* genReturnNumber: one more than the highest committed number.
ReturnNumber == 1 + Max({0} \cup {r.number : r \in returns})

At(c, step) == tx[c] # Nothing /\ tx[c].at = step

\* create, its reads: the invoice (of any status), its lines and its returns.
ReadInvoice(c, i, request) ==
  /\ tx[c] = Nothing /\ sales[i] # Nothing
  /\ Cardinality(returns) + Cardinality({d \in Cashiers : tx[d] # Nothing}) < Refunds
  /\ DOMAIN Accepted(i, request) # {}
  /\ tx' = [tx EXCEPT ![c] = [at |-> "read", invoice |-> i, rows |-> Accepted(i, request),
                              plain |-> \A j, k \in DOMAIN request :
                                          request[j].line = request[k].line => j = k,
                              seen |-> {r.number : r \in Of(i)},
                              number |-> 0, before |-> Opening]]
  /\ UNCHANGED <<salesVars, returns, stock, moves, vouchers>>

Number(c) ==
  /\ At(c, "read")
  /\ tx' = [tx EXCEPT ![c].at = "numbered", ![c].number = ReturnNumber]
  /\ UNCHANGED <<salesVars, returns, stock, moves, vouchers>>

\* The insert waits while another transaction holds the number, and the whole
\* transaction fails if the number is taken.
InsertReturn(c) ==
  /\ At(c, "numbered")
  /\ \A d \in Cashiers \ {c} : At(d, "inserted") \/ At(d, "counted") => tx[d].number # tx[c].number
  /\ tx' = [tx EXCEPT ![c] = IF \E r \in returns : r.number = tx[c].number
                             THEN Nothing ELSE [@ EXCEPT !.at = "inserted"]]
  /\ UNCHANGED <<salesVars, returns, stock, moves, vouchers>>

ReadStock(c) ==
  /\ At(c, "inserted")
  /\ tx' = [tx EXCEPT ![c].at = "counted", ![c].before = stock]
  /\ UNCHANGED <<salesVars, returns, stock, moves, vouchers>>

\* Seeded fault: no voucher for an invoice that was not fully paid.
VoucherIfPaid(t) ==
  IF sales[t.invoice].status = "PAID"
  THEN {[source |-> t.number, amount |-> Goods(t.invoice, t.rows), day |-> today]} ELSE {}

\* The payment voucher of a refund.
Voucher(t) ==
  IF Goods(t.invoice, t.rows) > 0
  THEN {[source |-> t.number, amount |-> Goods(t.invoice, t.rows), day |-> today]} ELSE {}

\* applyInventoryDeltaForReturn, the refund's voucher, and the commit.
Commit(c) ==
  /\ At(c, "counted")
  /\ LET t == tx[c]
         goods == Goods(t.invoice, t.rows)
         back == Back(t.invoice, t.rows)
         moved == {x \in Items : back[x] > 0}
     IN /\ returns' = returns \cup
             {[number |-> t.number, invoice |-> t.invoice, rows |-> t.rows, refund |-> goods,
               type |-> IF goods = TotalAmount(t.invoice) THEN "FULL" ELSE "PARTIAL", plain |-> t.plain, seen |-> t.seen]}
        /\ stock' = [x \in Items |-> IF x \in moved THEN t.before[x] + back[x] ELSE stock[x]]
        /\ moves' = moves \cup
             {[number |-> t.number, item |-> x, before |-> t.before[x], after |-> t.before[x] + back[x]] :
                x \in moved}
        /\ vouchers' = vouchers \cup Voucher(t)
  /\ tx' = [tx EXCEPT ![c] = Nothing]
  /\ UNCHANGED salesVars

\* CASH_TYPE_NOT_CONFIGURED, NO_CONVERSION_DEFINED or a lost connection: the
\* transaction is rolled back.
Fail(c) ==
  /\ tx[c] # Nothing
  /\ tx' = [tx EXCEPT ![c] = Nothing]
  /\ UNCHANGED <<salesVars, returns, stock, moves, vouchers>>

Init ==
  /\ today = 1
  /\ sales = [i \in Invoices |-> Nothing]
  /\ returns = {} /\ stock = Opening /\ moves = {} /\ vouchers = {}
  /\ tx = [c \in Cashiers |-> Nothing]

ReturnsTypeOK ==
  /\ today \in 1..LastDay
  /\ \A i \in Invoices : sales[i] # Nothing =>
       /\ sales[i].status = (IF sales[i].payments = <<>> THEN "UNPAID"
                             ELSE IF Remaining(i) = 0 THEN "PAID" ELSE "PARTIAL")
       /\ sales[i].createdAt <= sales[i].updatedAt /\ sales[i].updatedAt \in 1..today
  /\ stock \in [Items -> Nat]
  /\ \A r \in returns : r.number \in 1..Refunds /\ r.type \in {"FULL", "PARTIAL"}
  /\ \A c \in Cashiers : tx[c] # Nothing =>
       tx[c].at \in {"read", "numbered", "inserted", "counted"}

(***************************************************************************)
(* The return numbers of the day are 1, 2, 3, ... without a gap, whatever  *)
(* transactions overlap or are rolled back (genReturnNumber and the index).*)
(***************************************************************************)
NumbersInOrder ==
  /\ {r.number : r \in returns} = 1..Cardinality(returns)
  /\ \A c, d \in Cashiers :
       At(c, "inserted") \/ At(c, "counted") =>
         /\ tx[c].number = Cardinality(returns) + 1
         /\ c # d => ~ (At(d, "inserted") \/ At(d, "counted"))

(***************************************************************************)
(* The stock is what the log of the returns adds up to: no return          *)
(* overwrites what another put back, although applyInventoryDeltaForReturn *)
(* reads, adds and writes without a lock.  The unique number is what keeps *)
(* two returns apart.                                                      *)
(***************************************************************************)
StockFollowsLog ==
  \A x \in Items :
    stock[x] = Opening[x] + SumOver(LAMBDA m : m.after - m.before, {m \in moves : m.item = x})

(***************************************************************************)
(* What a return takes back of a line, with the returns it had read, is at *)
(* most what the line sold, if its request does not name a line twice --   *)
(* whatever those other returns took.  (Two requests that overlap do not   *)
(* see each other, and together may take back more.)                       *)
(***************************************************************************)
WithinSold ==
  \A r \in returns :
    LET known == {q \in Of(r.invoice) : q = r \/ q.number \in r.seen}
    IN r.plain => \A k \in DOMAIN r.rows :
         Returned(known, r.rows[k].line) <= Order[r.invoice].lines[r.rows[k].line].qty

(***************************************************************************)
(* Every return with something to refund has its one voucher, of exactly   *)
(* the goods at their prices, and no voucher lacks its return: no failure  *)
(* leaves one without the other.                                           *)
(***************************************************************************)
RefundsBooked ==
  /\ {v.source : v \in vouchers} = {r.number : r \in {q \in returns : q.refund > 0}}
  /\ \A v \in vouchers : \E r \in returns :
       r.number = v.source /\ v.amount = Goods(r.invoice, r.rows)
  /\ Cardinality(vouchers) = Cardinality({v.source : v \in vouchers})

=============================================================================
