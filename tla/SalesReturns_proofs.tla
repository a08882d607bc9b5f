------------------------- MODULE SalesReturns_proofs -------------------------
(***************************************************************************)
(* Theorems about returns, for any number of cashiers, invoices, requests  *)
(* and refunds: the return numbers of a day have no gap and only one       *)
(* return at a time is past its insert, and every refund has its voucher;  *)
(* hence no return loses what another put back in stock, none takes back   *)
(* more than was sold with the returns it saw, and invoices and numbers    *)
(* keep to their columns.                                                  *)
(*                                                                         *)
(* And about the sales reports over them: those of adjoining periods add   *)
(* up, the dashboard is the sum of its parts, and the reports tell one     *)
(* story.                                                                  *)
(***************************************************************************)
EXTENDS SalesReports, SumTheorems

Steps == {"read", "numbered", "inserted", "counted"}

\* A request in flight has the fields ReadInvoice gave it.
RequestsShaped ==
  /\ tx = [c \in Cashiers |-> tx[c]]
  /\ \A c \in Cashiers : tx[c] # Nothing =>
       /\ tx[c].at \in Steps
       /\ tx[c] = [at |-> tx[c].at, invoice |-> tx[c].invoice, rows |-> tx[c].rows, plain |-> tx[c].plain,
                   seen |-> tx[c].seen, number |-> tx[c].number, before |-> tx[c].before]

Numbers == {r.number : r \in returns}

\* A number that was drawn is at most one ahead of the committed ones.
NumbersDrawn ==
  /\ IsFiniteSet(returns)
  /\ \A c \in Cashiers : At(c, "numbered") => tx[c].number \in 1..(Cardinality(returns) + 1)

Sources == {v.source : v \in vouchers}

RefundsHaveVouchers ==
  /\ IsFiniteSet(vouchers) /\ IsFiniteSet(Sources) /\ Cardinality(vouchers) = Cardinality(Sources)
  /\ \A r \in returns : r.refund = Goods(r.invoice, r.rows) /\ (r.refund > 0 => r.number \in Sources)
  /\ \A v \in vouchers : \E r \in returns :
       r.refund > 0 /\ r.number = v.source /\ v.amount = Goods(r.invoice, r.rows)

ReturnsInv == RequestsShaped /\ NumbersDrawn /\ NumbersInOrder /\ RefundsHaveVouchers

----------------------------------------------------------------------------
(* Numbers.                                                                *)

LEMMA HighestNumber ==
  ASSUME NEW n \in Nat
  PROVE  Max({0} \cup 1..n) = n
<1>1. n \in {0} \cup 1..n /\ \A y \in {0} \cup 1..n : n >= y
  OBVIOUS
<1>2. \A x \in {0} \cup 1..n : (\A y \in {0} \cup 1..n : x >= y) => x = n
  <2> SUFFICES ASSUME NEW x \in {0} \cup 1..n, \A y \in {0} \cup 1..n : x >= y
               PROVE  x = n
    OBVIOUS
  <2>1. x >= n /\ n >= x /\ x \in Int
    BY <1>1
  <2> QED
    BY <2>1
<1> QED
  BY <1>1, <1>2 DEF Max

LEMMA NextNumber ==
  ASSUME ReturnsInv
  PROVE  ReturnNumber = Cardinality(returns) + 1 /\ Cardinality(returns) \in Nat
<1>1. Cardinality(returns) \in Nat
  BY FS_CardinalityType DEF ReturnsInv, NumbersDrawn
<1>2. Max({0} \cup {r.number : r \in returns}) = Cardinality(returns)
  BY <1>1, HighestNumber DEF ReturnsInv, NumbersInOrder
<1> QED
  BY <1>1, <1>2 DEF ReturnNumber

----------------------------------------------------------------------------
(* Requests as records.                                                    *)

Flight(at, i, rows, plain, seen, number, before) ==
  [at |-> at, invoice |-> i, rows |-> rows, plain |-> plain, seen |-> seen, number |-> number, before |-> before]

FlightOf(t) == Flight(t.at, t.invoice, t.rows, t.plain, t.seen, t.number, t.before)

LEMMA FlightNumbered ==
  ASSUME NEW t, NEW a, NEW n, t = FlightOf(t)
  PROVE  [t EXCEPT !.at = a, !.number = n] = Flight(a, t.invoice, t.rows, t.plain, t.seen, n, t.before)
<1> DEFINE u == [t EXCEPT !.at = a]
<1>1. u = Flight(a, t.invoice, t.rows, t.plain, t.seen, t.number, t.before)
  BY DEF Flight, FlightOf
<1>2. [t EXCEPT !.at = a, !.number = n] = [u EXCEPT !.number = n]
  OBVIOUS
<1> HIDE DEF u
<1>3. [u EXCEPT !.number = n] = Flight(a, t.invoice, t.rows, t.plain, t.seen, n, t.before)
  BY <1>1 DEF Flight
<1> QED
  BY <1>2, <1>3

LEMMA FlightCounted ==
  ASSUME NEW t, NEW a, NEW b, t = FlightOf(t)
  PROVE  [t EXCEPT !.at = a, !.before = b] = Flight(a, t.invoice, t.rows, t.plain, t.seen, t.number, b)
<1> DEFINE u == [t EXCEPT !.at = a]
<1>1. u = Flight(a, t.invoice, t.rows, t.plain, t.seen, t.number, t.before)
  BY DEF Flight, FlightOf
<1>2. [t EXCEPT !.at = a, !.before = b] = [u EXCEPT !.before = b]
  OBVIOUS
<1> HIDE DEF u
<1>3. [u EXCEPT !.before = b] = Flight(a, t.invoice, t.rows, t.plain, t.seen, t.number, b)
  BY <1>1 DEF Flight
<1> QED
  BY <1>2, <1>3

----------------------------------------------------------------------------
(* The steps.                                                              *)

\* Steps that change one request only.
LEMMA RequestStep ==
  ASSUME ReturnsInv, NEW c \in Cashiers, NEW t, tx' = [tx EXCEPT ![c] = t],
         UNCHANGED <<returns, stock, moves, vouchers>>,
         t # Nothing =>
           /\ t.at \in Steps
           /\ t = [at |-> t.at, invoice |-> t.invoice, rows |-> t.rows, plain |-> t.plain,
                   seen |-> t.seen, number |-> t.number, before |-> t.before]
           /\ t.at = "numbered" => t.number \in 1..(Cardinality(returns) + 1)
           /\ t.at \in {"inserted", "counted"} =>
                /\ t.number = Cardinality(returns) + 1
                /\ \A d \in Cashiers \ {c} : ~(At(d, "inserted") \/ At(d, "counted"))
  PROVE  ReturnsInv'
<1>1. \A d \in Cashiers : tx'[d] = IF d = c THEN t ELSE tx[d]
  BY DEF ReturnsInv, RequestsShaped
<1>2. RequestsShaped'
  <2>1. tx' = [d \in Cashiers |-> tx'[d]]
    BY DEF ReturnsInv, RequestsShaped
  <2> QED
    BY <1>1, <2>1 DEF ReturnsInv, RequestsShaped
<1>3. NumbersDrawn'
  BY <1>1 DEF ReturnsInv, NumbersDrawn, At
<1>4. NumbersInOrder'
  BY <1>1 DEF ReturnsInv, NumbersInOrder, At
<1>5. RefundsHaveVouchers'
  BY DEF ReturnsInv, RefundsHaveVouchers, Sources
<1> QED
  BY <1>2, <1>3, <1>4, <1>5 DEF ReturnsInv

LEMMA ReadKeeps ==
  ASSUME ReturnsInv, NEW c \in Cashiers, NEW i, NEW request, ReadInvoice(c, i, request)
  PROVE  ReturnsInv'
<1> DEFINE t == [at |-> "read", invoice |-> i, rows |-> Accepted(i, request),
                 plain |-> \A j, k \in DOMAIN request : request[j].line = request[k].line => j = k,
                 seen |-> {r.number : r \in Of(i)}, number |-> 0, before |-> Opening]
<1>1. tx' = [tx EXCEPT ![c] = t] /\ UNCHANGED <<returns, stock, moves, vouchers>>
  BY DEF ReadInvoice
<1>2. t.at = "read" /\ t = [at |-> t.at, invoice |-> t.invoice, rows |-> t.rows, plain |-> t.plain,
                           seen |-> t.seen, number |-> t.number, before |-> t.before]
  OBVIOUS
<1> HIDE DEF t
<1> QED
  BY <1>1, <1>2, RequestStep DEF Steps

LEMMA NumberKeeps ==
  ASSUME ReturnsInv, NEW c \in Cashiers, Number(c)
  PROVE  ReturnsInv'
<1> DEFINE t == [tx[c] EXCEPT !.at = "numbered", !.number = ReturnNumber]
<1>1. tx' = [tx EXCEPT ![c] = t] /\ UNCHANGED <<returns, stock, moves, vouchers>>
  BY DEF Number
<1>2. /\ t.at = "numbered" /\ t.number = ReturnNumber
      /\ t = [at |-> t.at, invoice |-> t.invoice, rows |-> t.rows, plain |-> t.plain,
              seen |-> t.seen, number |-> t.number, before |-> t.before]
  <2>1. tx[c] = FlightOf(tx[c])
    BY DEF Number, At, ReturnsInv, RequestsShaped, Flight, FlightOf
  <2>2. t = Flight("numbered", tx[c].invoice, tx[c].rows, tx[c].plain, tx[c].seen, ReturnNumber, tx[c].before)
    BY <2>1, FlightNumbered
  <2> HIDE DEF t
  <2> QED
    BY <2>2 DEF Flight
<1> HIDE DEF t
<1>3. t.number \in 1..(Cardinality(returns) + 1)
  BY <1>2, NextNumber
<1> QED
  BY <1>1, <1>2, <1>3, RequestStep DEF Steps

\* The index and the wait leave one request past its insert, with the next number.
LEMMA InsertKeeps ==
  ASSUME ReturnsInv, NEW c \in Cashiers, InsertReturn(c)
  PROVE  ReturnsInv'
<1> DEFINE t == [tx[c] EXCEPT !.at = "inserted"]
<1>1. CASE \E r \in returns : r.number = tx[c].number
  BY <1>1, RequestStep DEF InsertReturn
<1>2. CASE ~\E r \in returns : r.number = tx[c].number
  <2>1. tx' = [tx EXCEPT ![c] = t] /\ UNCHANGED <<returns, stock, moves, vouchers>>
    BY <1>2 DEF InsertReturn
  <2>2. /\ t.at = "inserted" /\ t.number = tx[c].number
        /\ t = [at |-> t.at, invoice |-> t.invoice, rows |-> t.rows, plain |-> t.plain,
                seen |-> t.seen, number |-> t.number, before |-> t.before]
    BY DEF InsertReturn, At, ReturnsInv, RequestsShaped
  <2> HIDE DEF t
  <2>3. t.number = Cardinality(returns) + 1
    <3>1. tx[c].number \in 1..(Cardinality(returns) + 1) /\ Cardinality(returns) \in Nat
      BY NextNumber DEF InsertReturn, ReturnsInv, NumbersDrawn
    <3>2. tx[c].number \notin 1..Cardinality(returns)
      BY <1>2 DEF ReturnsInv, NumbersInOrder
    <3> QED
      BY <2>2, <3>1, <3>2
  <2>4. \A d \in Cashiers \ {c} : ~(At(d, "inserted") \/ At(d, "counted"))
    BY <2>2, <2>3 DEF InsertReturn, ReturnsInv, NumbersInOrder
  <2> QED
    BY <2>1, <2>2, <2>3, <2>4, RequestStep DEF Steps
<1> QED
  BY <1>1, <1>2

LEMMA ReadStockKeeps ==
  ASSUME ReturnsInv, NEW c \in Cashiers, ReadStock(c)
  PROVE  ReturnsInv'
<1> DEFINE t == [tx[c] EXCEPT !.at = "counted", !.before = stock]
<1>1. tx' = [tx EXCEPT ![c] = t] /\ UNCHANGED <<returns, stock, moves, vouchers>>
  BY DEF ReadStock
<1>2. /\ t.at = "counted" /\ t.number = tx[c].number
      /\ t = [at |-> t.at, invoice |-> t.invoice, rows |-> t.rows, plain |-> t.plain,
              seen |-> t.seen, number |-> t.number, before |-> t.before]
  <2>1. tx[c] = FlightOf(tx[c])
    BY DEF ReadStock, At, ReturnsInv, RequestsShaped, Flight, FlightOf
  <2>2. t = Flight("counted", tx[c].invoice, tx[c].rows, tx[c].plain, tx[c].seen, tx[c].number, stock)
    BY <2>1, FlightCounted
  <2> HIDE DEF t
  <2> QED
    BY <2>2 DEF Flight
<1> HIDE DEF t
<1>3. /\ t.number = Cardinality(returns) + 1
      /\ \A d \in Cashiers \ {c} : ~(At(d, "inserted") \/ At(d, "counted"))
  BY <1>2 DEF ReadStock, ReturnsInv, NumbersInOrder
<1> QED
  BY <1>1, <1>2, <1>3, RequestStep DEF Steps

LEMMA FailKeeps ==
  ASSUME ReturnsInv, NEW c \in Cashiers, Fail(c)
  PROVE  ReturnsInv'
BY RequestStep DEF Fail

\* The commit adds the return with the next number, and its voucher.
LEMMA CommitKeeps ==
  ASSUME ReturnsInv, NEW c \in Cashiers, Commit(c)
  PROVE  ReturnsInv'
<1> DEFINE t == tx[c]  n == Cardinality(returns)  goods == Goods(t.invoice, t.rows)
           new == [number |-> t.number, invoice |-> t.invoice, rows |-> t.rows, refund |-> goods,
                   type |-> IF goods = TotalAmount(t.invoice) THEN "FULL" ELSE "PARTIAL",
                   plain |-> t.plain, seen |-> t.seen]
           paper == [source |-> t.number, amount |-> goods, day |-> today]
<1>1. /\ returns' = returns \cup {new} /\ vouchers' = vouchers \cup Voucher(t)
      /\ tx' = [tx EXCEPT ![c] = Nothing]
  BY DEF Commit
<1>2. new.number = t.number /\ new.refund = goods /\ new.invoice = t.invoice /\ new.rows = t.rows
  OBVIOUS
<1>3. paper.source = t.number /\ paper.amount = goods
  OBVIOUS
<1>4. Voucher(t) = IF goods > 0 THEN {paper} ELSE {}
  BY DEF Voucher
<1> HIDE DEF new, paper
<1>5. n \in Nat /\ t.number = n + 1 /\ Numbers = 1..n /\ IsFiniteSet(returns)
      /\ \A d \in Cashiers \ {c} : ~(At(d, "inserted") \/ At(d, "counted"))
  BY NextNumber DEF Commit, ReturnsInv, NumbersInOrder, NumbersDrawn, Numbers
<1>6. t.number \notin Numbers /\ new \notin returns
  <2>1. t.number \notin Numbers
    BY <1>5
  <2>2. new \in returns => new.number \in Numbers
    BY DEF Numbers
  <2> QED
    BY <1>2, <2>1, <2>2
<1>7. IsFiniteSet(returns') /\ Cardinality(returns') = n + 1
  BY <1>1, <1>5, <1>6, FS_AddElement
<1>8. Numbers' = 1..(n + 1)
  <2>1. Numbers' = Numbers \cup {n + 1}
    BY <1>1, <1>2, <1>5 DEF Numbers
  <2> QED
    BY <1>5, <2>1
<1>9. \A d \in Cashiers : tx'[d] = IF d = c THEN Nothing ELSE tx[d]
  BY <1>1 DEF ReturnsInv, RequestsShaped
<1>10. RequestsShaped'
  <2>1. tx' = [d \in Cashiers |-> tx'[d]]
    BY <1>1 DEF ReturnsInv, RequestsShaped
  <2> QED
    BY <1>9, <2>1 DEF ReturnsInv, RequestsShaped
<1>11. NumbersDrawn'
  <2>1. \A d \in Cashiers : At(d, "numbered")' => At(d, "numbered") /\ tx'[d].number = tx[d].number
    BY <1>9 DEF At
  <2>2. \A k \in 1..(n + 1) : k \in 1..((n + 1) + 1)
    BY <1>5
  <2> QED
    BY <1>7, <2>1, <2>2 DEF NumbersDrawn, ReturnsInv
<1>12. NumbersInOrder'
  <2>1. \A d \in Cashiers : ~(At(d, "inserted") \/ At(d, "counted"))'
    BY <1>5, <1>9 DEF At
  <2> QED
    BY <1>7, <1>8, <2>1 DEF NumbersInOrder, Numbers
<1>13. RefundsHaveVouchers'
  <2>1. Sources \subseteq Numbers
    BY DEF ReturnsInv, RefundsHaveVouchers, Sources, Numbers
  <2>2. CASE goods > 0
    <3>1. vouchers' = vouchers \cup {paper} /\ Sources' = Sources \cup {t.number}
      BY <1>1, <1>3, <1>4, <2>2 DEF Sources
    <3>2. t.number \notin Sources /\ paper \notin vouchers
      BY <1>3, <1>6, <2>1 DEF Sources
    <3>3. IsFiniteSet(vouchers') /\ IsFiniteSet(Sources') /\ Cardinality(vouchers') = Cardinality(Sources')
      <4>1. IsFiniteSet(vouchers) /\ IsFiniteSet(Sources) /\ Cardinality(vouchers) = Cardinality(Sources)
        BY DEF ReturnsInv, RefundsHaveVouchers
      <4>2. IsFiniteSet(vouchers') /\ Cardinality(vouchers') = Cardinality(vouchers) + 1
        BY <3>1, <3>2, <4>1, FS_AddElement
      <4>3. IsFiniteSet(Sources') /\ Cardinality(Sources') = Cardinality(Sources) + 1
        BY <3>1, <3>2, <4>1, FS_AddElement
      <4> QED
        BY <4>1, <4>2, <4>3
    <3>4. \A r \in returns' : r.refund = Goods(r.invoice, r.rows) /\ (r.refund > 0 => r.number \in Sources')
      BY <1>1, <1>2, <3>1 DEF ReturnsInv, RefundsHaveVouchers
    <3>5. \A v \in vouchers' : \E r \in returns' :
            r.refund > 0 /\ r.number = v.source /\ v.amount = Goods(r.invoice, r.rows)
      BY <1>1, <1>2, <1>3, <2>2, <3>1 DEF ReturnsInv, RefundsHaveVouchers
    <3> QED
      BY <3>3, <3>4, <3>5 DEF RefundsHaveVouchers
  <2>3. CASE ~(goods > 0)
    <3>1. vouchers' = vouchers /\ Sources' = Sources
      BY <1>1, <1>4, <2>3 DEF Sources
    <3> QED
      BY <1>1, <1>2, <2>3, <3>1 DEF ReturnsInv, RefundsHaveVouchers
  <2> QED
    BY <2>2, <2>3
<1> QED
  BY <1>10, <1>11, <1>12, <1>13 DEF ReturnsInv

----------------------------------------------------------------------------
(* The theorems.                                                           *)

LEMMA InitOK == Init => ReturnsInv
<1> SUFFICES ASSUME Init PROVE ReturnsInv
  OBVIOUS
<1>1. returns = {} /\ vouchers = {} /\ tx = [c \in Cashiers |-> Nothing]
  BY DEF Init
<1>2. Sources = {} /\ {r.number : r \in returns} = {} /\ 1..0 = {}
  BY <1>1 DEF Sources
<1>3. IsFiniteSet({}) /\ Cardinality({}) = 0
  BY FS_EmptySet
<1> QED
  BY <1>1, <1>2, <1>3 DEF ReturnsInv, RequestsShaped, NumbersDrawn, NumbersInOrder, RefundsHaveVouchers, At

LEMMA StepOK ==
  ASSUME ReturnsInv, [Next]_<<salesVars, returnVars>>
  PROVE  ReturnsInv'
<1>1. ASSUME UNCHANGED returnVars
      PROVE  ReturnsInv'
  BY <1>1 DEF returnVars, ReturnsInv, RequestsShaped, NumbersDrawn, NumbersInOrder, RefundsHaveVouchers, At, Sources
<1>2. CASE UNCHANGED <<salesVars, returnVars>>
  BY <1>1, <1>2
<1>3. CASE NextDay
  BY <1>1, <1>3 DEF NextDay
<1>4. ASSUME NEW i \in Invoices, NEW p \in Payments, TakePayment(i, p)
      PROVE  ReturnsInv'
  BY <1>1, <1>4 DEF TakePayment
<1>5. ASSUME NEW c \in Cashiers, NEW i \in Invoices, Bill(c, i)
      PROVE  ReturnsInv'
  BY <1>1, <1>5 DEF Bill
<1>6. ASSUME NEW c \in Cashiers, NEW i \in Invoices, NEW request \in Requests, ReadInvoice(c, i, request)
      PROVE  ReturnsInv'
  BY <1>6, ReadKeeps
<1>7. ASSUME NEW c \in Cashiers, Number(c) \/ InsertReturn(c) \/ ReadStock(c) \/ Commit(c) \/ Fail(c)
      PROVE  ReturnsInv'
  BY <1>7, NumberKeeps, InsertKeeps, ReadStockKeeps, CommitKeeps, FailKeeps
<1> QED
  BY <1>2, <1>3, <1>4, <1>5, <1>6, <1>7 DEF Next

LEMMA Invariance == Spec => []ReturnsInv
<1>1. ReturnsInv /\ [Next]_<<salesVars, returnVars>> => ReturnsInv'
  BY StepOK
<1> QED
  BY InitOK, <1>1, PTL DEF Spec

\* genReturnNumber with the unique index: the numbers of a day follow each other,
\* and no two returns are past their insert at once.
THEOREM ReturnNumbersInOrder == Spec => []NumbersInOrder
<1>1. ReturnsInv => NumbersInOrder
  BY DEF ReturnsInv
<1> QED
  BY Invariance, <1>1, PTL

\* create and createRefundVoucher: a refund has its one voucher, of its amount,
\* and a voucher its return, whatever fails in between.
THEOREM RefundsAreBooked == Spec => []RefundsBooked
<1>1. ReturnsInv => RefundsBooked
  <2> SUFFICES ASSUME ReturnsInv PROVE RefundsBooked
    OBVIOUS
  <2>1. {v.source : v \in vouchers} = {r.number : r \in {q \in returns : q.refund > 0}}
    BY DEF ReturnsInv, RefundsHaveVouchers, Sources
  <2> QED
    BY <2>1 DEF ReturnsInv, RefundsHaveVouchers, RefundsBooked, Sources
<1> QED
  BY Invariance, <1>1, PTL

----------------------------------------------------------------------------
(* What the rows of a return add up to.                                    *)

LEMMA MinOfTwo ==
  ASSUME NEW a \in Int, NEW b \in Int
  PROVE  Min({a, b}) \in {a, b} /\ Min({a, b}) <= a /\ Min({a, b}) <= b
<1>1. \E x \in {a, b} : \A y \in {a, b} : x <= y
  <2>1. CASE a <= b
    BY <2>1
  <2>2. CASE b <= a
    BY <2>2
  <2> QED
    BY <2>1, <2>2
<1> QED
  BY <1>1 DEF Min

LEMMA SequenceFacts ==
  ASSUME NEW S, NEW s \in Seq(S)
  PROVE  /\ Len(s) \in Nat /\ DOMAIN s = 1..Len(s) /\ IsFiniteSet(DOMAIN s)
         /\ \A k \in DOMAIN s : s[k] \in S
<1>1. Len(s) \in Nat /\ DOMAIN s = 1..Len(s) /\ \A k \in DOMAIN s : s[k] \in S
  OBVIOUS
<1>2. IsFiniteSet(1..Len(s))
  BY <1>1, FS_Interval
<1> QED
  BY <1>1, <1>2

LEMMA Products == \A a, b \in Nat : a * b \in Nat
OBVIOUS

RowsOK(i, rows) ==
  /\ IsFiniteSet(DOMAIN rows)
  /\ \A k \in DOMAIN rows : rows[k].line \in Lines(i) /\ rows[k].qty \in Nat

LEMMA QtyOfType ==
  ASSUME NEW i, NEW rows, RowsOK(i, rows), NEW l
  PROVE  QtyOf(rows, l) \in Nat
<1> DEFINE f == [k \in DOMAIN rows |-> IF rows[k].line = l THEN rows[k].qty ELSE 0]
<1>1. \A k \in DOMAIN rows : f[k] \in Nat
  BY DEF RowsOK
<1>2. QtyOf(rows, l) = SumFunctionOnSet(f, DOMAIN rows)
  BY DEF QtyOf, SumOver, SumFunction
<1> HIDE DEF f
<1> QED
  BY <1>1, <1>2, SumNat DEF RowsOK

\* A line that one row names has that row's quantity.
LEMMA QtyOfOne ==
  ASSUME NEW i, NEW rows, RowsOK(i, rows), NEW k \in DOMAIN rows,
         \A j \in DOMAIN rows : rows[j].line = rows[k].line => j = k
  PROVE  QtyOf(rows, rows[k].line) = rows[k].qty
<1> DEFINE l == rows[k].line
           f == [j \in DOMAIN rows |-> IF rows[j].line = l THEN rows[j].qty ELSE 0]
<1>1. /\ \A j \in DOMAIN rows : f[j] \in Int
      /\ \A j \in (DOMAIN rows) \ {k} : f[j] = 0
      /\ f[k] = rows[k].qty /\ IsFiniteSet(DOMAIN rows)
  BY DEF RowsOK
<1>2. QtyOf(rows, l) = SumFunctionOnSet(f, DOMAIN rows)
  BY DEF QtyOf, SumOver, SumFunction
<1> HIDE DEF f
<1>3. SumFunctionOnSet(f, DOMAIN rows) = SumFunctionOnSet(f, {k})
  BY <1>1, SumPart
<1>4. SumFunctionOnSet(f, {k}) = f[k] + SumFunctionOnSet(f, {})
  <2>1. IsFiniteSet({}) /\ {} \cup {k} = {k}
    BY FS_EmptySet
  <2> QED
    BY <1>1, <2>1, SumAdd
<1>5. rows[k].qty \in Nat
  BY DEF RowsOK
<1> QED
  BY <1>1, <1>2, <1>3, <1>4, <1>5, SumEmpty

LEMMA ReturnedType ==
  ASSUME NEW rs, IsFiniteSet(rs), \A r \in rs : RowsOK(r.invoice, r.rows), NEW l
  PROVE  Returned(rs, l) \in Nat
<1> DEFINE f == [r \in rs |-> QtyOf(r.rows, l)]
<1>1. \A r \in rs : f[r] \in Nat
  BY QtyOfType
<1>2. Returned(rs, l) = SumFunctionOnSet(f, rs)
  BY DEF Returned, SumOver, SumFunction
<1> HIDE DEF f
<1> QED
  BY <1>1, <1>2, SumNat

LEMMA ReturnedAdd ==
  ASSUME NEW rs, IsFiniteSet(rs), NEW q, q \notin rs,
         \A r \in rs \cup {q} : RowsOK(r.invoice, r.rows), NEW l
  PROVE  Returned(rs \cup {q}, l) = QtyOf(q.rows, l) + Returned(rs, l)
<1> DEFINE f == [r \in rs \cup {q} |-> QtyOf(r.rows, l)]
           h == [r \in rs |-> QtyOf(r.rows, l)]
<1>1. /\ \A r \in rs \cup {q} : f[r] \in Int
      /\ \A r \in rs : f[r] = h[r]
      /\ f[q] = QtyOf(q.rows, l)
  <2>1. \A r \in rs \cup {q} : QtyOf(r.rows, l) \in Nat
    BY QtyOfType
  <2> QED
    BY <2>1
<1>2. /\ Returned(rs \cup {q}, l) = SumFunctionOnSet(f, rs \cup {q})
      /\ Returned(rs, l) = SumFunctionOnSet(h, rs)
  BY DEF Returned, SumOver, SumFunction
<1> HIDE DEF f, h
<1>3. SumFunctionOnSet(f, rs \cup {q}) = f[q] + SumFunctionOnSet(f, rs)
  BY <1>1, SumAdd
<1>4. SumFunctionOnSet(f, rs) = SumFunctionOnSet(h, rs)
  BY <1>1, SumSame
<1> QED
  BY <1>1, <1>2, <1>3, <1>4

LEMMA PerPortionType ==
  ASSUME NEW dish \in DOMAIN Recipe, NEW x
  PROVE  PerPortion(dish, x) \in Nat
<1> DEFINE ing == Recipe[dish]
           f == [n \in DOMAIN ing |-> IF ing[n].item = x THEN BasePerMenu(ing[n]) ELSE 0]
<1>1. ing \in Seq([item : Items, quantity : Nat, selected : Nat, factor : Nat])
  BY SalesAssumption
<1>2. /\ IsFiniteSet(DOMAIN ing)
      /\ \A n \in DOMAIN ing : ing[n] \in [item : Items, quantity : Nat, selected : Nat, factor : Nat]
  BY <1>1, SequenceFacts
<1>3. \A n \in DOMAIN ing : f[n] \in Nat
  <2> SUFFICES ASSUME NEW n \in DOMAIN ing PROVE BasePerMenu(ing[n]) \in Nat
    OBVIOUS
  <2> DEFINE g == ing[n]
  <2>1. g.quantity \in Nat /\ g.selected \in Nat /\ g.factor \in Nat
    BY <1>2
  <2> HIDE DEF g
  <2>2. BasePerMenu(g) \in Nat
    BY <2>1, Products DEF BasePerMenu
  <2> QED
    BY <2>2 DEF g
<1>4. PerPortion(dish, x) = SumFunctionOnSet(f, DOMAIN ing)
  BY DEF PerPortion, SumOver, SumFunction
<1> HIDE DEF f, ing
<1> QED
  BY <1>2, <1>3, <1>4, SumNat

LEMMA LineType ==
  ASSUME NEW i \in Invoices, NEW l \in Lines(i)
  PROVE  /\ Order[i].lines[l].dish \in DOMAIN Recipe
         /\ Order[i].lines[l].qty \in Nat /\ Order[i].lines[l].price \in Nat
<1>1. Order[i].lines \in Seq([dish : DOMAIN Recipe, qty : Nat, price : Nat])
  BY SalesAssumption
<1>2. Order[i].lines[l] \in [dish : DOMAIN Recipe, qty : Nat, price : Nat]
  BY <1>1, SequenceFacts DEF Lines
<1> QED
  BY <1>2

LEMMA BackType ==
  ASSUME NEW i \in Invoices, NEW rows, RowsOK(i, rows)
  PROVE  Back(i, rows) \in [Items -> Nat]
<1> SUFFICES ASSUME NEW x \in Items PROVE Back(i, rows)[x] \in Nat
  BY DEF Back
<1> DEFINE f == [k \in DOMAIN rows |->
                   rows[k].qty * PerPortion(Order[i].lines[rows[k].line].dish, x)]
<1>1. \A k \in DOMAIN rows : f[k] \in Nat
  <2> SUFFICES ASSUME NEW k \in DOMAIN rows
               PROVE  rows[k].qty * PerPortion(Order[i].lines[rows[k].line].dish, x) \in Nat
    OBVIOUS
  <2>1. rows[k].qty \in Nat /\ Order[i].lines[rows[k].line].dish \in DOMAIN Recipe
    BY LineType DEF RowsOK
  <2>2. PerPortion(Order[i].lines[rows[k].line].dish, x) \in Nat
    BY <2>1, PerPortionType
  <2> QED
    BY <2>1, <2>2, Products
<1>2. Back(i, rows)[x] = SumFunctionOnSet(f, DOMAIN rows)
  BY DEF Back, SumOver, SumFunction
<1> HIDE DEF f
<1> QED
  BY <1>1, <1>2, SumNat DEF RowsOK

----------------------------------------------------------------------------
(* What a return takes is what its request may take.                       *)

\* The returns of an invoice that a request has read.
Known(i, seen) == {q \in Of(i) : q.number \in seen}

\* No line is taken beyond what it sold, counting the returns that were read.
Fits(i, rows, seen) ==
  \A k \in DOMAIN rows :
    Returned(Known(i, seen), rows[k].line) + QtyOf(rows, rows[k].line)
      <= Order[i].lines[rows[k].line].qty

\* Of a request in flight and of the return it becomes.
Sound(t) ==
  /\ t.invoice \in Invoices /\ RowsOK(t.invoice, t.rows) /\ t.seen \subseteq Numbers
  /\ t.plain => Fits(t.invoice, t.rows, t.seen)

TakenFits ==
  /\ \A c \in Cashiers : tx[c] # Nothing => Sound(tx[c])
  /\ \A r \in returns : Sound(r) /\ r.number \notin r.seen

LEMMA OfRows ==
  ASSUME ReturnsInv, TakenFits, NEW i, NEW rs, rs \subseteq Of(i)
  PROVE  IsFiniteSet(rs) /\ \A r \in rs : RowsOK(r.invoice, r.rows)
<1>1. rs \subseteq returns
  BY DEF Of
<1> QED
  BY <1>1, FS_Subset DEF ReturnsInv, NumbersDrawn, TakenFits, Sound

LEMMA AcceptedFits ==
  ASSUME ReturnsInv, TakenFits, NEW i \in Invoices, NEW request \in Requests
  PROVE  LET rows == Accepted(i, request)
             seen == {r.number : r \in Of(i)}
         IN /\ RowsOK(i, rows) /\ seen \subseteq Numbers
            /\ (\A j, k \in DOMAIN request : request[j].line = request[k].line => j = k)
                 => Fits(i, rows, seen)
<1> DEFINE rows == Accepted(i, request)
           seen == {r.number : r \in Of(i)}
           left(l) == Order[i].lines[l].qty - Returned(Of(i), l)
           take(k) == Min({request[k].qty, left(request[k].line)})
<1>1. /\ DOMAIN rows = {j \in DOMAIN request : request[j].line \in Lines(i) /\ take(j) > 0}
      /\ \A k \in DOMAIN rows : rows[k] = [line |-> request[k].line, qty |-> take(k)]
  BY DEF Accepted
<1>2. /\ IsFiniteSet(DOMAIN request)
      /\ \A k \in DOMAIN request : request[k].qty \in Nat
  <2>1. request \in Seq([line : Nat, qty : Nat \ {0}])
    BY SalesAssumption
  <2>2. /\ IsFiniteSet(DOMAIN request)
        /\ \A k \in DOMAIN request : request[k] \in [line : Nat, qty : Nat \ {0}]
    BY <2>1, SequenceFacts
  <2> QED
    BY <2>2
<1>3. \A l : Returned(Of(i), l) \in Nat
  BY OfRows, ReturnedType
<1> HIDE DEF rows
<1>4. ASSUME NEW k \in DOMAIN rows
      PROVE  /\ k \in DOMAIN request
             /\ rows[k].line = request[k].line /\ rows[k].line \in Lines(i)
             /\ rows[k].qty \in Nat
             /\ rows[k].qty + Returned(Of(i), rows[k].line) <= Order[i].lines[rows[k].line].qty
  <2> DEFINE l == request[k].line
             a == request[k].qty
             b == left(l)
             n == Min({a, b})
  <2>1. k \in DOMAIN request /\ l \in Lines(i) /\ n > 0 /\ rows[k] = [line |-> l, qty |-> n]
    BY <1>1, Zenon
  <2>2. b = Order[i].lines[l].qty - Returned(Of(i), l)
    OBVIOUS
  <2>3. a \in Nat
    BY <1>2, <2>1
  <2> HIDE DEF l, a, b, n
  <2>4. Order[i].lines[l].qty \in Nat /\ Returned(Of(i), l) \in Nat
    BY <1>3, <2>1, LineType
  <2>5. b \in Int /\ a \in Int
    BY <2>2, <2>3, <2>4
  <2>6. n \in Int /\ n <= b
    BY <2>5, MinOfTwo DEF n
  <2>7. n \in Nat /\ n + Returned(Of(i), l) <= Order[i].lines[l].qty
    BY <2>1, <2>2, <2>4, <2>6
  <2>8. rows[k].line = l /\ rows[k].qty = n
    BY <2>1
  <2> QED
    BY <2>1, <2>7, <2>8 DEF l
<1>5. RowsOK(i, rows)
  <2>1. IsFiniteSet(DOMAIN rows)
    BY <1>2, <1>4, FS_Subset
  <2> QED
    BY <1>4, <2>1 DEF RowsOK
<1>6. seen \subseteq Numbers
  BY DEF Of, Numbers
<1>7. Known(i, seen) = Of(i)
  BY DEF Known
<1>8. ASSUME \A j, k \in DOMAIN request : request[j].line = request[k].line => j = k
      PROVE  Fits(i, rows, seen)
  <2> SUFFICES ASSUME NEW k \in DOMAIN rows
               PROVE  Returned(Of(i), rows[k].line) + QtyOf(rows, rows[k].line)
                        <= Order[i].lines[rows[k].line].qty
    BY <1>7 DEF Fits
  <2>1. \A j \in DOMAIN rows : rows[j].line = rows[k].line => j = k
    BY <1>4, <1>8
  <2>2. QtyOf(rows, rows[k].line) = rows[k].qty
    BY <1>5, <2>1, QtyOfOne
  <2>3. rows[k].qty \in Nat /\ Returned(Of(i), rows[k].line) \in Nat
    BY <1>3, <1>4
  <2> QED
    BY <1>4, <2>2, <2>3
<1> QED
  BY <1>5, <1>6, <1>8 DEF rows

\* Where no return is added, what fits stays fitting.
LEMMA FlightStep ==
  ASSUME ReturnsInv, TakenFits, returns' = returns, NEW c \in Cashiers, NEW t,
         tx' = [tx EXCEPT ![c] = t], t = Nothing \/ Sound(t)
  PROVE  TakenFits'
<1>1. \A d \in Cashiers : tx'[d] = IF d = c THEN t ELSE tx[d]
  BY DEF ReturnsInv, RequestsShaped
<1>2. ASSUME NEW u, Sound(u) PROVE Sound(u)'
  BY <1>2 DEF Sound, Numbers, Fits, Known, Of
<1> QED
  BY <1>1, <1>2 DEF TakenFits

LEMMA ReadTakes ==
  ASSUME ReturnsInv, TakenFits, NEW c \in Cashiers, NEW i \in Invoices, NEW request \in Requests,
         ReadInvoice(c, i, request)
  PROVE  TakenFits'
<1> DEFINE plain == \A j, k \in DOMAIN request : request[j].line = request[k].line => j = k
           rows == Accepted(i, request)
           seen == {r.number : r \in Of(i)}
           t == [at |-> "read", invoice |-> i, rows |-> rows, plain |-> plain,
                 seen |-> seen, number |-> 0, before |-> Opening]
<1>1. tx' = [tx EXCEPT ![c] = t] /\ returns' = returns
  BY DEF ReadInvoice
<1>2. RowsOK(i, rows) /\ seen \subseteq Numbers /\ (plain => Fits(i, rows, seen))
  BY AcceptedFits
<1>3. t.invoice = i /\ t.rows = rows /\ t.seen = seen /\ t.plain = plain
  OBVIOUS
<1> HIDE DEF t, rows, seen, plain
<1>4. Sound(t)
  BY <1>2, <1>3 DEF Sound
<1> QED
  BY <1>1, <1>4, FlightStep

----------------------------------------------------------------------------
(* The stock is what the log adds up to.                                   *)

Logged(x) == {m \in moves : m.item = x}

Net(x) == SumFunctionOnSet([m \in Logged(x) |-> m.after - m.before], Logged(x))

LEMMA LogIsNet == StockFollowsLog <=> \A x \in Items : stock[x] = Opening[x] + Net(x)
BY DEF StockFollowsLog, SumOver, SumFunction, Net, Logged

\* Only one return at a time is past its reading of the stock, so what it read
\* is still the stock when it writes.
StockLogged ==
  /\ stock \in [Items -> Nat]
  /\ \A c \in Cashiers : At(c, "counted") => tx[c].before = stock
  /\ \A m \in moves : m.number \in Numbers /\ m.before \in Nat /\ m.after \in Nat
  /\ \A x \in Items : IsFiniteSet(Logged(x))
  /\ \A x \in Items : stock[x] = Opening[x] + Net(x)

Busy == {c \in Cashiers : tx[c] # Nothing}

WithinRefunds == Cardinality(returns) + Cardinality(Busy) <= Refunds

FlowInv == TakenFits /\ StockLogged /\ WithinRefunds

LEMMA BusyType == IsFiniteSet(Busy) /\ Cardinality(Busy) \in Nat
<1>1. Busy \subseteq Cashiers
  BY DEF Busy
<1> QED
  BY <1>1, BoundsAssumption, FS_Subset, FS_CardinalityType

\* A request goes on, or gives up.
LEMMA AdvanceKeeps ==
  ASSUME ReturnsInv, FlowInv, NEW c \in Cashiers, tx[c] # Nothing, NEW t,
         tx' = [tx EXCEPT ![c] = t], UNCHANGED <<returns, stock, moves>>,
         \/ t = Nothing
         \/ /\ t.invoice = tx[c].invoice /\ t.rows = tx[c].rows
            /\ t.seen = tx[c].seen /\ t.plain = tx[c].plain
            /\ t.at = "counted" => t.before = stock
  PROVE  FlowInv'
<1>1. \A d \in Cashiers : tx'[d] = IF d = c THEN t ELSE tx[d]
  BY DEF ReturnsInv, RequestsShaped
<1>2. TakenFits'
  <2>1. t = Nothing \/ Sound(t)
    BY DEF FlowInv, TakenFits, Sound
  <2> QED
    BY <2>1, FlightStep DEF FlowInv
<1>3. StockLogged'
  <2>1. \A d \in Cashiers : At(d, "counted")' => tx'[d].before = stock
    BY <1>1 DEF FlowInv, StockLogged, At
  <2>2. Numbers' = Numbers /\ \A x \in Items : Logged(x)' = Logged(x)
    BY DEF Numbers, Logged
  <2>3. \A x \in Items : stock'[x] = Opening[x] + Net(x)'
    BY <2>2 DEF FlowInv, StockLogged, Net
  <2> QED
    BY <2>1, <2>2, <2>3 DEF FlowInv, StockLogged
<1>4. WithinRefunds'
  <2>1. Busy' \subseteq Busy
    BY <1>1 DEF Busy
  <2>2. Cardinality(Busy') <= Cardinality(Busy) /\ Cardinality(Busy') \in Nat
    BY <2>1, BusyType, FS_Subset, FS_CardinalityType
  <2>3. Cardinality(returns) \in Nat /\ Refunds \in Nat
    BY NextNumber, BoundsAssumption
  <2> QED
    BY <2>2, <2>3, BusyType DEF FlowInv, WithinRefunds
<1> QED
  BY <1>2, <1>3, <1>4 DEF FlowInv

LEMMA ReadFlows ==
  ASSUME ReturnsInv, FlowInv, NEW c \in Cashiers, NEW i \in Invoices, NEW request \in Requests,
         ReadInvoice(c, i, request)
  PROVE  FlowInv'
<1>1. TakenFits'
  BY ReadTakes DEF FlowInv
<1>2. PICK t : tx' = [tx EXCEPT ![c] = t] /\ t.at = "read"
  <2> DEFINE u == [at |-> "read", invoice |-> i, rows |-> Accepted(i, request),
                   plain |-> \A j, k \in DOMAIN request :
                               request[j].line = request[k].line => j = k,
                   seen |-> {r.number : r \in Of(i)},
                   number |-> 0, before |-> Opening]
  <2>1. tx' = [tx EXCEPT ![c] = u]
    BY DEF ReadInvoice
  <2>2. u.at = "read"
    OBVIOUS
  <2> HIDE DEF u
  <2> QED
    BY <2>1, <2>2
<1>3. \A d \in Cashiers : tx'[d] = IF d = c THEN t ELSE tx[d]
  BY <1>2 DEF ReturnsInv, RequestsShaped
<1>4. UNCHANGED <<returns, stock, moves>>
  BY DEF ReadInvoice
<1>5. StockLogged'
  <2>1. \A d \in Cashiers : At(d, "counted")' => tx'[d].before = stock
    BY <1>2, <1>3 DEF FlowInv, StockLogged, At
  <2>2. Numbers' = Numbers /\ \A x \in Items : Logged(x)' = Logged(x)
    BY <1>4 DEF Numbers, Logged
  <2>3. \A x \in Items : stock'[x] = Opening[x] + Net(x)'
    BY <1>4, <2>2 DEF FlowInv, StockLogged, Net
  <2> QED
    BY <1>4, <2>1, <2>2, <2>3 DEF FlowInv, StockLogged
<1>6. WithinRefunds'
  <2>1. Busy' \subseteq Busy \cup {c}
    BY <1>3 DEF Busy
  <2>2. c \notin Busy
    BY DEF ReadInvoice, Busy
  <2>3. /\ IsFiniteSet(Busy \cup {c})
        /\ Cardinality(Busy \cup {c}) = Cardinality(Busy) + 1
    BY <2>2, BusyType, FS_AddElement
  <2>4. Cardinality(Busy') <= Cardinality(Busy) + 1 /\ Cardinality(Busy') \in Nat
    BY <2>1, <2>3, FS_Subset, FS_CardinalityType
  <2>5. Cardinality(returns) + Cardinality(Busy) < Refunds
    BY DEF ReadInvoice, Busy
  <2>6. Cardinality(returns) \in Nat /\ Refunds \in Nat
    BY NextNumber, BoundsAssumption
  <2> QED
    BY <1>4, <2>4, <2>5, <2>6, BusyType DEF WithinRefunds
<1> QED
  BY <1>1, <1>5, <1>6 DEF FlowInv

LEMMA StepsFlow ==
  ASSUME ReturnsInv, FlowInv, NEW c \in Cashiers,
         Number(c) \/ InsertReturn(c) \/ ReadStock(c) \/ Fail(c)
  PROVE  FlowInv'
<1> DEFINE u == tx[c]
<1>1. u # Nothing /\ UNCHANGED <<returns, stock, moves>>
  BY DEF Number, InsertReturn, ReadStock, Fail, At
<1>2. u = FlightOf(u)
  BY <1>1 DEF ReturnsInv, RequestsShaped, Flight, FlightOf
<1>3. CASE Number(c)
  <2>1. tx' = [tx EXCEPT ![c] = [u EXCEPT !.at = "numbered", !.number = ReturnNumber]]
    BY <1>3 DEF Number
  <2>2. [u EXCEPT !.at = "numbered", !.number = ReturnNumber]
          = Flight("numbered", u.invoice, u.rows, u.plain, u.seen, ReturnNumber, u.before)
    BY <1>2, FlightNumbered
  <2> QED
    BY <1>1, <2>1, <2>2, AdvanceKeeps DEF Flight
<1>4. CASE InsertReturn(c)
  <2> DEFINE t == [u EXCEPT !.at = "inserted"]
  <2>1. tx' = [tx EXCEPT ![c] = Nothing] \/ tx' = [tx EXCEPT ![c] = t]
    BY <1>4 DEF InsertReturn
  <2>2. /\ t.invoice = u.invoice /\ t.rows = u.rows /\ t.seen = u.seen /\ t.plain = u.plain
        /\ t.at = "inserted"
    BY <1>2 DEF Flight, FlightOf
  <2> HIDE DEF t
  <2> QED
    BY <1>1, <2>1, <2>2, AdvanceKeeps
<1>5. CASE ReadStock(c)
  <2>1. tx' = [tx EXCEPT ![c] = [u EXCEPT !.at = "counted", !.before = stock]]
    BY <1>5 DEF ReadStock
  <2>2. [u EXCEPT !.at = "counted", !.before = stock]
          = Flight("counted", u.invoice, u.rows, u.plain, u.seen, u.number, stock)
    BY <1>2, FlightCounted
  <2> QED
    BY <1>1, <2>1, <2>2, AdvanceKeeps DEF Flight
<1>6. CASE Fail(c)
  BY <1>1, <1>6, AdvanceKeeps DEF Fail
<1> QED
  BY <1>3, <1>4, <1>5, <1>6

\* The commit turns the request into a return.
LEMMA CommitAdds ==
  ASSUME ReturnsInv, FlowInv, NEW c \in Cashiers, Commit(c)
  PROVE  \E new :
           /\ returns' = returns \cup {new} /\ new \notin returns
           /\ new.number = tx[c].number /\ new.invoice = tx[c].invoice
           /\ new.rows = tx[c].rows /\ new.seen = tx[c].seen /\ new.plain = tx[c].plain
           /\ new.type \in {"FULL", "PARTIAL"}
           /\ new.number = Cardinality(returns) + 1 /\ new.number \notin Numbers
           /\ Numbers' = Numbers \cup {new.number}
<1> DEFINE t == tx[c]  goods == Goods(t.invoice, t.rows)
           new == [number |-> t.number, invoice |-> t.invoice, rows |-> t.rows, refund |-> goods,
                   type |-> IF goods = TotalAmount(t.invoice) THEN "FULL" ELSE "PARTIAL",
                   plain |-> t.plain, seen |-> t.seen]
<1>1. returns' = returns \cup {new}
  BY DEF Commit
<1>2. /\ new.number = t.number /\ new.invoice = t.invoice /\ new.rows = t.rows
      /\ new.seen = t.seen /\ new.plain = t.plain /\ new.type \in {"FULL", "PARTIAL"}
  OBVIOUS
<1> HIDE DEF new
<1>3. t.number = Cardinality(returns) + 1 /\ Cardinality(returns) \in Nat
  BY NextNumber DEF Commit, ReturnsInv, NumbersInOrder
<1>4. t.number \notin Numbers
  BY <1>3 DEF ReturnsInv, NumbersInOrder, Numbers
<1>5. new \notin returns
  BY <1>2, <1>4 DEF Numbers
<1>6. Numbers' = Numbers \cup {new.number}
  BY <1>1 DEF Numbers
<1> QED
  BY <1>1, <1>2, <1>3, <1>4, <1>5, <1>6

LEMMA CommitTakes ==
  ASSUME ReturnsInv, FlowInv, NEW c \in Cashiers, Commit(c)
  PROVE  TakenFits'
<1>1. PICK new :
        /\ returns' = returns \cup {new}
        /\ new.invoice = tx[c].invoice
        /\ new.rows = tx[c].rows /\ new.seen = tx[c].seen /\ new.plain = tx[c].plain
        /\ new.number \notin Numbers
        /\ Numbers' = Numbers \cup {new.number}
  BY CommitAdds
<1>2. \A d \in Cashiers : tx'[d] = IF d = c THEN Nothing ELSE tx[d]
  BY DEF Commit, ReturnsInv, RequestsShaped
<1>3. ASSUME NEW i, NEW seen, seen \subseteq Numbers
      PROVE  Known(i, seen)' = Known(i, seen)
  BY <1>1, <1>3 DEF Known, Of
<1>4. ASSUME NEW u, Sound(u) PROVE Sound(u)'
  <2>1. /\ u.invoice \in Invoices /\ RowsOK(u.invoice, u.rows) /\ u.seen \subseteq Numbers
        /\ u.plain => Fits(u.invoice, u.rows, u.seen)
    BY <1>4 DEF Sound
  <2>2. Fits(u.invoice, u.rows, u.seen)' <=> Fits(u.invoice, u.rows, u.seen)
    BY <1>3, <2>1 DEF Fits
  <2>3. u.seen \subseteq Numbers'
    BY <1>1, <2>1
  <2> QED
    BY <2>1, <2>2, <2>3 DEF Sound
<1>5. Sound(tx[c])
  BY DEF Commit, At, FlowInv, TakenFits
<1>6. Sound(new) /\ new.number \notin new.seen
  BY <1>1, <1>5 DEF Sound
<1> QED
  BY <1>1, <1>2, <1>4, <1>6 DEF FlowInv, TakenFits

\* What is written is what was read plus what comes back, and so is the log.
LEMMA CommitLogs ==
  ASSUME ReturnsInv, FlowInv, NEW c \in Cashiers, Commit(c)
  PROVE  StockLogged'
<1> DEFINE t == tx[c]
           back == Back(t.invoice, t.rows)
           moved == {x \in Items : back[x] > 0}
           Entry(x) == [number |-> t.number, item |-> x, before |-> t.before[x],
                        after |-> t.before[x] + back[x]]
<1>1. t.number \notin Numbers /\ Numbers' = Numbers \cup {t.number}
  BY CommitAdds
<1>2. back \in [Items -> Nat]
  BY BackType DEF Commit, At, FlowInv, TakenFits, Sound
<1>3. t.before = stock /\ stock \in [Items -> Nat]
  BY DEF Commit, FlowInv, StockLogged
<1>4. stock' = [x \in Items |-> IF x \in moved THEN t.before[x] + back[x] ELSE stock[x]]
  BY DEF Commit
<1>5. moves' = moves \cup {Entry(x) : x \in moved}
  BY DEF Commit
<1>6. ASSUME NEW x PROVE /\ Entry(x).number = t.number /\ Entry(x).item = x
                         /\ Entry(x).before = t.before[x]
                         /\ Entry(x).after = t.before[x] + back[x]
  OBVIOUS
<1>7. \A d \in Cashiers : ~At(d, "counted")'
  <2>1. \A d \in Cashiers : tx'[d] = IF d = c THEN Nothing ELSE tx[d]
    BY DEF Commit, ReturnsInv, RequestsShaped
  <2>2. \A d \in Cashiers \ {c} : ~At(d, "counted")
    BY DEF Commit, ReturnsInv, NumbersInOrder
  <2> QED
    BY <2>1, <2>2 DEF At
<1> HIDE DEF Entry, back, t
<1>8. stock' \in [Items -> Nat]
  BY <1>2, <1>3, <1>4
<1>9. \A m \in moves' : m.number \in Numbers' /\ m.before \in Nat /\ m.after \in Nat
  <2>1. ASSUME NEW x \in moved
        PROVE  Entry(x).number \in Numbers' /\ Entry(x).before \in Nat /\ Entry(x).after \in Nat
    BY <1>1, <1>2, <1>3, <1>6
  <2> QED
    BY <1>1, <1>5, <2>1 DEF FlowInv, StockLogged
<1>10. ASSUME NEW x \in Items
       PROVE  IsFiniteSet(Logged(x)') /\ stock'[x] = Opening[x] + Net(x)'
  <2> DEFINE f == [m \in Logged(x)' |-> m.after - m.before]
             g == [m \in Logged(x) |-> m.after - m.before]
  <2>1. /\ IsFiniteSet(Logged(x)) /\ stock[x] = Opening[x] + Net(x) /\ stock[x] \in Nat
        /\ Opening[x] \in Nat
    BY SalesAssumption DEF FlowInv, StockLogged
  <2>2. \A m \in Logged(x) : m.number \in Numbers /\ m.before \in Nat /\ m.after \in Nat
    BY DEF FlowInv, StockLogged, Logged
  <2>3. CASE x \notin moved
    <3>1. Logged(x)' = Logged(x)
      BY <1>5, <1>6, <2>3 DEF Logged
    <3> QED
      BY <1>4, <2>1, <2>3, <3>1 DEF Net
  <2>4. CASE x \in moved
    <3>1. Logged(x)' = Logged(x) \cup {Entry(x)}
      BY <1>5, <1>6, <2>4 DEF Logged
    <3>2. Entry(x) \notin Logged(x)
      BY <1>1, <1>6, <2>2
    <3>3. /\ f[Entry(x)] = back[x] /\ back[x] \in Nat
          /\ \A m \in Logged(x) : f[m] = g[m] /\ f[m] \in Int
      BY <1>2, <1>3, <1>6, <2>2, <3>1
    <3>4. Net(x)' = SumFunctionOnSet(f, Logged(x)') /\ Net(x) = SumFunctionOnSet(g, Logged(x))
      BY DEF Net
    <3> HIDE DEF f, g
    <3>5. SumFunctionOnSet(f, Logged(x) \cup {Entry(x)})
            = f[Entry(x)] + SumFunctionOnSet(f, Logged(x))
      <4>1. f[Entry(x)] \in Int /\ \A m \in Logged(x) : f[m] \in Int
        BY <3>3
      <4> QED
        BY <2>1, <3>2, <4>1, SumAdd
    <3>6. SumFunctionOnSet(f, Logged(x)) = SumFunctionOnSet(g, Logged(x))
      BY <2>1, <3>3, SumSame
    <3>7. SumFunctionOnSet(g, Logged(x)) \in Int
      <4>1. \A m \in Logged(x) : g[m] \in Int
        BY <3>3
      <4> QED
        BY <2>1, <4>1, SumRemove
    <3>8. stock'[x] = stock[x] + back[x]
      BY <1>3, <1>4, <2>4
    <3>9. IsFiniteSet(Logged(x)')
      BY <2>1, <3>1, FS_AddElement
    <3> QED
      BY <2>1, <3>1, <3>3, <3>4, <3>5, <3>6, <3>7, <3>8, <3>9
  <2> QED
    BY <2>3, <2>4
<1> QED
  BY <1>7, <1>8, <1>9, <1>10 DEF StockLogged

LEMMA CommitCounts ==
  ASSUME ReturnsInv, FlowInv, NEW c \in Cashiers, Commit(c)
  PROVE  WithinRefunds'
<1>1. PICK new : returns' = returns \cup {new} /\ new \notin returns
  BY CommitAdds
<1>2. Cardinality(returns') = Cardinality(returns) + 1 /\ Cardinality(returns) \in Nat
  BY <1>1, FS_AddElement, FS_CardinalityType DEF ReturnsInv, NumbersDrawn
<1>3. Busy' = Busy \ {c} /\ c \in Busy
  BY DEF Commit, At, ReturnsInv, RequestsShaped, Busy
<1>4. Cardinality(Busy') = Cardinality(Busy) - 1
  BY <1>3, BusyType, FS_RemoveElement
<1> QED
  BY <1>2, <1>4, BusyType, BoundsAssumption DEF FlowInv, WithinRefunds

----------------------------------------------------------------------------
(* Sales: an invoice's status is what its payments say.                    *)

Payment == [method : {p.method : p \in Payments}, amount : Nat, day : 1..LastDay]

LEMMA PaidSoFarType ==
  ASSUME NEW payments \in Seq(Payment)
  PROVE  PaidSoFar(payments) \in Nat
<1> DEFINE f == [k \in DOMAIN payments |-> payments[k].amount]
<1>1. IsFiniteSet(DOMAIN payments) /\ \A k \in DOMAIN payments : payments[k] \in Payment
  BY SequenceFacts
<1>2. \A k \in DOMAIN payments : f[k] \in Nat
  BY <1>1 DEF Payment
<1>3. PaidSoFar(payments) = SumFunctionOnSet(f, DOMAIN payments)
  BY DEF PaidSoFar, SumOver, SumFunction
<1> HIDE DEF f
<1> QED
  BY <1>1, <1>2, <1>3, SumNat

LEMMA PaidSoFarAppend ==
  ASSUME NEW payments \in Seq(Payment), NEW p \in Payment
  PROVE  /\ Append(payments, p) \in Seq(Payment) /\ Append(payments, p) # <<>>
         /\ PaidSoFar(Append(payments, p)) = PaidSoFar(payments) + p.amount
<1> DEFINE next == Append(payments, p)
           n == Len(payments) + 1
           f == [k \in DOMAIN payments |-> payments[k].amount]
           h == [k \in DOMAIN next |-> next[k].amount]
<1>1. next \in Seq(Payment) /\ Len(next) = n /\ next # <<>>
  <2>1. next \in Seq(Payment) /\ Len(next) = n
    OBVIOUS
  <2>2. Len(payments) \in Nat /\ Len(<<>>) = 0
    OBVIOUS
  <2> HIDE DEF next
  <2> QED
    BY <2>1, <2>2
<1>2. /\ DOMAIN next = DOMAIN payments \cup {n} /\ n \notin DOMAIN payments
      /\ next[n] = p /\ \A k \in DOMAIN payments : next[k] = payments[k]
  OBVIOUS
<1>3. IsFiniteSet(DOMAIN payments) /\ \A k \in DOMAIN payments : payments[k] \in Payment
  BY SequenceFacts
<1>4. /\ h[n] = p.amount /\ h[n] \in Int
      /\ \A k \in DOMAIN payments : h[k] \in Int /\ h[k] = f[k]
  BY <1>2, <1>3 DEF Payment
<1>5. /\ PaidSoFar(payments) = SumFunctionOnSet(f, DOMAIN payments)
      /\ PaidSoFar(next) = SumFunctionOnSet(h, DOMAIN next)
  BY DEF PaidSoFar, SumOver, SumFunction
<1> HIDE DEF f, h, next, n
<1>6. SumFunctionOnSet(h, DOMAIN payments \cup {n}) = h[n] + SumFunctionOnSet(h, DOMAIN payments)
  BY <1>2, <1>3, <1>4, SumAdd
<1>7. SumFunctionOnSet(h, DOMAIN payments) = SumFunctionOnSet(f, DOMAIN payments)
  BY <1>3, <1>4, SumSame
<1>8. PaidSoFar(next) = PaidSoFar(payments) + p.amount
  BY <1>2, <1>4, <1>5, <1>6, <1>7, PaidSoFarType
<1> QED
  BY <1>1, <1>8 DEF next

\* What an invoice costs: the discount is never more than the goods.
LEMMA AmountsType ==
  ASSUME NEW i \in Invoices
  PROVE  /\ IsFiniteSet(Lines(i)) /\ \A l \in Lines(i) : Amount(i, l) \in Nat
         /\ TotalAmount(i) \in Nat /\ DiscountTotal(i) \in Nat /\ DiscountTotal(i) <= TotalAmount(i)
         /\ FinalAmount(i) = TotalAmount(i) - DiscountTotal(i) /\ FinalAmount(i) \in Nat
<1> DEFINE f == [l \in Lines(i) |-> Amount(i, l)]
           g == [k \in DOMAIN Order[i].promos |-> Order[i].promos[k].amount]
           d == SumOver(LAMBDA k : Order[i].promos[k].amount, DOMAIN Order[i].promos)
<1>1. \A l \in Lines(i) : Amount(i, l) \in Nat
  BY LineType, Products DEF Amount
<1>2. IsFiniteSet(Lines(i))
  <2>1. Order[i].lines \in Seq([dish : DOMAIN Recipe, qty : Nat, price : Nat])
    BY SalesAssumption
  <2> QED
    BY <2>1, SequenceFacts DEF Lines
<1>3. TotalAmount(i) \in Nat
  <2>1. \A l \in Lines(i) : f[l] \in Nat
    BY <1>1
  <2>2. TotalAmount(i) = SumFunctionOnSet(f, Lines(i))
    BY DEF TotalAmount, SumOver, SumFunction
  <2> HIDE DEF f
  <2> QED
    BY <1>2, <2>1, <2>2, SumNat
<1>4. d \in Nat
  <2>1. IsFiniteSet(DOMAIN Order[i].promos) /\ \A k \in DOMAIN Order[i].promos : g[k] \in Nat
    BY SalesAssumption
  <2>2. d = SumFunctionOnSet(g, DOMAIN Order[i].promos)
    BY DEF SumOver, SumFunction
  <2> HIDE DEF g, d
  <2> QED
    BY <2>1, <2>2, SumNat
<1>5. DiscountTotal(i) = Min({TotalAmount(i), d})
  BY DEF DiscountTotal
<1> HIDE DEF d
<1>6. DiscountTotal(i) \in Nat /\ DiscountTotal(i) <= TotalAmount(i)
  BY <1>3, <1>4, <1>5, MinOfTwo
<1>7. FinalAmount(i) = TotalAmount(i) - DiscountTotal(i)
  BY DEF FinalAmount
<1>8. FinalAmount(i) \in Nat
  BY <1>3, <1>6, <1>7
<1> QED
  BY <1>1, <1>2, <1>3, <1>6, <1>7, <1>8

Sale(status, created, updated, payments, cashier) ==
  [status |-> status, createdAt |-> created, updatedAt |-> updated, payments |-> payments,
   cashier |-> cashier]

SaleOK(i, s) ==
  /\ s = Sale(s.status, s.createdAt, s.updatedAt, s.payments, s.cashier)
  /\ s.payments \in Seq(Payment)
  /\ s.status = (IF s.payments = <<>> THEN "UNPAID"
                 ELSE IF FinalAmount(i) = PaidSoFar(s.payments) THEN "PAID" ELSE "PARTIAL")
  /\ PaidSoFar(s.payments) <= FinalAmount(i) /\ s.cashier \in Cashiers
  /\ s.createdAt \in Int /\ s.updatedAt \in 1..today /\ s.createdAt <= s.updatedAt

SalesInv ==
  /\ today \in 1..LastDay
  /\ sales = [i \in Invoices |-> sales[i]]
  /\ \A i \in Invoices : sales[i] # Nothing => SaleOK(i, sales[i])

LEMMA SaleStep ==
  ASSUME SalesInv, today' = today, NEW i \in Invoices, NEW s, sales' = [sales EXCEPT ![i] = s],
         SaleOK(i, s)
  PROVE  SalesInv'
<1>1. \A j \in Invoices : sales'[j] = IF j = i THEN s ELSE sales[j]
  BY DEF SalesInv
<1>2. sales' = [j \in Invoices |-> sales'[j]]
  BY DEF SalesInv
<1>3. ASSUME NEW j, NEW u, SaleOK(j, u) PROVE SaleOK(j, u)'
  BY <1>3 DEF SaleOK
<1> QED
  BY <1>1, <1>2, <1>3 DEF SalesInv

LEMMA BillKeeps ==
  ASSUME SalesInv, NEW c \in Cashiers, NEW i \in Invoices, Bill(c, i)
  PROVE  SalesInv'
<1> DEFINE s == Sale("UNPAID", today, today, <<>>, c)
<1>1. sales' = [sales EXCEPT ![i] = s] /\ today' = today
  BY DEF Bill, Sale
<1>2. /\ s.status = "UNPAID" /\ s.createdAt = today /\ s.updatedAt = today /\ s.payments = <<>>
      /\ s.cashier = c /\ s = Sale(s.status, s.createdAt, s.updatedAt, s.payments, s.cashier)
  BY DEF Sale
<1> HIDE DEF s
<1>3. today \in 1..today /\ today \in Int /\ today <= today
  BY BoundsAssumption DEF SalesInv
<1>4. <<>> \in Seq(Payment)
  OBVIOUS
<1>5. PaidSoFar(<<>>) = 0
  <2>1. DOMAIN <<>> = {}
    OBVIOUS
  <2>2. PaidSoFar(<<>>) = SumFunctionOnSet([k \in DOMAIN <<>> |-> (<<>>)[k].amount], DOMAIN <<>>)
    BY DEF PaidSoFar, SumOver, SumFunction
  <2> QED
    BY <2>1, <2>2, SumEmpty
<1>6. SaleOK(i, s)
  <2>1. PaidSoFar(s.payments) <= FinalAmount(i)
    BY <1>2, <1>5, AmountsType
  <2> QED
    BY <1>2, <1>3, <1>4, <2>1 DEF SaleOK
<1> QED
  BY <1>1, <1>6, SaleStep

\* addPayment: a payment is cut to what is left, so the sum meets the total and
\* never passes it.
LEMMA TakePaymentKeeps ==
  ASSUME SalesInv, NEW i \in Invoices, NEW p \in Payments, TakePayment(i, p)
  PROVE  SalesInv'
<1> DEFINE old == sales[i]
           left == Remaining(i)
           take == Min({p.amount, left})
           paid == [method |-> p.method, amount |-> take, day |-> today]
           next == Append(old.payments, paid)
           st == IF take = left THEN "PAID" ELSE "PARTIAL"
           s == [old EXCEPT !.payments = next, !.status = st, !.updatedAt = today]
<1>1. SaleOK(i, old) /\ today' = today
  BY DEF TakePayment, SalesInv
<1>2. left = FinalAmount(i) - PaidSoFar(old.payments)
  BY DEF Remaining
<1>3. sales' = [sales EXCEPT ![i] = s]
  BY DEF TakePayment, SalesInv
<1>4. /\ old = Sale(old.status, old.createdAt, old.updatedAt, old.payments, old.cashier)
      /\ old.payments \in Seq(Payment)
      /\ old.createdAt \in Int /\ old.updatedAt \in 1..today /\ old.createdAt <= old.updatedAt
      /\ old.cashier \in Cashiers
  BY <1>1 DEF SaleOK
<1>5. s = Sale(st, old.createdAt, today, next, old.cashier)
  <2> HIDE DEF old, next, st
  <2> DEFINE u == [old EXCEPT !.payments = next]
             v == [u EXCEPT !.status = st]
  <2>1. u = Sale(old.status, old.createdAt, old.updatedAt, next, old.cashier)
    BY <1>4 DEF Sale
  <2>2. s = [v EXCEPT !.updatedAt = today]
    OBVIOUS
  <2> HIDE DEF u, s
  <2>3. v = Sale(st, old.createdAt, old.updatedAt, next, old.cashier)
    BY <2>1 DEF Sale
  <2> HIDE DEF v
  <2> QED
    BY <2>2, <2>3 DEF Sale
<1> HIDE DEF old, left, s
<1>6. left \in Nat /\ p.amount \in Nat
  <2>1. left > 0
    BY DEF TakePayment, left
  <2> QED
    BY <1>2, <1>4, <2>1, AmountsType, PaidSoFarType, SalesAssumption
<1>7. take \in Nat /\ take <= left
  <2> DEFINE a == p.amount
  <2>1. a \in Int /\ left \in Int /\ a \in Nat /\ take = Min({a, left})
    BY <1>6
  <2> HIDE DEF a, take
  <2>2. take \in {a, left} /\ take <= left
    BY <2>1, MinOfTwo
  <2> QED
    BY <1>6, <2>1, <2>2
<1> HIDE DEF take
<1>8. paid \in Payment /\ paid.amount = take
  BY <1>7, BoundsAssumption DEF Payment, SalesInv
<1> HIDE DEF paid
<1>9. /\ next \in Seq(Payment) /\ next # <<>>
      /\ PaidSoFar(next) = PaidSoFar(old.payments) + take
  BY <1>4, <1>8, PaidSoFarAppend
<1> HIDE DEF next
<1>10. /\ st = IF FinalAmount(i) = PaidSoFar(next) THEN "PAID" ELSE "PARTIAL"
       /\ PaidSoFar(next) <= FinalAmount(i)
  <2>1. FinalAmount(i) \in Nat /\ PaidSoFar(old.payments) \in Nat
    BY <1>4, AmountsType, PaidSoFarType
  <2> QED
    BY <1>2, <1>7, <1>9, <2>1
<1> HIDE DEF st
<1>11. /\ s.status = st /\ s.createdAt = old.createdAt /\ s.updatedAt = today /\ s.payments = next
       /\ s.cashier = old.cashier
       /\ s = Sale(s.status, s.createdAt, s.updatedAt, s.payments, s.cashier)
  BY <1>5 DEF Sale
<1>12. today \in 1..today /\ old.createdAt <= today
  BY <1>4, BoundsAssumption DEF SalesInv
<1>13. SaleOK(i, s)
  BY <1>4, <1>9, <1>10, <1>11, <1>12 DEF SaleOK
<1> QED
  BY <1>1, <1>3, <1>13, SaleStep

LEMMA NextDayKeeps ==
  ASSUME SalesInv, NextDay
  PROVE  SalesInv'
<1>1. today' = today + 1 /\ today' \in 1..LastDay /\ sales' = sales
  BY BoundsAssumption DEF NextDay, SalesInv
<1>2. ASSUME NEW j, NEW u, SaleOK(j, u) PROVE SaleOK(j, u)'
  <2>1. \A n \in 1..today : n \in 1..today'
    BY <1>1, BoundsAssumption DEF SalesInv
  <2> QED
    BY <1>2, <2>1 DEF SaleOK
<1> QED
  BY <1>1, <1>2 DEF SalesInv

----------------------------------------------------------------------------
(* The theorems on stock, lines and types.                                 *)

LEMMA InitFlows == Init => FlowInv /\ SalesInv
<1> SUFFICES ASSUME Init PROVE FlowInv /\ SalesInv
  OBVIOUS
<1>1. /\ today = 1 /\ sales = [i \in Invoices |-> Nothing] /\ returns = {} /\ moves = {}
      /\ stock = Opening /\ tx = [c \in Cashiers |-> Nothing]
  BY DEF Init
<1>2. TakenFits
  BY <1>1 DEF TakenFits
<1>3. StockLogged
  <2>1. \A x \in Items : Logged(x) = {}
    BY <1>1 DEF Logged
  <2>2. \A x \in Items : Net(x) = 0
    BY <2>1, SumEmpty DEF Net
  <2>3. IsFiniteSet({})
    BY FS_EmptySet
  <2>4. Opening \in [Items -> Nat]
    BY SalesAssumption
  <2>5. \A x \in Items : stock[x] = Opening[x] + Net(x)
    BY <1>1, <2>2, <2>4
  <2> QED
    BY <1>1, <2>1, <2>3, <2>4, <2>5 DEF StockLogged, At
<1>4. WithinRefunds
  <2>1. Busy = {} /\ Cardinality({}) = 0
    BY <1>1, FS_EmptySet DEF Busy
  <2> QED
    BY <1>1, <2>1, BoundsAssumption DEF WithinRefunds
<1>5. SalesInv
  BY <1>1, BoundsAssumption DEF SalesInv
<1> QED
  BY <1>2, <1>3, <1>4, <1>5 DEF FlowInv

LEMMA NextFlows ==
  ASSUME ReturnsInv, FlowInv, SalesInv, [Next]_<<salesVars, returnVars>>
  PROVE  FlowInv' /\ SalesInv'
<1>1. ASSUME UNCHANGED returnVars
      PROVE  FlowInv'
  <2>1. UNCHANGED <<returns, stock, moves, tx>>
    BY <1>1 DEF returnVars
  <2>2. Numbers' = Numbers /\ Busy' = Busy /\ \A x : Logged(x)' = Logged(x)
    BY <2>1 DEF Numbers, Busy, Logged
  <2>3. \A x : Net(x)' = Net(x)
    BY <2>2 DEF Net
  <2>4. \A u : Sound(u)' <=> Sound(u)
    BY <2>1, <2>2 DEF Sound, Fits, Known, Of
  <2> QED
    BY <2>1, <2>2, <2>3, <2>4 DEF FlowInv, TakenFits, StockLogged, WithinRefunds, At
<1>2. ASSUME UNCHANGED salesVars
      PROVE  SalesInv'
  BY <1>2 DEF salesVars, SalesInv, SaleOK
<1>3. CASE UNCHANGED <<salesVars, returnVars>>
  BY <1>1, <1>2, <1>3
<1>4. CASE NextDay
  BY <1>1, <1>4, NextDayKeeps DEF NextDay
<1>5. ASSUME NEW i \in Invoices, NEW p \in Payments, TakePayment(i, p)
      PROVE  FlowInv' /\ SalesInv'
  BY <1>1, <1>5, TakePaymentKeeps DEF TakePayment
<1>6. ASSUME NEW c \in Cashiers, NEW i \in Invoices, Bill(c, i)
      PROVE  FlowInv' /\ SalesInv'
  BY <1>1, <1>6, BillKeeps DEF Bill
<1>7. ASSUME NEW c \in Cashiers, NEW i \in Invoices, NEW request \in Requests,
             ReadInvoice(c, i, request)
      PROVE  FlowInv' /\ SalesInv'
  <2>1. UNCHANGED salesVars
    BY <1>7 DEF ReadInvoice
  <2> QED
    BY <1>2, <1>7, <2>1, ReadFlows
<1>8. ASSUME NEW c \in Cashiers, Number(c) \/ InsertReturn(c) \/ ReadStock(c) \/ Fail(c)
      PROVE  FlowInv' /\ SalesInv'
  <2>1. UNCHANGED salesVars
    BY <1>8 DEF Number, InsertReturn, ReadStock, Fail
  <2> QED
    BY <1>2, <1>8, <2>1, StepsFlow
<1>9. ASSUME NEW c \in Cashiers, Commit(c)
      PROVE  FlowInv' /\ SalesInv'
  <2>1. UNCHANGED salesVars
    BY <1>9 DEF Commit
  <2> QED
    BY <1>2, <1>9, <2>1, CommitTakes, CommitLogs, CommitCounts DEF FlowInv
<1> QED
  BY <1>3, <1>4, <1>5, <1>6, <1>7, <1>8, <1>9 DEF Next

LEMMA TypeMembers ==
  /\ (\A r \in returns : r.type \in {"FULL", "PARTIAL"}) /\ ReturnsInv /\ FlowInv
       /\ [Next]_<<salesVars, returnVars>>
     => (\A r \in returns : r.type \in {"FULL", "PARTIAL"})'
<1> SUFFICES ASSUME \A r \in returns : r.type \in {"FULL", "PARTIAL"}, ReturnsInv, FlowInv,
                    [Next]_<<salesVars, returnVars>>
             PROVE  \A r \in returns' : r.type \in {"FULL", "PARTIAL"}
  OBVIOUS
<1>1. ASSUME NEW c \in Cashiers, Commit(c)
      PROVE  \A r \in returns' : r.type \in {"FULL", "PARTIAL"}
  BY <1>1, CommitAdds
<1>2. ASSUME NEW c \in Cashiers, Number(c) \/ InsertReturn(c) \/ ReadStock(c) \/ Fail(c)
      PROVE  returns' = returns
  BY <1>2 DEF Number, InsertReturn, ReadStock, Fail
<1> QED
  BY <1>1, <1>2
  DEF Next, NextDay, TakePayment, Bill, ReadInvoice, salesVars, returnVars

LEMMA FlowInvariance ==
  Spec => [](ReturnsInv /\ FlowInv /\ SalesInv /\ \A r \in returns : r.type \in {"FULL", "PARTIAL"})
<1> DEFINE Types == \A r \in returns : r.type \in {"FULL", "PARTIAL"}
<1>1. ReturnsInv /\ FlowInv /\ SalesInv /\ [Next]_<<salesVars, returnVars>> => FlowInv' /\ SalesInv'
  BY NextFlows
<1>2. Types /\ ReturnsInv /\ FlowInv /\ [Next]_<<salesVars, returnVars>> => Types'
  BY TypeMembers
<1>3. Init => Types
  BY DEF Init
<1> HIDE DEF Types
<1>4. Spec => [](ReturnsInv /\ FlowInv /\ SalesInv /\ Types)
  BY Invariance, InitFlows, <1>1, <1>2, <1>3, PTL DEF Spec
<1> QED
  BY <1>4 DEF Types

\* Every column keeps its type, an invoice's status is what its payments say,
\* and the numbers stay within those of the day.
THEOREM ReturnsTypes == Spec => []ReturnsTypeOK
<1> DEFINE Types == \A r \in returns : r.type \in {"FULL", "PARTIAL"}
<1>1. ReturnsInv /\ FlowInv /\ SalesInv /\ Types => ReturnsTypeOK
  <2> SUFFICES ASSUME ReturnsInv, FlowInv, SalesInv, Types PROVE ReturnsTypeOK
    OBVIOUS
  <2>1. ASSUME NEW i \in Invoices, sales[i] # Nothing
        PROVE  /\ sales[i].status = (IF sales[i].payments = <<>> THEN "UNPAID"
                                     ELSE IF Remaining(i) = 0 THEN "PAID" ELSE "PARTIAL")
               /\ sales[i].createdAt <= sales[i].updatedAt /\ sales[i].updatedAt \in 1..today
    <3>1. SaleOK(i, sales[i])
      BY <2>1 DEF SalesInv
    <3>2. /\ FinalAmount(i) \in Int /\ PaidSoFar(sales[i].payments) \in Int
          /\ Remaining(i) = FinalAmount(i) - PaidSoFar(sales[i].payments)
      BY <3>1, AmountsType, PaidSoFarType DEF SaleOK, Remaining
    <3>3. (Remaining(i) = 0) <=> (FinalAmount(i) = PaidSoFar(sales[i].payments))
      BY <3>2
    <3> QED
      BY <3>1, <3>3 DEF SaleOK
  <2>2. \A r \in returns : r.number \in 1..Refunds
    <3>1. Cardinality(returns) \in Nat /\ Cardinality(Busy) \in Nat /\ Refunds \in Nat
      BY NextNumber, BusyType, BoundsAssumption
    <3>2. Cardinality(returns) <= Refunds
      BY <3>1 DEF FlowInv, WithinRefunds
    <3>3. \A r \in returns : r.number \in 1..Cardinality(returns)
      BY DEF ReturnsInv, NumbersInOrder
    <3> QED
      BY <3>1, <3>2, <3>3
  <2> QED
    BY <2>1, <2>2
    DEF ReturnsTypeOK, SalesInv, FlowInv, StockLogged, ReturnsInv, RequestsShaped, Steps
<1>2. Spec => [](ReturnsInv /\ FlowInv /\ SalesInv /\ Types)
  BY FlowInvariance
<1> HIDE DEF Types
<1> QED
  BY <1>1, <1>2, PTL

\* applyInventoryDeltaForReturn: no return overwrites what another put back.
THEOREM StockIsLogged == Spec => []StockFollowsLog
<1>1. FlowInv => StockFollowsLog
  BY LogIsNet DEF FlowInv, StockLogged
<1> QED
  BY <1>1, FlowInvariance, PTL

\* create: with the returns it had read, a return takes back no more of a line
\* than was sold.
THEOREM ReturnsStayWithinSold == Spec => []WithinSold
<1>1. ReturnsInv /\ FlowInv => WithinSold
  <2> SUFFICES ASSUME ReturnsInv, FlowInv, NEW r \in returns, r.plain, NEW k \in DOMAIN r.rows
               PROVE  Returned({q \in Of(r.invoice) : q = r \/ q.number \in r.seen}, r.rows[k].line)
                        <= Order[r.invoice].lines[r.rows[k].line].qty
    BY DEF WithinSold
  <2> DEFINE known == Known(r.invoice, r.seen)
             l == r.rows[k].line
  <2>1. Sound(r) /\ r.number \notin r.seen /\ TakenFits
    BY DEF FlowInv, TakenFits
  <2>2. {q \in Of(r.invoice) : q = r \/ q.number \in r.seen} = known \cup {r} /\ r \notin known
    BY <2>1 DEF Known, Of
  <2>3. IsFiniteSet(known) /\ \A q \in known \cup {r} : RowsOK(q.invoice, q.rows)
    <3>1. known \cup {r} \subseteq Of(r.invoice)
      BY DEF Known, Of
    <3> QED
      BY <2>1, <3>1, OfRows, FS_Subset
  <2> HIDE DEF known
  <2>4. Returned(known \cup {r}, l) = QtyOf(r.rows, l) + Returned(known, l)
    BY <2>2, <2>3, ReturnedAdd
  <2>5. QtyOf(r.rows, l) \in Nat /\ Returned(known, l) \in Nat
    BY <2>3, QtyOfType, ReturnedType
  <2>6. Returned(known, l) + QtyOf(r.rows, l) <= Order[r.invoice].lines[l].qty
    BY <2>1 DEF Sound, Fits, known
  <2>7. Returned({q \in Of(r.invoice) : q = r \/ q.number \in r.seen}, l) = Returned(known \cup {r}, l)
    BY <2>2, Zenon
  <2>8. Order[r.invoice].lines[l].qty \in Int
    BY <2>1, LineType DEF Sound, RowsOK
  <2> HIDE DEF l
  <2> DEFINE total == Returned({q \in Of(r.invoice) : q = r \/ q.number \in r.seen}, l)
             sold == Order[r.invoice].lines[l].qty
  <2>9. total = QtyOf(r.rows, l) + Returned(known, l) /\ sold \in Int
    BY <2>4, <2>7, <2>8
  <2>10. Returned(known, l) + QtyOf(r.rows, l) <= sold
    BY <2>6
  <2> HIDE DEF total, sold
  <2>11. total <= sold
    BY <2>5, <2>9, <2>10
  <2> QED
    BY <2>11 DEF total, sold, l
<1> QED
  BY <1>1, FlowInvariance, PTL

----------------------------------------------------------------------------
(* The reports: amounts of invoices, and periods.                          *)

TotalOf == [i \in Invoices |-> TotalAmount(i)]
DiscountOf == [i \in Invoices |-> DiscountTotal(i)]
FinalOf == [i \in Invoices |-> FinalAmount(i)]
CostOf == [i \in Invoices |-> Cost(i)]

LEMMA CostType ==
  ASSUME NEW i \in Invoices
  PROVE  Cost(i) \in Int
<1> DEFINE portion(dish) == SumFunctionOnSet([n \in DOMAIN Recipe[dish] |->
                              Recipe[dish][n].quantity * AvgCost[Recipe[dish][n].item]], DOMAIN Recipe[dish])
           f == [l \in Lines(i) |-> Order[i].lines[l].qty * portion(Order[i].lines[l].dish)]
<1>1. ASSUME NEW dish \in DOMAIN Recipe PROVE portion(dish) \in Int
  <2> DEFINE g == [n \in DOMAIN Recipe[dish] |->
                     Recipe[dish][n].quantity * AvgCost[Recipe[dish][n].item]]
  <2>1. Recipe[dish] \in Seq([item : Items, quantity : Nat, selected : Nat, factor : Nat])
    BY SalesAssumption
  <2>2. /\ IsFiniteSet(DOMAIN Recipe[dish])
        /\ \A n \in DOMAIN Recipe[dish] :
             Recipe[dish][n] \in [item : Items, quantity : Nat, selected : Nat, factor : Nat]
    BY <2>1, SequenceFacts
  <2>3. \A n \in DOMAIN Recipe[dish] : g[n] \in Int
    <3> TAKE n \in DOMAIN Recipe[dish]
    <3> DEFINE q == Recipe[dish][n].quantity  c == AvgCost[Recipe[dish][n].item]
    <3>1. q \in Int /\ c \in Int /\ g[n] = q * c
      BY <2>2, ReportsAssumption
    <3> HIDE DEF q, c, g
    <3> QED
      BY <3>1
  <2>4. portion(dish) = SumFunctionOnSet(g, DOMAIN Recipe[dish])
    OBVIOUS
  <2> HIDE DEF g, portion
  <2> QED
    BY <2>2, <2>3, <2>4, SumRemove
<1> HIDE DEF portion
<1>2. \A l \in Lines(i) : f[l] \in Int
  <2> TAKE l \in Lines(i)
  <2> DEFINE q == Order[i].lines[l].qty  c == portion(Order[i].lines[l].dish)
  <2>1. q \in Int /\ c \in Int /\ f[l] = q * c
    BY <1>1, LineType
  <2> HIDE DEF q, c, f
  <2> QED
    BY <2>1
<1>3. Cost(i) = SumFunctionOnSet(f, Lines(i))
  BY DEF Cost, SumOver, SumFunction, portion
<1> HIDE DEF f
<1> QED
  BY <1>2, <1>3, AmountsType, SumRemove

\* The totals of the reports are sums of these four functions.
LEMMA Totals ==
  ASSUME NEW S, S \subseteq Invoices
  PROVE  /\ IsFiniteSet(S)
         /\ SumOver(TotalAmount, S) = SumFunctionOnSet(TotalOf, S)
         /\ SumOver(DiscountTotal, S) = SumFunctionOnSet(DiscountOf, S)
         /\ SumOver(FinalAmount, S) = SumFunctionOnSet(FinalOf, S)
         /\ SumOver(LAMBDA i : Cost(i), S) = SumFunctionOnSet(CostOf, S)
         /\ SumFunctionOnSet(TotalOf, S) \in Int /\ SumFunctionOnSet(DiscountOf, S) \in Int
         /\ SumFunctionOnSet(FinalOf, S) \in Int /\ SumFunctionOnSet(CostOf, S) \in Int
         /\ SumFunctionOnSet(FinalOf, S) = SumFunctionOnSet(TotalOf, S) - SumFunctionOnSet(DiscountOf, S)
<1>1. IsFiniteSet(S)
  BY FS_Subset, ReportsAssumption
<1>2. \A i \in S : /\ TotalOf[i] \in Int /\ TotalOf[i] = TotalAmount(i)
                   /\ DiscountOf[i] \in Int /\ DiscountOf[i] = DiscountTotal(i)
                   /\ FinalOf[i] \in Int /\ FinalOf[i] = FinalAmount(i)
                   /\ CostOf[i] \in Int /\ CostOf[i] = Cost(i)
                   /\ FinalOf[i] = 1 * TotalOf[i] + (-1) * DiscountOf[i]
  BY AmountsType, CostType DEF TotalOf, DiscountOf, FinalOf, CostOf
<1>3. SumOver(TotalAmount, S) = SumFunctionOnSet(TotalOf, S)
  <2> DEFINE f == [i \in S |-> TotalAmount(i)]
  <2>1. SumOver(TotalAmount, S) = SumFunctionOnSet(f, S) /\ \A i \in S : TotalOf[i] = f[i]
    BY <1>2 DEF SumOver, SumFunction
  <2> HIDE DEF f
  <2> QED
    BY <1>1, <1>2, <2>1, SumSame
<1>4. SumOver(DiscountTotal, S) = SumFunctionOnSet(DiscountOf, S)
  <2> DEFINE f == [i \in S |-> DiscountTotal(i)]
  <2>1. SumOver(DiscountTotal, S) = SumFunctionOnSet(f, S) /\ \A i \in S : DiscountOf[i] = f[i]
    BY <1>2 DEF SumOver, SumFunction
  <2> HIDE DEF f
  <2> QED
    BY <1>1, <1>2, <2>1, SumSame
<1>5. SumOver(FinalAmount, S) = SumFunctionOnSet(FinalOf, S)
  <2> DEFINE f == [i \in S |-> FinalAmount(i)]
  <2>1. SumOver(FinalAmount, S) = SumFunctionOnSet(f, S) /\ \A i \in S : FinalOf[i] = f[i]
    BY <1>2 DEF SumOver, SumFunction
  <2> HIDE DEF f
  <2> QED
    BY <1>1, <1>2, <2>1, SumSame
<1>6. SumOver(LAMBDA i : Cost(i), S) = SumFunctionOnSet(CostOf, S)
  <2> DEFINE f == [i \in S |-> Cost(i)]
  <2>1. SumOver(LAMBDA i : Cost(i), S) = SumFunctionOnSet(f, S) /\ \A i \in S : CostOf[i] = f[i]
    BY <1>2 DEF SumOver, SumFunction
  <2> HIDE DEF f
  <2> QED
    BY <1>1, <1>2, <2>1, SumSame
<1>7. /\ SumFunctionOnSet(TotalOf, S) \in Int /\ SumFunctionOnSet(DiscountOf, S) \in Int
      /\ SumFunctionOnSet(FinalOf, S) \in Int /\ SumFunctionOnSet(CostOf, S) \in Int
  BY <1>1, <1>2, SumRemove
<1>8. SumFunctionOnSet(FinalOf, S) = 1 * SumFunctionOnSet(TotalOf, S) + (-1) * SumFunctionOnSet(DiscountOf, S)
  BY <1>1, <1>2, SumLinear
<1> QED
  BY <1>1, <1>3, <1>4, <1>5, <1>6, <1>7, <1>8

LEMMA Periods ==
  ASSUME NEW A, NEW B, A \cap B = {}
  PROVE  /\ Billed(A \cup B) = Billed(A) \cup Billed(B) /\ Billed(A) \cap Billed(B) = {}
         /\ Paid(A \cup B) = Paid(A) \cup Paid(B) /\ Paid(A) \cap Paid(B) = {}
         /\ Billed(A) \subseteq Invoices /\ Paid(A) \subseteq Billed(A)
         /\ Billed(B) \subseteq Invoices /\ Paid(B) \subseteq Billed(B)
BY DEF Billed, Paid

\* A day of profitDaily, and its total: each paid invoice once.
LEMMA ProfitOfPeriod ==
  ASSUME NEW D, IsFiniteSet(D)
  PROVE  ProfitDaily(D) =
           [revenue |-> SumFunctionOnSet(FinalOf, Paid(D)), cogs |-> SumFunctionOnSet(CostOf, Paid(D)),
            profit |-> SumFunctionOnSet(FinalOf, Paid(D)) - SumFunctionOnSet(CostOf, Paid(D))]
<1> DEFINE net(d) == SumFunctionOnSet(FinalOf, Paid({d}))
           cogs(d) == SumFunctionOnSet(CostOf, Paid({d}))
           day == [i \in Invoices |-> sales[i].createdAt]
           n == [d \in D |-> ProfitPoint(d).revenue]
           c == [d \in D |-> ProfitPoint(d).cogs]
           p == [d \in D |-> ProfitPoint(d).profit]
<1>1. \A d \in D : /\ ProfitPoint(d) = [revenue |-> net(d), cogs |-> cogs(d), profit |-> net(d) - cogs(d)]
                   /\ net(d) \in Int /\ cogs(d) \in Int
  <2> TAKE d \in D
  <2>1. Paid({d}) \subseteq Invoices
    BY DEF Paid, Billed
  <2> DEFINE S == Paid({d})
  <2>2. S \subseteq Invoices
    BY <2>1
  <2>3. ProfitPoint(d) = [revenue |-> SumOver(TotalAmount, S) - SumOver(DiscountTotal, S),
                          cogs |-> SumOver(LAMBDA i : Cost(i), S),
                          profit |-> (SumOver(TotalAmount, S) - SumOver(DiscountTotal, S))
                                       - SumOver(LAMBDA i : Cost(i), S)]
    BY DEF ProfitPoint
  <2> HIDE DEF S
  <2>4. /\ SumOver(TotalAmount, S) - SumOver(DiscountTotal, S) = SumFunctionOnSet(FinalOf, S)
        /\ SumOver(LAMBDA i : Cost(i), S) = SumFunctionOnSet(CostOf, S)
        /\ SumFunctionOnSet(FinalOf, S) \in Int /\ SumFunctionOnSet(CostOf, S) \in Int
    BY <2>2, Totals
  <2>5. ProfitPoint(d) = [revenue |-> SumFunctionOnSet(FinalOf, S), cogs |-> SumFunctionOnSet(CostOf, S),
                          profit |-> SumFunctionOnSet(FinalOf, S) - SumFunctionOnSet(CostOf, S)]
    BY <2>3, <2>4
  <2> QED
    BY <2>4, <2>5 DEF S
<1>2. \A d \in D : /\ n[d] = net(d) /\ c[d] = cogs(d) /\ p[d] = net(d) - cogs(d)
                   /\ net(d) \in Int /\ cogs(d) \in Int
  BY <1>1
<1>3. ProfitDaily(D) = [revenue |-> SumFunctionOnSet(n, D), cogs |-> SumFunctionOnSet(c, D),
                        profit |-> SumFunctionOnSet(p, D)]
  BY DEF ProfitDaily, SumOver, SumFunction
<1> HIDE DEF n, c, p
<1>4. /\ IsFiniteSet(Paid(D)) /\ Paid(D) \subseteq Invoices
      /\ \A i \in Paid(D) : FinalOf[i] \in Int /\ CostOf[i] \in Int /\ day[i] \in D
      /\ \A d \in D : {i \in Paid(D) : day[i] = d} = Paid({d})
  <2>1. Paid(D) \subseteq Invoices
    BY DEF Paid, Billed
  <2>2. \A i \in Paid(D) : day[i] \in D
    BY DEF Paid, Billed
  <2>3. \A d \in D : {i \in Paid(D) : day[i] = d} = Paid({d})
    BY DEF Paid, Billed
  <2>4. \A i \in Paid(D) : FinalOf[i] \in Int /\ CostOf[i] \in Int
    BY <2>1, AmountsType, CostType DEF FinalOf, CostOf
  <2> QED
    BY <2>1, <2>2, <2>3, <2>4, Totals
<1> HIDE DEF day
<1>5. GroupedBy(FinalOf, day, n, Paid(D), D)
  <2>1. \A d \in D : SumFunctionOnSet(FinalOf, {i \in Paid(D) : day[i] = d}) = net(d)
    BY <1>4, Zenon
  <2> QED
    BY <1>2, <1>4, <2>1 DEF GroupedBy
<1>6. GroupedBy(CostOf, day, c, Paid(D), D)
  <2>1. \A d \in D : SumFunctionOnSet(CostOf, {i \in Paid(D) : day[i] = d}) = cogs(d)
    BY <1>4, Zenon
  <2> QED
    BY <1>2, <1>4, <2>1 DEF GroupedBy
<1> HIDE DEF net, cogs
<1>7. /\ SumFunctionOnSet(n, D) = SumFunctionOnSet(FinalOf, Paid(D))
      /\ SumFunctionOnSet(c, D) = SumFunctionOnSet(CostOf, Paid(D))
  BY <1>4, <1>5, <1>6, SumGroups
<1>8. SumFunctionOnSet(p, D) = 1 * SumFunctionOnSet(n, D) + (-1) * SumFunctionOnSet(c, D)
  <2>1. \A d \in D : n[d] \in Int /\ c[d] \in Int /\ p[d] = 1 * n[d] + (-1) * c[d]
    BY <1>2
  <2> QED
    BY <2>1, SumLinear
<1>9. SumFunctionOnSet(n, D) \in Int /\ SumFunctionOnSet(c, D) \in Int
  BY <1>2, SumRemove
<1> QED
  BY <1>3, <1>7, <1>8, <1>9

LEMMA GoodsType ==
  ASSUME NEW i \in Invoices, NEW rows, RowsOK(i, rows)
  PROVE  Goods(i, rows) \in Nat
<1> DEFINE f == [k \in DOMAIN rows |-> rows[k].qty * Order[i].lines[rows[k].line].price]
<1>1. \A k \in DOMAIN rows : f[k] \in Nat
  <2> TAKE k \in DOMAIN rows
  <2> DEFINE q == rows[k].qty  c == Order[i].lines[rows[k].line].price
  <2>1. q \in Nat /\ c \in Nat /\ f[k] = q * c
    BY LineType DEF RowsOK
  <2> HIDE DEF q, c, f
  <2> QED
    BY <2>1, Products
<1>2. Goods(i, rows) = SumFunctionOnSet(f, DOMAIN rows)
  BY DEF Goods, SumOver, SumFunction
<1> HIDE DEF f
<1> QED
  BY <1>1, <1>2, SumNat DEF RowsOK

LEMMA VouchersType ==
  ASSUME ReturnsInv, TakenFits
  PROVE  IsFiniteSet(vouchers) /\ \A v \in vouchers : v.amount \in Nat
<1> SUFFICES ASSUME NEW v \in vouchers PROVE v.amount \in Nat
  BY DEF ReturnsInv, RefundsHaveVouchers
<1>1. PICK r \in returns : v.amount = Goods(r.invoice, r.rows)
  BY DEF ReturnsInv, RefundsHaveVouchers
<1>2. r.invoice \in Invoices /\ RowsOK(r.invoice, r.rows)
  BY DEF TakenFits, Sound
<1> QED
  BY <1>1, <1>2, GoodsType

\* What came in for an invoice on some days.
Received(i, D) == SumOver(LAMBDA k : sales[i].payments[k].amount, Booked(i, D))

\* A payment is booked on one day.
LEMMA ReceivedDays ==
  ASSUME SalesInv, NEW i \in Billed(Days), NEW A, NEW B, A \cap B = {}
  PROVE  /\ Received(i, A \cup B) = Received(i, A) + Received(i, B)
         /\ Cardinality(Booked(i, A \cup B)) = Cardinality(Booked(i, A)) + Cardinality(Booked(i, B))
         /\ Received(i, A) \in Int /\ Received(i, B) \in Int
         /\ Cardinality(Booked(i, A)) \in Int /\ Cardinality(Booked(i, B)) \in Int
<1> DEFINE pay == sales[i].payments
           f(D) == [k \in Booked(i, D) |-> pay[k].amount]
           S == Booked(i, A)  T == Booked(i, B)
<1>1. IsFiniteSet(DOMAIN pay) /\ \A k \in DOMAIN pay : pay[k].amount \in Int
  <2>1. pay \in Seq(Payment)
    BY DEF Billed, SalesInv, SaleOK
  <2> HIDE DEF pay
  <2>2. IsFiniteSet(DOMAIN pay) /\ \A k \in DOMAIN pay : pay[k] \in Payment
    BY <2>1, SequenceFacts
  <2> QED
    BY <2>2 DEF Payment
<1>2. /\ Booked(i, A \cup B) = S \cup T /\ S \cap T = {}
      /\ S \subseteq DOMAIN pay /\ T \subseteq DOMAIN pay
  BY DEF Booked
<1>3. IsFiniteSet(S) /\ IsFiniteSet(T)
  BY <1>1, <1>2, FS_Subset
<1>4. Splits(f(A), f(B), f(A \cup B), S, T)
  <2>1. /\ \A k \in S : f(A)[k] \in Int /\ f(A \cup B)[k] = f(A)[k]
        /\ \A k \in T : f(B)[k] \in Int /\ f(A \cup B)[k] = f(B)[k]
    BY <1>1, <1>2
  <2> HIDE DEF f, S, T
  <2> QED
    BY <2>1 DEF Splits
<1>5. /\ Received(i, A) = SumFunctionOnSet(f(A), S) /\ Received(i, B) = SumFunctionOnSet(f(B), T)
      /\ Received(i, A \cup B) = SumFunctionOnSet(f(A \cup B), Booked(i, A \cup B))
  BY DEF Received, SumOver, SumFunction
<1> HIDE DEF f, S, T
<1>6. SumFunctionOnSet(f(A \cup B), Booked(i, A \cup B)) = SumFunctionOnSet(f(A \cup B), S \cup T)
  BY <1>2, Zenon
<1>7. /\ Received(i, A \cup B) = Received(i, A) + Received(i, B)
      /\ Received(i, A) \in Int /\ Received(i, B) \in Int
  BY <1>2, <1>3, <1>4, <1>5, <1>6, SumSplit
<1>8. /\ Cardinality(S \cup T) = Cardinality(S) + Cardinality(T)
      /\ Cardinality(S) \in Nat /\ Cardinality(T) \in Nat
  BY <1>2, <1>3, DisjointUnion
<1>9. Cardinality(Booked(i, A \cup B)) = Cardinality(S \cup T)
  BY <1>2, Zenon
<1> QED
  BY <1>7, <1>8, <1>9 DEF S, T

ReceivedBy(D) == [i \in Billed(Days) |-> Received(i, D)]
BookedBy(D) == [i \in Billed(Days) |-> Cardinality(Booked(i, D))]
PaidOut(D) == {v \in vouchers : v.day \in D}
Amounts(D) == [v \in PaidOut(D) |-> v.amount]

\* The cashbook of a period, in those terms.
LEMMA CashbookIs ==
  ASSUME NEW D
  PROVE  CashbookDaily(D) =
           [totalReceipt |-> SumFunctionOnSet(ReceivedBy(D), Billed(Days)),
            totalPayment |-> SumFunctionOnSet(Amounts(D), PaidOut(D)),
            diff |-> SumFunctionOnSet(ReceivedBy(D), Billed(Days)) - SumFunctionOnSet(Amounts(D), PaidOut(D)),
            voucherCount |-> SumFunctionOnSet(BookedBy(D), Billed(Days)) + Cardinality(PaidOut(D))]
BY DEF CashbookDaily, ReceivedBy, BookedBy, Received, Amounts, PaidOut, SumOver, SumFunction

\* It adds up over days.
LEMMA CashbookDays ==
  ASSUME ReturnsInv, TakenFits, SalesInv, NEW A, NEW B, A \cap B = {}
  PROVE  LET a == CashbookDaily(A)  b == CashbookDaily(B)  c == CashbookDaily(A \cup B)
         IN /\ c.diff = a.diff + b.diff /\ c.voucherCount = a.voucherCount + b.voucherCount
            /\ a.diff \in Int /\ b.diff \in Int
<1> DEFINE S == Billed(Days)
<1>1. IsFiniteSet(S)
  BY Periods, FS_Subset, ReportsAssumption DEF Billed
<1>2. Adds(ReceivedBy(A), ReceivedBy(B), ReceivedBy(A \cup B), S)
  BY ReceivedDays DEF Adds, ReceivedBy
<1>3. Adds(BookedBy(A), BookedBy(B), BookedBy(A \cup B), S)
  BY ReceivedDays DEF Adds, BookedBy
<1>4. /\ \A i \in S : ReceivedBy(A)[i] \in Int /\ ReceivedBy(B)[i] \in Int
      /\ \A i \in S : BookedBy(A)[i] \in Int /\ BookedBy(B)[i] \in Int
  BY <1>2, <1>3 DEF Adds
<1> HIDE DEF S
<1>5. /\ SumFunctionOnSet(ReceivedBy(A \cup B), S)
           = SumFunctionOnSet(ReceivedBy(A), S) + SumFunctionOnSet(ReceivedBy(B), S)
      /\ SumFunctionOnSet(BookedBy(A \cup B), S)
           = SumFunctionOnSet(BookedBy(A), S) + SumFunctionOnSet(BookedBy(B), S)
  BY <1>1, <1>2, <1>3, SumAdds
<1>6. /\ SumFunctionOnSet(ReceivedBy(A), S) \in Int /\ SumFunctionOnSet(ReceivedBy(B), S) \in Int
      /\ SumFunctionOnSet(BookedBy(A), S) \in Int /\ SumFunctionOnSet(BookedBy(B), S) \in Int
  BY <1>1, <1>4, SumRemove
<1>7. /\ PaidOut(A \cup B) = PaidOut(A) \cup PaidOut(B) /\ PaidOut(A) \cap PaidOut(B) = {}
      /\ IsFiniteSet(PaidOut(A)) /\ IsFiniteSet(PaidOut(B))
  <2>1. PaidOut(A) \subseteq vouchers /\ PaidOut(B) \subseteq vouchers
    BY DEF PaidOut
  <2>2. PaidOut(A \cup B) = PaidOut(A) \cup PaidOut(B) /\ PaidOut(A) \cap PaidOut(B) = {}
    BY DEF PaidOut
  <2> QED
    BY <2>1, <2>2, VouchersType, FS_Subset
<1>8. Splits(Amounts(A), Amounts(B), Amounts(A \cup B), PaidOut(A), PaidOut(B))
  BY <1>7, VouchersType DEF Splits, Amounts, PaidOut
<1>9. /\ SumFunctionOnSet(Amounts(A \cup B), PaidOut(A) \cup PaidOut(B))
           = SumFunctionOnSet(Amounts(A), PaidOut(A)) + SumFunctionOnSet(Amounts(B), PaidOut(B))
      /\ SumFunctionOnSet(Amounts(A), PaidOut(A)) \in Int /\ SumFunctionOnSet(Amounts(B), PaidOut(B)) \in Int
  BY <1>7, <1>8, SumSplit
<1>10. /\ Cardinality(PaidOut(A \cup B)) = Cardinality(PaidOut(A)) + Cardinality(PaidOut(B))
       /\ Cardinality(PaidOut(A)) \in Nat /\ Cardinality(PaidOut(B)) \in Nat
  BY <1>7, DisjointUnion
<1>11. SumFunctionOnSet(Amounts(A \cup B), PaidOut(A \cup B))
         = SumFunctionOnSet(Amounts(A \cup B), PaidOut(A) \cup PaidOut(B))
  BY <1>7, Zenon
<1> QED
  BY <1>5, <1>6, <1>9, <1>10, <1>11, CashbookIs DEF S

UpTo(n) == {d \in Days : d <= n}

LEMMA Ranges ==
  ASSUME NEW from \in Days, NEW to \in Days, NEW mid \in from..(to - 1)
  PROVE  /\ LocalRange(from, to) = LocalRange(from, mid) \cup LocalRange(mid + 1, to)
         /\ LocalRange(from, mid) \cap LocalRange(mid + 1, to) = {}
         /\ IsFiniteSet(LocalRange(from, mid)) /\ IsFiniteSet(LocalRange(mid + 1, to))
         /\ IsFiniteSet(LocalRange(from, to))
         /\ mid \in Days /\ mid + 1 \in Days /\ mid + 1 <= to
<1>1. /\ mid \in Days /\ mid + 1 \in Days /\ mid + 1 <= to
      /\ from # Nothing /\ to # Nothing /\ mid # Nothing /\ mid + 1 # Nothing
      /\ from \in Int /\ to \in Int /\ mid \in Int
  BY ReportsAssumption, BoundsAssumption DEF Days
<1>2. /\ LocalRange(from, to) = {d \in Days : d >= from /\ d < to + 1}
      /\ LocalRange(from, mid) = {d \in Days : d >= from /\ d < mid + 1}
      /\ LocalRange(mid + 1, to) = {d \in Days : d >= mid + 1 /\ d < to + 1}
  BY <1>1 DEF LocalRange
<1>3. \A d \in Days : d \in Int
  BY DEF Days
<1>4. IsFiniteSet(Days)
  BY FS_Interval, BoundsAssumption DEF Days
<1>5. \A d \in Days : (d >= from /\ d < to + 1) <=>
        (d >= from /\ d < mid + 1) \/ (d >= mid + 1 /\ d < to + 1)
  BY <1>1, <1>3
<1>6. \A d \in Days : ~((d >= from /\ d < mid + 1) /\ (d >= mid + 1 /\ d < to + 1))
  BY <1>1, <1>3
<1>7. /\ LocalRange(from, mid) \subseteq Days /\ LocalRange(mid + 1, to) \subseteq Days
      /\ LocalRange(from, to) \subseteq Days
  BY <1>2
<1>8. LocalRange(from, to) = LocalRange(from, mid) \cup LocalRange(mid + 1, to)
  BY <1>2, <1>5
<1>9. LocalRange(from, mid) \cap LocalRange(mid + 1, to) = {}
  BY <1>2, <1>6
<1> QED
  BY <1>1, <1>4, <1>7, <1>8, <1>9, FS_Subset

\* summaryCashBookEntries: the balance after the last day is that of all days
\* until then, wherever the period begins.
LEMMA Balances ==
  ASSUME ReturnsInv, TakenFits, SalesInv, NEW to \in Days, NEW from, from \in 1..to \/ from = Nothing
  PROVE  /\ CashSummary(from, to).closingBalance = CashbookDaily(UpTo(to)).diff
         /\ from # Nothing => CashSummary(from, to).openingBalance = CashbookDaily(UpTo(from - 1)).diff
<1> DEFINE before == IF from = Nothing THEN {} ELSE {d \in Days : d < from}
           within == {d \in Days : (from # Nothing => d >= from) /\ (to # Nothing => d <= to)}
           opening == CashbookDaily(before).diff
           book == CashbookDaily(within).diff
<1>1. CashSummary(from, to).openingBalance = opening
  BY DEF CashSummary
<1>2. CashSummary(from, to).closingBalance = opening + book
  BY DEF CashSummary
<1>3. /\ to \in Int /\ to # Nothing /\ \A d \in Days : d \in Int
      /\ from # Nothing => from \in Int /\ from <= to
  BY ReportsAssumption, BoundsAssumption DEF Days
<1>4. before \cup within = UpTo(to) /\ before \cap within = {}
  <2>1. CASE from = Nothing
    BY <1>3, <2>1 DEF UpTo
  <2>2. CASE from # Nothing
    <3>1. before = {d \in Days : d < from} /\ within = {d \in Days : d >= from /\ d <= to}
      BY <1>3, <2>2
    <3>2. \A d \in Days : (d <= to) <=> (d < from \/ (d >= from /\ d <= to))
      BY <1>3, <2>2
    <3>3. \A d \in Days : ~(d < from /\ d >= from)
      BY <1>3, <2>2
    <3> HIDE DEF before, within
    <3> QED
      BY <3>1, <3>2, <3>3 DEF UpTo
  <2> QED
    BY <2>1, <2>2
<1>5. from # Nothing => before = UpTo(from - 1)
  <2> SUFFICES ASSUME from # Nothing PROVE before = UpTo(from - 1)
    OBVIOUS
  <2>1. \A d \in Days : (d < from) <=> (d <= from - 1)
    BY <1>3
  <2> QED
    BY <2>1 DEF UpTo
<1> HIDE DEF before, within
<1>6. CashbookDaily(before \cup within).diff = opening + book
  BY <1>4, CashbookDays
<1> HIDE DEF opening, book
<1>7. CashbookDaily(UpTo(to)).diff = CashbookDaily(before \cup within).diff
  BY <1>4, Zenon
<1>8. from # Nothing => opening = CashbookDaily(UpTo(from - 1)).diff
  BY <1>5, Zenon DEF opening
<1> QED
  BY <1>1, <1>2, <1>6, <1>7, <1>8

\* The lines of some invoices, and what they cost.
Sold(S) == UNION {{<<i, l>> : l \in Lines(i)} : i \in S}
AmountOf == [s \in Sold(Invoices) |-> Amount(s[1], s[2])]

LEMMA SoldLines ==
  ASSUME NEW S, S \subseteq Invoices
  PROVE  /\ IsFiniteSet(Sold(S)) /\ Sold(S) \subseteq Sold(Invoices)
         /\ \A s \in Sold(S) : /\ s[1] \in S /\ s[2] \in Lines(s[1]) /\ s = <<s[1], s[2]>>
                               /\ AmountOf[s] = Amount(s[1], s[2]) /\ AmountOf[s] \in Int
         /\ SumFunctionOnSet(AmountOf, Sold(S)) = SumFunctionOnSet(TotalOf, S)
<1> DEFINE L == [i \in Invoices |-> Lines(i)]
<1>1. Sold(S) \subseteq Sold(Invoices)
  BY DEF Sold
<1>2. ASSUME NEW s \in Sold(S)
      PROVE  /\ s[1] \in S /\ s[2] \in Lines(s[1]) /\ s = <<s[1], s[2]>>
             /\ AmountOf[s] = Amount(s[1], s[2]) /\ AmountOf[s] \in Int
  <2>1. PICK i \in S : s \in {<<i, l>> : l \in Lines(i)}
    BY DEF Sold
  <2>2. PICK l \in Lines(i) : s = <<i, l>>
    BY <2>1
  <2>3. s[1] = i /\ s[2] = l
    BY <2>2
  <2>4. AmountOf[s] = Amount(s[1], s[2])
    BY <1>1 DEF AmountOf
  <2>5. Amount(i, l) \in Int
    BY AmountsType
  <2> QED
    BY <2>2, <2>3, <2>4, <2>5
<1>3. \A i \in S : IsFiniteSet(L[i]) /\ L[i] = Lines(i)
  BY AmountsType
<1>4. Sold(S) = PairsOver(S, L)
  <2> HIDE DEF L
  <2>1. {{<<i, l>> : l \in Lines(i)} : i \in S} = {{<<i, l>> : l \in L[i]} : i \in S}
    BY <1>3
  <2> QED
    BY <2>1, Zenon DEF Sold, PairsOver
<1>5. \A i \in S : \A l \in L[i] : <<i, l>> \in Sold(S)
  BY <1>3 DEF Sold
<1>6. \A i \in S : \A l \in L[i] : AmountOf[<<i, l>>] = Amount(i, l) /\ AmountOf[<<i, l>>] \in Int
  <2> TAKE i \in S
  <2> TAKE l \in L[i]
  <2>1. <<i, l>> \in Sold(S)
    BY <1>5
  <2> DEFINE s == <<i, l>>
  <2>2. AmountOf[s] = Amount(s[1], s[2]) /\ AmountOf[s] \in Int
    BY <1>2, <2>1
  <2> QED
    BY <2>2
<1>7. \A i \in S : TotalOf[i] = SumFunctionOnSet([l \in L[i] |-> AmountOf[<<i, l>>]], L[i])
  <2> TAKE i \in S
  <2>1. [l \in L[i] |-> AmountOf[<<i, l>>]] = [l \in Lines(i) |-> Amount(i, l)]
    <3>1. L[i] = Lines(i) /\ \A l \in L[i] : AmountOf[<<i, l>>] = Amount(i, l)
      BY <1>3, <1>6
    <3> HIDE DEF L
    <3> QED
      BY <3>1
  <2>2. TotalOf[i] = SumFunctionOnSet([l \in Lines(i) |-> Amount(i, l)], Lines(i))
    BY DEF TotalOf, TotalAmount, SumOver, SumFunction
  <2>3. L[i] = Lines(i)
    BY <1>3
  <2> HIDE DEF L
  <2> QED
    BY <2>1, <2>2, <2>3, Zenon
<1>8. IsFiniteSet(S)
  BY FS_Subset, ReportsAssumption
<1> HIDE DEF L
<1>9. TwoLevels(AmountOf, TotalOf, S, L)
  BY <1>3, <1>6, <1>7 DEF TwoLevels
<1>10. /\ IsFiniteSet(PairsOver(S, L))
       /\ SumFunctionOnSet(AmountOf, PairsOver(S, L)) = SumFunctionOnSet(TotalOf, S)
  BY <1>8, <1>9, SumPairs
<1> QED
  BY <1>1, <1>2, <1>4, <1>10

\* The value of the lines cancelled on some days.
LEMMA CancelledIs ==
  ASSUME NEW D
  PROVE  /\ CancelledItems(D).value = SumFunctionOnSet(AmountOf, CancelledLines(D))
         /\ IsFiniteSet(CancelledLines(D)) /\ \A s \in CancelledLines(D) : AmountOf[s] \in Int
<1> DEFINE rows == CancelledLines(D)
           f == [s \in rows |-> Amount(s[1], s[2])]
<1>1. rows \subseteq Sold(Invoices)
  BY DEF CancelledLines, Sold
<1>2. /\ IsFiniteSet(Sold(Invoices))
      /\ \A s \in Sold(Invoices) : AmountOf[s] = Amount(s[1], s[2]) /\ AmountOf[s] \in Int
  BY SoldLines
<1>3. IsFiniteSet(rows)
  BY <1>1, <1>2, FS_Subset
<1>4. CancelledItems(D).value = SumFunctionOnSet(f, rows)
  BY DEF CancelledItems, SumOver, SumFunction
<1>5. \A s \in rows : AmountOf[s] \in Int /\ AmountOf[s] = f[s]
  BY <1>1, <1>2
<1> HIDE DEF f, rows
<1>6. SumFunctionOnSet(AmountOf, rows) = SumFunctionOnSet(f, rows)
  BY <1>3, <1>5, SumSame
<1> QED
  BY <1>3, <1>4, <1>5, <1>6 DEF rows

\* The revenue of an invoice in salesDaily, as often as the join repeats it.
Takings(method) ==
  [i \in Invoices |-> (IF method = Nothing THEN 1 ELSE Copies(i, method)) * FinalAmount(i)]

Listed(D, method) == {i \in Billed(D) : Copies(i, method) > 0}

LEMMA DailyRevenueIs ==
  ASSUME SalesInv, NEW D, NEW method
  PROVE  /\ DailySummary(D, method).revenue = SumFunctionOnSet(Takings(method), Listed(D, method))
         /\ IsFiniteSet(Listed(D, method))
         /\ \A i \in Listed(D, method) : Takings(method)[i] \in Int
<1> DEFINE S == Listed(D, method)
           f == [i \in S |-> (IF method = Nothing THEN 1 ELSE Copies(i, method)) * FinalAmount(i)]
<1>1. S \subseteq Invoices /\ IsFiniteSet(S)
  <2>1. S \subseteq Invoices
    BY DEF Listed, Billed
  <2> QED
    BY <2>1, FS_Subset, ReportsAssumption
<1>2. DailySummary(D, method).revenue = SumFunctionOnSet(f, S)
  BY DEF DailySummary, SumOver, SumFunction, Listed
<1>3. \A i \in S : f[i] \in Int /\ f[i] = Takings(method)[i]
  <2> TAKE i \in S
  <2> DEFINE n == IF method = Nothing THEN 1 ELSE Copies(i, method)
             c == FinalAmount(i)
  <2>1. f[i] = n * c /\ Takings(method)[i] = n * c
    BY <1>1 DEF Takings
  <2>2. c \in Int
    BY <1>1, AmountsType
  <2>3. n \in Int
    <3>1. CASE method = Nothing
      BY <3>1
    <3>2. CASE method # Nothing
      <4>1. sales[i].payments \in Seq(Payment)
        BY DEF Listed, Billed, SalesInv, SaleOK
      <4>2. IsFiniteSet(DOMAIN sales[i].payments)
        BY <4>1, SequenceFacts
      <4>3. Cardinality({k \in DOMAIN sales[i].payments : sales[i].payments[k].method = method}) \in Int
        BY <4>2, FS_Subset, FS_CardinalityType
      <4> QED
        BY <3>2, <4>3 DEF Copies
    <3> QED
      BY <3>1, <3>2
  <2> HIDE DEF n, c, f
  <2> QED
    BY <2>1, <2>2, <2>3
<1> HIDE DEF f, S
<1>4. SumFunctionOnSet(f, S) = SumFunctionOnSet(Takings(method), S)
  BY <1>1, <1>3, SumSame
<1> QED
  BY <1>1, <1>2, <1>3, <1>4 DEF S

\* Two periods one after the other add up in every report by dates.
LEMMA DaysAdd == ReturnsInv /\ TakenFits /\ SalesInv => DaysAddUp
<1> SUFFICES ASSUME ReturnsInv, TakenFits, SalesInv,
                    NEW from \in Days, NEW to \in Days, NEW mid \in from..(to - 1)
             PROVE  LET W == LocalRange(from, to)
                        A == LocalRange(from, mid)
                        B == LocalRange(mid + 1, to)
                    IN /\ ProfitDaily(W).profit = ProfitDaily(A).profit + ProfitDaily(B).profit
                       /\ CashbookDaily(W).diff = CashbookDaily(A).diff + CashbookDaily(B).diff
                       /\ CashbookDaily(W).voucherCount = CashbookDaily(A).voucherCount + CashbookDaily(B).voucherCount
                       /\ CashSummary(from, mid).closingBalance = CashSummary(mid + 1, to).openingBalance
                       /\ CashSummary(from, to).closingBalance = CashSummary(mid + 1, to).closingBalance
                       /\ CashSummary(Nothing, to).closingBalance = CashSummary(from, to).closingBalance
                       /\ CancelledItems(W).value = CancelledItems(A).value + CancelledItems(B).value
                       /\ \A method \in {p.method : p \in Payments} \cup {Nothing} :
                            DailySummary(W, method).revenue
                              = DailySummary(A, method).revenue + DailySummary(B, method).revenue
  BY DEF DaysAddUp
<1> DEFINE W == LocalRange(from, to)
           A == LocalRange(from, mid)
           B == LocalRange(mid + 1, to)
<1>1. /\ W = A \cup B /\ A \cap B = {} /\ IsFiniteSet(A) /\ IsFiniteSet(B) /\ IsFiniteSet(W)
      /\ mid \in Days /\ mid + 1 \in Days /\ mid + 1 <= to
  BY Ranges
<1> HIDE DEF W, A, B
<1>2. ProfitDaily(W).profit = ProfitDaily(A).profit + ProfitDaily(B).profit
  <2> DEFINE p(S) == SumFunctionOnSet(FinalOf, S)  c(S) == SumFunctionOnSet(CostOf, S)
  <2>1. /\ ProfitDaily(W).profit = p(Paid(W)) - c(Paid(W))
        /\ ProfitDaily(A).profit = p(Paid(A)) - c(Paid(A))
        /\ ProfitDaily(B).profit = p(Paid(B)) - c(Paid(B))
    BY <1>1, ProfitOfPeriod
  <2>2. /\ Paid(A \cup B) = Paid(A) \cup Paid(B) /\ Paid(A) \cap Paid(B) = {}
        /\ Paid(A) \subseteq Invoices /\ Paid(B) \subseteq Invoices
    BY <1>1, Periods
  <2>3. Paid(W) = Paid(A) \cup Paid(B)
    BY <1>1, <2>2, Zenon
  <2>4. /\ IsFiniteSet(Paid(A)) /\ IsFiniteSet(Paid(B))
        /\ \A i \in Paid(A) \cup Paid(B) : FinalOf[i] \in Int /\ CostOf[i] \in Int
    <3>1. \A i \in Invoices : FinalOf[i] \in Int /\ CostOf[i] \in Int
      BY AmountsType, CostType DEF FinalOf, CostOf
    <3>2. IsFiniteSet(Paid(A)) /\ IsFiniteSet(Paid(B))
      BY <2>2, FS_Subset, ReportsAssumption
    <3> QED
      BY <2>2, <3>1, <3>2
  <2>5. p(Paid(A) \cup Paid(B)) = p(Paid(A)) + p(Paid(B))
    BY <2>2, <2>4, SumUnion
  <2>6. c(Paid(A) \cup Paid(B)) = c(Paid(A)) + c(Paid(B))
    BY <2>2, <2>4, SumUnion
  <2>7. p(Paid(W)) = p(Paid(A) \cup Paid(B)) /\ c(Paid(W)) = c(Paid(A) \cup Paid(B))
    BY <2>3, Zenon
  <2>8. /\ p(Paid(A)) \in Int /\ p(Paid(B)) \in Int /\ c(Paid(A)) \in Int /\ c(Paid(B)) \in Int
    BY <2>2, Totals
  <2> HIDE DEF p, c
  <2> QED
    BY <2>1, <2>5, <2>6, <2>7, <2>8
<1>3. /\ CashbookDaily(W).diff = CashbookDaily(A).diff + CashbookDaily(B).diff
      /\ CashbookDaily(W).voucherCount = CashbookDaily(A).voucherCount + CashbookDaily(B).voucherCount
  <2>1. CashbookDaily(W) = CashbookDaily(A \cup B)
    BY <1>1, Zenon
  <2> QED
    BY <1>1, <2>1, CashbookDays
<1>4. /\ CashSummary(from, mid).closingBalance = CashSummary(mid + 1, to).openingBalance
      /\ CashSummary(from, to).closingBalance = CashSummary(mid + 1, to).closingBalance
      /\ CashSummary(Nothing, to).closingBalance = CashSummary(from, to).closingBalance
  <2>1. /\ from \in 1..mid /\ from \in 1..to /\ (mid + 1) \in 1..to
        /\ (mid + 1) - 1 = mid /\ mid + 1 # Nothing
    BY <1>1, ReportsAssumption, BoundsAssumption DEF Days
  <2>2. /\ CashSummary(from, mid).closingBalance = CashbookDaily(UpTo(mid)).diff
        /\ CashSummary(from, to).closingBalance = CashbookDaily(UpTo(to)).diff
        /\ CashSummary(Nothing, to).closingBalance = CashbookDaily(UpTo(to)).diff
    BY <1>1, <2>1, Balances
  <2>3. /\ CashSummary(mid + 1, to).closingBalance = CashbookDaily(UpTo(to)).diff
        /\ CashSummary(mid + 1, to).openingBalance = CashbookDaily(UpTo((mid + 1) - 1)).diff
    BY <2>1, Balances
  <2>4. CashbookDaily(UpTo((mid + 1) - 1)).diff = CashbookDaily(UpTo(mid)).diff
    BY <2>1, Zenon
  <2> QED
    BY <2>2, <2>3, <2>4
<1>5. CancelledItems(W).value = CancelledItems(A).value + CancelledItems(B).value
  <2>1. /\ CancelledLines(A \cup B) = CancelledLines(A) \cup CancelledLines(B)
        /\ CancelledLines(A) \cap CancelledLines(B) = {}
    BY <1>1 DEF CancelledLines
  <2>2. CancelledItems(W).value = SumFunctionOnSet(AmountOf, CancelledLines(A) \cup CancelledLines(B))
    <3>1. CancelledItems(W).value = SumFunctionOnSet(AmountOf, CancelledLines(W))
      BY CancelledIs
    <3>2. CancelledLines(W) = CancelledLines(A) \cup CancelledLines(B)
      BY <1>1, <2>1, Zenon
    <3> QED
      BY <3>1, <3>2, Zenon
  <2>3. /\ IsFiniteSet(CancelledLines(A)) /\ IsFiniteSet(CancelledLines(B))
        /\ \A s \in CancelledLines(A) \cup CancelledLines(B) : AmountOf[s] \in Int
    BY CancelledIs
  <2>4. SumFunctionOnSet(AmountOf, CancelledLines(A) \cup CancelledLines(B))
          = SumFunctionOnSet(AmountOf, CancelledLines(A)) + SumFunctionOnSet(AmountOf, CancelledLines(B))
    BY <2>1, <2>3, SumUnion
  <2> QED
    BY <2>2, <2>4, CancelledIs
<1>6. ASSUME NEW method
      PROVE  DailySummary(W, method).revenue = DailySummary(A, method).revenue + DailySummary(B, method).revenue
  <2> DEFINE S == Listed(A, method)  T == Listed(B, method)  f == Takings(method)
  <2>1. Listed(A \cup B, method) = S \cup T /\ S \cap T = {}
    <3>1. Billed(A \cup B) = Billed(A) \cup Billed(B) /\ Billed(A) \cap Billed(B) = {}
      BY <1>1, Periods
    <3> QED
      BY <3>1 DEF Listed
  <2>2. Listed(W, method) = S \cup T
    BY <1>1, <2>1, Zenon
  <2>3. /\ DailySummary(W, method).revenue = SumFunctionOnSet(f, Listed(W, method))
        /\ DailySummary(A, method).revenue = SumFunctionOnSet(f, S)
        /\ DailySummary(B, method).revenue = SumFunctionOnSet(f, T)
        /\ IsFiniteSet(S) /\ IsFiniteSet(T) /\ \A i \in S \cup T : f[i] \in Int
    BY DailyRevenueIs
  <2> HIDE DEF S, T, f
  <2>4. SumFunctionOnSet(f, S \cup T) = SumFunctionOnSet(f, S) + SumFunctionOnSet(f, T)
    BY <2>1, <2>3, SumUnion
  <2>5. SumFunctionOnSet(f, Listed(W, method)) = SumFunctionOnSet(f, S \cup T)
    BY <2>2, Zenon
  <2> QED
    BY <2>3, <2>4, <2>5
<1> QED
  BY <1>2, <1>3, <1>4, <1>5, <1>6 DEF W, A, B

\* resolveLocalRange and the reports by dates: no sale, voucher or cancelled line
\* is counted on two days or on none.
THEOREM PeriodsAddUp == Spec => []DaysAddUp
<1>1. ReturnsInv /\ FlowInv /\ SalesInv => DaysAddUp
  BY DaysAdd DEF FlowInv
<1> QED
  BY <1>1, FlowInvariance, PTL

----------------------------------------------------------------------------
(* The dashboard.                                                          *)

LEMMA LatelyFacts ==
  ASSUME NEW D
  PROVE  /\ PaidLately(D) \subseteq Paid(Days) /\ PaidLately(D) \subseteq Invoices
         /\ IsFiniteSet(PaidLately(D))
         /\ Summary(D).revenue = SumFunctionOnSet(FinalOf, PaidLately(D))
         /\ \A i \in PaidLately(D) : FinalOf[i] \in Int
<1>1. PaidLately(D) \subseteq Paid(Days) /\ PaidLately(D) \subseteq Invoices
  BY DEF PaidLately, Paid, Billed
<1>2. Summary(D).revenue = SumOver(FinalAmount, PaidLately(D))
  BY DEF Summary
<1>3. \A i \in PaidLately(D) : FinalOf[i] \in Int
  BY <1>1, AmountsType DEF FinalOf
<1> QED
  BY <1>1, <1>2, <1>3, Totals

\* The revenue of a range of days is that of its buckets, however the days are
\* put into them.
Bucketed(h, key, D, T) ==
  /\ \A d \in D : key[d] \in T
  /\ \A t \in T : h[t] = SumOver(FinalAmount, PaidLately({d \in D : key[d] = t}))

LEMMA Buckets ==
  ASSUME NEW D, NEW T, IsFiniteSet(T), NEW key, NEW h, Bucketed(h, key, D, T)
  PROVE  SumFunctionOnSet(h, T) = Summary(D).revenue
<1> DEFINE S == PaidLately(D)
           g == [i \in Invoices |-> key[sales[i].updatedAt]]
           bucket(t) == {d \in D : key[d] = t}
<1>1. S \subseteq Invoices /\ IsFiniteSet(S) /\ \A i \in S : FinalOf[i] \in Int
  BY LatelyFacts
<1>2. \A i \in S : g[i] \in T
  BY <1>1 DEF PaidLately, Bucketed
<1>3. \A t \in T : {i \in S : g[i] = t} = PaidLately(bucket(t))
  <2> TAKE t \in T
  <2>1. \A i \in Paid(Days) : i \in PaidLately(bucket(t)) <=> i \in S /\ g[i] = t
    BY DEF PaidLately, Paid, Billed
  <2>2. PaidLately(bucket(t)) \subseteq Paid(Days) /\ S \subseteq Paid(Days)
    BY LatelyFacts
  <2> HIDE DEF S, g, bucket
  <2> QED
    BY <2>1, <2>2
<1>4. \A t \in T : h[t] = SumFunctionOnSet(FinalOf, {i \in S : g[i] = t})
  <2> TAKE t \in T
  <2>1. SumOver(FinalAmount, PaidLately(bucket(t))) = SumFunctionOnSet(FinalOf, PaidLately(bucket(t)))
    BY LatelyFacts, Totals
  <2>2. h[t] = SumOver(FinalAmount, PaidLately(bucket(t)))
    BY DEF Bucketed
  <2>3. SumFunctionOnSet(FinalOf, {i \in S : g[i] = t}) = SumFunctionOnSet(FinalOf, PaidLately(bucket(t)))
    BY <1>3, Zenon
  <2> QED
    BY <2>1, <2>2, <2>3
<1>5. Summary(D).revenue = SumFunctionOnSet(FinalOf, S)
  BY LatelyFacts
<1> HIDE DEF S, g
<1>6. GroupedBy(FinalOf, g, h, S, T)
  BY <1>1, <1>2, <1>4 DEF GroupedBy
<1> QED
  BY <1>1, <1>5, <1>6, SumGroups

\* topItems: every line sold is one dish's.
LEMMA TopItemsAdd ==
  ASSUME NEW D
  PROVE  LET revenue == TopItems(D, "revenue")
         IN SumOver(LAMBDA d : revenue[d], DOMAIN Recipe) = SumFunctionOnSet(TotalOf, PaidLately(D))
<1> DEFINE S == PaidLately(D)
           dish == [s \in Sold(Invoices) |-> Order[s[1]].lines[s[2]].dish]
           h == [d \in DOMAIN Recipe |-> TopItems(D, "revenue")[d]]
           part(d) == {s \in Sold(S) : Order[s[1]].lines[s[2]].dish = d}
<1>1. S \subseteq Invoices
  BY LatelyFacts
<1>2. \A d \in DOMAIN Recipe : h[d] = SumFunctionOnSet([s \in part(d) |-> Amount(s[1], s[2])], part(d))
  BY DEF TopItems, SumOver, SumFunction, Sold
<1>3. SumOver(LAMBDA d : TopItems(D, "revenue")[d], DOMAIN Recipe) = SumFunctionOnSet(h, DOMAIN Recipe)
  BY DEF SumOver, SumFunction
<1> HIDE DEF S, h
<1>4. \A s \in Sold(S) : AmountOf[s] \in Int /\ dish[s] \in DOMAIN Recipe
  <2> TAKE s \in Sold(S)
  <2>1. s \in Sold(Invoices) /\ s[1] \in Invoices /\ s[2] \in Lines(s[1]) /\ AmountOf[s] \in Int
    BY <1>1, SoldLines
  <2> QED
    BY <2>1, LineType
<1>5. \A d \in DOMAIN Recipe : part(d) = {s \in Sold(S) : dish[s] = d}
  <2>1. Sold(S) \subseteq Sold(Invoices)
    BY <1>1, SoldLines
  <2> QED
    BY <2>1
<1>6. \A d \in DOMAIN Recipe : h[d] = SumFunctionOnSet(AmountOf, {s \in Sold(S) : dish[s] = d})
  <2> TAKE d \in DOMAIN Recipe
  <2> DEFINE P == part(d)
             f == [s \in P |-> Amount(s[1], s[2])]
  <2>1. /\ IsFiniteSet(Sold(S))
        /\ \A s \in Sold(S) : AmountOf[s] = Amount(s[1], s[2]) /\ AmountOf[s] \in Int
    BY <1>1, SoldLines
  <2>2. P \subseteq Sold(S)
    OBVIOUS
  <2> HIDE DEF P
  <2>3. IsFiniteSet(P) /\ \A s \in P : AmountOf[s] \in Int /\ AmountOf[s] = f[s]
    BY <2>1, <2>2, FS_Subset
  <2> HIDE DEF f
  <2>4. SumFunctionOnSet(AmountOf, P) = SumFunctionOnSet(f, P)
    BY <2>3, SumSame
  <2>5. h[d] = SumFunctionOnSet(f, P)
    BY <1>2 DEF f, P
  <2>6. SumFunctionOnSet(AmountOf, {s \in Sold(S) : dish[s] = d}) = SumFunctionOnSet(AmountOf, P)
    BY <1>5, Zenon DEF P
  <2> QED
    BY <2>4, <2>5, <2>6
<1> HIDE DEF dish, part
<1>7. GroupedBy(AmountOf, dish, h, Sold(S), DOMAIN Recipe)
  BY <1>4, <1>6 DEF GroupedBy
<1>8. SumFunctionOnSet(h, DOMAIN Recipe) = SumFunctionOnSet(AmountOf, Sold(S))
  BY <1>1, <1>7, SoldLines, SumGroups, ReportsAssumption
<1>9. SumFunctionOnSet(AmountOf, Sold(S)) = SumFunctionOnSet(TotalOf, S)
  BY <1>1, SoldLines
<1> QED
  BY <1>3, <1>8, <1>9 DEF S

LEMMA DashboardAdds == SalesInv => DashboardAddsUp
<1> SUFFICES ASSUME SalesInv PROVE DashboardAddsUp
  OBVIOUS
<1>1. ASSUME NEW key \in {"today", "yesterday", "last7", "thisMonth", "lastMonth"}
      PROVE  LET D == RangeOf(key) \cap Days
                 byDay == SeriesByDay(D)
                 byWeekday == SeriesByWeekday(D)
             IN /\ Summary(D).revenue = SumOver(LAMBDA d : byDay[d], D)
                /\ Summary(D).revenue = SumOver(LAMBDA w : byWeekday[w], 0..6)
  <2> DEFINE D == RangeOf(key) \cap Days
             h == [d \in D |-> SeriesByDay(D)[d]]
             w == [t \in 0..6 |-> SeriesByWeekday(D)[t]]
             same == [d \in D |-> d]
             weekday == [d \in D |-> d % 7]
  <2>1. D \subseteq Int /\ IsFiniteSet(D)
    <3>1. D \subseteq Days /\ Days \subseteq Int /\ IsFiniteSet(Days)
      BY FS_Interval, BoundsAssumption DEF Days
    <3> QED
      BY <3>1, FS_Subset
  <2> HIDE DEF D
  <2>2. /\ \A d \in D : h[d] = SumOver(FinalAmount, PaidLately({d}))
        /\ \A t \in 0..6 : w[t] = SumOver(FinalAmount, PaidLately({d \in D : d % 7 = t}))
    BY DEF SeriesByDay, SeriesByWeekday
  <2>3. /\ SumOver(LAMBDA d : SeriesByDay(D)[d], D) = SumFunctionOnSet(h, D)
        /\ SumOver(LAMBDA t : SeriesByWeekday(D)[t], 0..6) = SumFunctionOnSet(w, 0..6)
    BY DEF SumOver, SumFunction
  <2> HIDE DEF h, w
  <2>4. SumFunctionOnSet(h, D) = Summary(D).revenue
    <3>1. \A d \in D : same[d] \in D /\ {e \in D : same[e] = d} = {d}
      OBVIOUS
    <3>2. \A d \in D : h[d] = SumOver(FinalAmount, PaidLately({e \in D : same[e] = d}))
      <4> TAKE d \in D
      <4>1. {e \in D : same[e] = d} = {d}
        BY <3>1
      <4>2. PaidLately({e \in D : same[e] = d}) = PaidLately({d})
        BY <4>1, Zenon
      <4>3. h[d] = SumOver(FinalAmount, PaidLately({d}))
        BY <2>2
      <4> QED
        BY <4>2, <4>3, Zenon
    <3> HIDE DEF same
    <3>3. Bucketed(h, same, D, D)
      BY <3>1, <3>2 DEF Bucketed
    <3> QED
      BY <2>1, <3>3, Buckets
  <2>5. SumFunctionOnSet(w, 0..6) = Summary(D).revenue
    <3>1. \A d \in D : weekday[d] \in 0..6
      <4> TAKE d \in D
      <4>1. d \in Int /\ weekday[d] = d % 7
        BY <2>1
      <4> HIDE DEF weekday
      <4> QED
        BY <4>1
    <3>2. IsFiniteSet(0..6)
      <4>1. 0 \in Int /\ 6 \in Int
        OBVIOUS
      <4> QED
        BY <4>1, FS_Interval
    <3>3. \A t \in 0..6 : w[t] = SumOver(FinalAmount, PaidLately({d \in D : weekday[d] = t}))
      <4> TAKE t \in 0..6
      <4>1. {d \in D : weekday[d] = t} = {d \in D : d % 7 = t}
        OBVIOUS
      <4>2. PaidLately({d \in D : weekday[d] = t}) = PaidLately({d \in D : d % 7 = t})
        BY <4>1, Zenon
      <4>3. w[t] = SumOver(FinalAmount, PaidLately({d \in D : d % 7 = t}))
        BY <2>2
      <4> QED
        BY <4>2, <4>3, Zenon
    <3> HIDE DEF weekday
    <3>4. Bucketed(w, weekday, D, 0..6)
      BY <3>1, <3>3 DEF Bucketed
    <3> QED
      BY <3>2, <3>4, Buckets
  <2>6. /\ Summary(D).revenue = SumOver(LAMBDA d : SeriesByDay(D)[d], D)
        /\ Summary(D).revenue = SumOver(LAMBDA t : SeriesByWeekday(D)[t], 0..6)
    BY <2>3, <2>4, <2>5
  <2> QED
    BY <2>6 DEF D
<1>2. RangeOf("lastMonth") \cap RangeOf("thisMonth") = {}
  <2> DEFINE first == today - (today % MonthLength)  n == MonthLength
  <2>1. first \in Int /\ n \in Nat \ {0}
    <3>1. today \in Int /\ n \in Nat \ {0}
      BY ReportsAssumption, BoundsAssumption DEF SalesInv
    <3> QED
      BY <3>1
  <2>2. RangeOf("lastMonth") = (first - n)..(first - 1) /\ RangeOf("thisMonth") = first..(first + n - 1)
    BY DEF RangeOf
  <2> HIDE DEF first, n
  <2> QED
    BY <2>1, <2>2
<1>3. PaidLately(Days) = Paid(Days)
  <2>1. \A i \in Paid(Days) : sales[i].updatedAt \in Days
    BY BoundsAssumption DEF Paid, Billed, SalesInv, SaleOK, Days
  <2> QED
    BY <2>1 DEF PaidLately
<1>4. Summary(Days).revenue = ProfitDaily(Days).revenue
  <2>1. IsFiniteSet(Days)
    BY FS_Interval, BoundsAssumption DEF Days
  <2>2. Summary(Days).revenue = SumFunctionOnSet(FinalOf, Paid(Days))
    BY <1>3, LatelyFacts, Zenon
  <2>3. ProfitDaily(Days).revenue = SumFunctionOnSet(FinalOf, Paid(Days))
    BY <2>1, ProfitOfPeriod
  <2> QED
    BY <2>2, <2>3
<1>5. LET revenue == TopItems(Days, "revenue")
      IN SumOver(LAMBDA d : revenue[d], DOMAIN Recipe) = InvoiceDiscounts(Days).goodsAmount
  <2>1. Paid(Days) \subseteq Invoices
    BY DEF Paid, Billed
  <2>2. InvoiceDiscounts(Days).goodsAmount = SumFunctionOnSet(TotalOf, Paid(Days))
    BY <2>1, Totals DEF InvoiceDiscounts
  <2>3. SumOver(LAMBDA d : TopItems(Days, "revenue")[d], DOMAIN Recipe) = SumFunctionOnSet(TotalOf, PaidLately(Days))
    BY TopItemsAdd
  <2>4. SumFunctionOnSet(TotalOf, PaidLately(Days)) = SumFunctionOnSet(TotalOf, Paid(Days))
    BY <1>3, Zenon
  <2> QED
    BY <2>2, <2>3, <2>4
<1> QED
  BY <1>1, <1>2, <1>4, <1>5, Zenon DEF DashboardAddsUp

\* summary, salesSeries and topItems: the same revenue by day, weekday and dish.
THEOREM DashboardIsWhole == Spec => []DashboardAddsUp
<1>1. SalesInv => DashboardAddsUp
  BY DashboardAdds
<1> QED
  BY <1>1, FlowInvariance, PTL

----------------------------------------------------------------------------
(* Shares of a promotion.                                                  *)

LEMMA WholeShares ==
  ASSUME NEW a \in Nat, NEW g \in Nat \ {0}
  PROVE  a \div g \in Nat /\ g * (a \div g) <= a /\ a < g * (a \div g) + g
<1>1. a = g * (a \div g) + (a % g) /\ 0 <= a % g /\ a % g < g /\ a \div g \in Int
  OBVIOUS
<1>2. a \div g >= 0
  OBVIOUS
<1> QED
  BY <1>1, <1>2

\* A promotion p split over lines S, in proportion to their amounts: at most p,
\* and less than one unit below it for every line.
LEMMA SplitPromotion ==
  ASSUME NEW S, IsFiniteSet(S), NEW A, NEW Q, NEW p \in Nat, NEW g \in Nat \ {0},
         \A l \in S : A[l] \in Nat /\ Q[l] = (p * A[l]) \div g,
         SumFunctionOnSet(A, S) = g
  PROVE  /\ SumFunctionOnSet(Q, S) \in Int /\ SumFunctionOnSet(Q, S) <= p
         /\ p <= SumFunctionOnSet(Q, S) + Cardinality(S)
<1> DEFINE low == [l \in S |-> g * Q[l]]
           mid == [l \in S |-> p * A[l]]
           unit == [l \in S |-> g]
           high == [l \in S |-> g * Q[l] + g]
           sum(f) == SumFunctionOnSet(f, S)
<1>1. \A l \in S : Q[l] \in Int /\ g * Q[l] <= p * A[l] /\ p * A[l] <= g * Q[l] + g
  <2> TAKE l \in S
  <2> DEFINE x == p * A[l]
  <2>1. x \in Nat /\ Q[l] = x \div g
    <3>1. A[l] \in Nat /\ Q[l] = x \div g
      OBVIOUS
    <3> QED
      BY <3>1, Products
  <2> HIDE DEF x
  <2>2. Q[l] \in Int /\ g * Q[l] <= x /\ x < g * Q[l] + g
    <3>1. x \div g \in Nat /\ g * (x \div g) <= x /\ x < g * (x \div g) + g
      BY <2>1, WholeShares
    <3> QED
      BY <2>1, <3>1
  <2>3. g * Q[l] + g \in Int /\ x \in Int
    BY <2>1, <2>2
  <2>4. x <= g * Q[l] + g
    BY <2>2, <2>3
  <2> QED
    BY <2>2, <2>4 DEF x
<1>2. \A l \in S : /\ Q[l] \in Int /\ A[l] \in Int /\ unit[l] = g
                   /\ low[l] = g * Q[l] /\ mid[l] = p * A[l] /\ high[l] = low[l] + unit[l]
                   /\ low[l] \in Int /\ mid[l] \in Int /\ high[l] \in Int
                   /\ low[l] <= mid[l] /\ mid[l] <= high[l]
  <2> TAKE l \in S
  <2> DEFINE q == Q[l]  x == A[l]
  <2>1. q \in Int /\ x \in Int /\ g * q <= p * x /\ p * x <= g * q + g
    BY <1>1
  <2>2. low[l] = g * q /\ mid[l] = p * x /\ unit[l] = g /\ high[l] = g * q + g
    OBVIOUS
  <2>3. g * q \in Int /\ p * x \in Int
    BY <2>1
  <2> HIDE DEF low, mid, unit, high, q, x
  <2>4. low[l] \in Int /\ mid[l] \in Int /\ high[l] \in Int /\ low[l] <= mid[l] /\ mid[l] <= high[l]
    BY <2>1, <2>2, <2>3
  <2> QED
    BY <2>1, <2>2, <2>4 DEF q, x
<1> HIDE DEF low, mid, high, unit
<1>3. sum(low) = g * sum(Q)
  <2>1. Scales(Q, low, g, S)
    BY <1>2 DEF Scales
  <2> QED
    BY <2>1, SumScaled
<1>4. sum(mid) = p * sum(A)
  <2>1. Scales(A, mid, p, S)
    BY <1>2 DEF Scales
  <2> QED
    BY <2>1, SumScaled
<1>5. sum(high) = sum(low) + sum(unit)
  <2>1. Adds(low, unit, high, S)
    BY <1>2 DEF Adds
  <2> QED
    BY <2>1, SumAdds
<1>6. sum(low) <= sum(mid) /\ sum(mid) <= sum(high)
  BY <1>2, SumLeq
<1>7. sum(unit) <= g * Cardinality(S) /\ Cardinality(S) \in Nat /\ sum(unit) \in Int
  <2>1. \A l \in S : unit[l] \in Int /\ -g <= unit[l] /\ unit[l] <= g
    BY <1>2
  <2> QED
    BY <2>1, SumWithin, SumRemove, FS_CardinalityType
<1>8. sum(Q) \in Int /\ sum(A) = g
  BY <1>2, SumRemove
<1> HIDE DEF sum
<1>9. PICK n \in Nat, q \in Int, o \in Int : n = Cardinality(S) /\ q = sum(Q) /\ o = sum(unit)
  BY <1>7, <1>8
<1>10. g * q <= p * g /\ p * g <= g * q + g * n
  <2>1. g * q \in Int /\ p * g \in Int /\ g * n \in Int
    OBVIOUS
  <2>2. sum(low) = g * q /\ sum(mid) = p * g /\ sum(high) = g * q + o /\ o <= g * n
    BY <1>3, <1>4, <1>5, <1>7, <1>8, <1>9
  <2>3. g * q <= p * g /\ p * g <= g * q + o
    BY <1>6, <2>2
  <2> QED
    BY <2>1, <2>2, <2>3
<1>11. q <= p
  <2> SUFFICES ASSUME q >= p + 1 PROVE FALSE
    OBVIOUS
  <2>1. g * q >= g * (p + 1) /\ g * (p + 1) = p * g + g
    OBVIOUS
  <2> QED
    BY <1>10, <2>1
<1>12. p <= q + n
  <2> SUFFICES ASSUME p >= q + n + 1 PROVE FALSE
    OBVIOUS
  <2>1. g * p >= g * (q + n + 1) /\ g * (q + n + 1) = g * q + g * n + g
    OBVIOUS
  <2> QED
    BY <1>10, <2>1
<1> QED
  BY <1>9, <1>11, <1>12 DEF sum

AllocatedTo(i) == SumFunctionOnSet([l \in Lines(i) |-> Allocated(i, l)], Lines(i))

\* What an invoice's lines bear of its promotions.
LEMMA Allocation ==
  ASSUME NEW i \in Invoices
  PROVE  /\ \A l \in Lines(i) : Allocated(i, l) \in Int
         /\ AllocatedTo(i) \in Int /\ Promised(i) \in Int /\ Shares(i) \in Int
         /\ AllocatedTo(i) <= Promised(i) /\ Promised(i) <= AllocatedTo(i) + Shares(i)
<1> DEFINE promo(k) == Order[i].promos[k]
           L == Lines(i)
           K == DOMAIN Order[i].promos
           scope == [k \in K |-> Scope(i, promo(k))]
           about == [l \in L |-> {k \in K : l \in Scope(i, promo(k))}]
           share(k, l) == (promo(k).amount * Amount(i, l)) \div GoodsOfScope(i, promo(k))
           row == [l \in L |-> [k \in K |-> IF l \in scope[k] THEN share(k, l) ELSE 0]]
           col == [k \in K |-> [l \in L |-> IF l \in scope[k] THEN share(k, l) ELSE 0]]
           rowIn == [l \in L |-> [k \in about[l] |-> share(k, l)]]
           colIn == [k \in K |-> [l \in scope[k] |-> share(k, l)]]
           r == [l \in L |-> Allocated(i, l)]
           c == [k \in K |-> SumFunctionOnSet(colIn[k], scope[k])]
           amount == [k \in K |-> promo(k).amount]
           n == [k \in K |-> Cardinality(Scope(i, promo(k)))]
<1>1. IsFiniteSet(L) /\ IsFiniteSet(K)
  BY AmountsType, SalesAssumption
<1>2. \A k \in K : scope[k] \subseteq L /\ IsFiniteSet(scope[k]) /\ n[k] = Cardinality(scope[k])
  <2> TAKE k \in K
  <2>1. Scope(i, promo(k)) \subseteq L
    BY DEF Scope
  <2>2. scope[k] = Scope(i, promo(k)) /\ n[k] = Cardinality(Scope(i, promo(k)))
    OBVIOUS
  <2> HIDE DEF scope, promo, L, n
  <2> QED
    BY <1>1, <2>1, <2>2, FS_Subset, Zenon
<1>3. \A k \in K : promo(k).amount \in Nat /\ GoodsOfScope(i, promo(k)) \in Nat \ {0}
  <2> TAKE k \in K
  <2> DEFINE S == Scope(i, promo(k))
             f == [l \in S |-> Amount(i, l)]
  <2>1. S \subseteq L /\ IsFiniteSet(S)
    BY <1>2
  <2>2. \A l \in S : f[l] \in Nat
    BY <2>1, AmountsType
  <2>3. GoodsOfScope(i, promo(k)) = SumFunctionOnSet(f, S)
    BY DEF GoodsOfScope, SumOver, SumFunction
  <2> HIDE DEF f, S
  <2>4. GoodsOfScope(i, promo(k)) \in Nat
    BY <2>1, <2>2, <2>3, SumNat
  <2>5. GoodsOfScope(i, promo(k)) > 0 /\ promo(k).amount \in Nat
    BY ReportsAssumption, SalesAssumption
  <2> QED
    BY <2>4, <2>5
<1>4. \A k \in K : \A l \in L : share(k, l) \in Int
  <2> TAKE k \in K
  <2> TAKE l \in L
  <2> DEFINE x == promo(k).amount * Amount(i, l)  g == GoodsOfScope(i, promo(k))
  <2>1. x \in Nat /\ g \in Nat \ {0} /\ share(k, l) = x \div g
    BY <1>3, AmountsType, Products
  <2> HIDE DEF x, g, share
  <2> QED
    BY <2>1, WholeShares
<1>5. \A k \in K : /\ c[k] \in Int /\ c[k] <= promo(k).amount /\ promo(k).amount <= c[k] + n[k]
                   /\ n[k] \in Nat
  <2> TAKE k \in K
  <2> DEFINE S == scope[k]
             A == [l \in S |-> Amount(i, l)]
             Q == [l \in S |-> share(k, l)]
             p == promo(k).amount
             g == GoodsOfScope(i, promo(k))
  <2>1. IsFiniteSet(S) /\ p \in Nat /\ g \in Nat \ {0} /\ S \subseteq L /\ n[k] = Cardinality(S)
    BY <1>2, <1>3
  <2>2. \A l \in S : A[l] \in Nat /\ Q[l] = (p * A[l]) \div g
    BY <2>1, AmountsType
  <2>3. SumFunctionOnSet(A, S) = g
    BY DEF GoodsOfScope, SumOver, SumFunction
  <2>4. c[k] = SumFunctionOnSet(Q, S)
    OBVIOUS
  <2> HIDE DEF S, A, Q, p, g, c, n
  <2>5. /\ SumFunctionOnSet(Q, S) \in Int /\ SumFunctionOnSet(Q, S) <= p
        /\ p <= SumFunctionOnSet(Q, S) + Cardinality(S)
    BY <2>1, <2>2, <2>3, SplitPromotion
  <2>6. Cardinality(S) \in Nat
    BY <2>1, FS_CardinalityType
  <2> QED
    BY <2>1, <2>4, <2>5, <2>6 DEF p
<1>6. \A l \in L : \A k \in K : row[l][k] \in Int /\ col[k][l] = row[l][k]
  <2> HIDE DEF share, scope
  <2> QED
    BY <1>4
<1>7. \A l \in L : r[l] = SumFunctionOnSet(row[l], K)
  <2> TAKE l \in L
  <2> DEFINE R == row[l]  P == about[l]  q == rowIn[l]
  <2>1. P \subseteq K /\ \A k \in P : q[k] \in Int /\ R[k] = q[k]
    BY <1>4
  <2>2. \A k \in K \ P : R[k] = 0
    OBVIOUS
  <2>3. r[l] = SumFunctionOnSet(q, P)
    BY DEF Allocated, SumOver, SumFunction
  <2> HIDE DEF R, P, q
  <2>4. Restricts(R, q, K, P)
    BY <2>1, <2>2 DEF Restricts
  <2>5. SumFunctionOnSet(R, K) = SumFunctionOnSet(q, P)
    BY <1>1, <2>4, SumRestricted
  <2> QED
    BY <2>3, <2>5 DEF R
<1>8. \A k \in K : c[k] = SumFunctionOnSet(col[k], L)
  <2> TAKE k \in K
  <2> DEFINE R == col[k]  P == scope[k]  q == colIn[k]
  <2>1. P \subseteq L
    BY <1>2
  <2>2. /\ \A l \in P : q[l] \in Int /\ R[l] = q[l]
        /\ \A l \in L \ P : R[l] = 0
    BY <1>4, <2>1
  <2>3. c[k] = SumFunctionOnSet(q, P)
    OBVIOUS
  <2> HIDE DEF R, P, q
  <2>4. Restricts(R, q, L, P)
    BY <2>1, <2>2 DEF Restricts
  <2>5. SumFunctionOnSet(R, L) = SumFunctionOnSet(q, P)
    BY <1>1, <2>4, SumRestricted
  <2> QED
    BY <2>3, <2>5 DEF R
<1>9. AllocatedTo(i) = SumFunctionOnSet(r, L)
  BY DEF AllocatedTo
<1>10. Promised(i) = SumFunctionOnSet(amount, K) /\ Shares(i) = SumFunctionOnSet(n, K)
  BY DEF Promised, Shares, SumOver, SumFunction
<1>11. \A k \in K : amount[k] = promo(k).amount
  OBVIOUS
<1>12. \A l \in L : r[l] = Allocated(i, l)
  OBVIOUS
<1> HIDE DEF promo, K, scope, about, share, row, col, rowIn, colIn, r, c, amount, n
<1>13. SumFunctionOnSet(r, L) = SumFunctionOnSet(c, K)
  <2>1. IsTable(row, col, r, c, L, K)
    BY <1>6, <1>7, <1>8 DEF IsTable
  <2> QED
    BY <1>1, <2>1, SumSwap
<1>14. \A l \in L : r[l] \in Int
  BY <1>1, <1>6, <1>7, SumRemove
<1>15. /\ SumFunctionOnSet(r, L) \in Int /\ SumFunctionOnSet(c, K) \in Int
       /\ SumFunctionOnSet(amount, K) \in Int /\ SumFunctionOnSet(n, K) \in Int
  <2>1. \A k \in K : c[k] \in Int /\ amount[k] \in Int /\ n[k] \in Int
    BY <1>3, <1>5, <1>11
  <2>2. SumFunctionOnSet(r, L) \in Int
    BY <1>1, <1>14, SumRemove
  <2>3. SumFunctionOnSet(c, K) \in Int
    BY <1>1, <2>1, SumRemove
  <2>4. SumFunctionOnSet(amount, K) \in Int
    BY <1>1, <2>1, SumRemove
  <2>5. SumFunctionOnSet(n, K) \in Int
    BY <1>1, <2>1, SumRemove
  <2> QED
    BY <2>2, <2>3, <2>4, <2>5
<1>16. SumFunctionOnSet(c, K) <= SumFunctionOnSet(amount, K)
  <2>1. \A k \in K : c[k] \in Int /\ amount[k] \in Int /\ c[k] <= amount[k]
    BY <1>3, <1>5, <1>11
  <2> QED
    BY <1>1, <2>1, SumLeq
<1>17. SumFunctionOnSet(amount, K) <= SumFunctionOnSet(c, K) + SumFunctionOnSet(n, K)
  <2> DEFINE h == [k \in K |-> c[k] + n[k]]
  <2>1. \A k \in K : amount[k] \in Int /\ h[k] \in Int /\ amount[k] <= h[k] /\ h[k] = c[k] + n[k]
    BY <1>3, <1>5, <1>11
  <2> HIDE DEF h
  <2>2. SumFunctionOnSet(h, K) = SumFunctionOnSet(c, K) + SumFunctionOnSet(n, K)
    <3>1. Adds(c, n, h, K)
      BY <1>5, <2>1 DEF Adds
    <3> QED
      BY <1>1, <3>1, SumAdds
  <2>3. SumFunctionOnSet(amount, K) <= SumFunctionOnSet(h, K)
    BY <1>1, <2>1, SumLeq
  <2> QED
    BY <2>2, <2>3
<1> QED
  BY <1>9, <1>10, <1>12, <1>13, <1>14, <1>15, <1>16, <1>17

AllocatedOf == [i \in Invoices |-> AllocatedTo(i)]
PromisedOf == [i \in Invoices |-> Promised(i)]
SharesOf == [i \in Invoices |-> Shares(i)]

\* What the lines of some invoices bear.
LEMMA SoldShares ==
  ASSUME NEW S, S \subseteq Invoices
  PROVE  LET f == [s \in Sold(S) |-> Allocated(s[1], s[2])]
         IN SumFunctionOnSet(f, Sold(S)) = SumFunctionOnSet(AllocatedOf, S)
<1> DEFINE L == [i \in Invoices |-> Lines(i)]
           f == [s \in Sold(S) |-> Allocated(s[1], s[2])]
<1>1. \A i \in S : IsFiniteSet(L[i]) /\ L[i] = Lines(i)
  BY AmountsType
<1>2. Sold(S) = PairsOver(S, L)
  <2> HIDE DEF L
  <2>1. {{<<i, l>> : l \in Lines(i)} : i \in S} = {{<<i, l>> : l \in L[i]} : i \in S}
    BY <1>1
  <2> QED
    BY <2>1, Zenon DEF Sold, PairsOver
<1>3. \A i \in S : \A l \in L[i] : f[<<i, l>>] = Allocated(i, l) /\ f[<<i, l>>] \in Int
  <2> TAKE i \in S
  <2> TAKE l \in L[i]
  <2>1. <<i, l>> \in Sold(S) /\ l \in Lines(i)
    BY <1>1 DEF Sold
  <2>2. f[<<i, l>>] = Allocated(i, l)
    BY <2>1
  <2> QED
    BY <2>1, <2>2, Allocation
<1> HIDE DEF f
<1>4. \A i \in S : AllocatedOf[i] = SumFunctionOnSet([l \in L[i] |-> f[<<i, l>>]], L[i])
  <2> TAKE i \in S
  <2>1. L[i] = Lines(i)
    BY <1>1
  <2>2. [l \in L[i] |-> f[<<i, l>>]] = [l \in Lines(i) |-> Allocated(i, l)]
    <3> HIDE DEF L
    <3> QED
      BY <1>3, <2>1
  <2>3. AllocatedOf[i] = SumFunctionOnSet([l \in Lines(i) |-> Allocated(i, l)], Lines(i))
    BY DEF AllocatedOf, AllocatedTo
  <2> HIDE DEF L
  <2> QED
    BY <2>1, <2>2, <2>3, Zenon
<1> HIDE DEF L
<1>5. TwoLevels(f, AllocatedOf, S, L)
  BY <1>1, <1>3, <1>4 DEF TwoLevels
<1>6. IsFiniteSet(S)
  BY FS_Subset, ReportsAssumption
<1>7. SumFunctionOnSet(f, PairsOver(S, L)) = SumFunctionOnSet(AllocatedOf, S)
  BY <1>5, <1>6, SumPairs
<1>8. SumFunctionOnSet(f, Sold(S)) = SumFunctionOnSet(AllocatedOf, S)
  BY <1>2, <1>7, Zenon
<1> QED
  BY <1>8 DEF f

ServedBy(u, D) == {j \in Paid(D) : StaffOf(j) = u}

\* staffSalesItems, an employee at a time.
LEMMA StaffItemsAre ==
  ASSUME NEW D, NEW u
  PROVE  /\ StaffItems(D, u).goodsAmount = SumFunctionOnSet(TotalOf, ServedBy(u, D))
         /\ StaffItems(D, u).netRevenue
              = SumFunctionOnSet(TotalOf, ServedBy(u, D)) - SumFunctionOnSet(AllocatedOf, ServedBy(u, D))
<1> DEFINE S == ServedBy(u, D)
           f == [s \in Sold(S) |-> Amount(s[1], s[2])]
           g == [s \in Sold(S) |-> Allocated(s[1], s[2])]
<1>1. S \subseteq Invoices
  BY DEF ServedBy, Paid, Billed
<1>2. /\ StaffItems(D, u).goodsAmount = SumFunctionOnSet(f, Sold(S))
      /\ StaffItems(D, u).netRevenue = SumFunctionOnSet(f, Sold(S)) - SumFunctionOnSet(g, Sold(S))
  BY DEF StaffItems, ServedBy, Sold, SumOver, SumFunction
<1>3. /\ IsFiniteSet(Sold(S))
      /\ \A s \in Sold(S) : AmountOf[s] \in Int /\ AmountOf[s] = f[s]
  BY <1>1, SoldLines
<1>4. SumFunctionOnSet(g, Sold(S)) = SumFunctionOnSet(AllocatedOf, S)
  BY <1>1, SoldShares
<1> HIDE DEF S, f, g
<1>5. SumFunctionOnSet(AmountOf, Sold(S)) = SumFunctionOnSet(f, Sold(S))
  BY <1>3, SumSame
<1>6. SumFunctionOnSet(AmountOf, Sold(S)) = SumFunctionOnSet(TotalOf, S)
  BY <1>1, SoldLines
<1> QED
  BY <1>2, <1>4, <1>5, <1>6 DEF S

\* Every paid invoice is one employee's.
LEMMA StaffOfAll ==
  ASSUME SalesInv, NEW D
  PROVE  /\ SumOver(LAMBDA u : StaffItems(D, u).goodsAmount, Users) = SumFunctionOnSet(TotalOf, Paid(D))
         /\ SumOver(LAMBDA u : StaffItems(D, u).netRevenue, Users)
              = SumFunctionOnSet(TotalOf, Paid(D)) - SumFunctionOnSet(AllocatedOf, Paid(D))
<1> DEFINE S == Paid(D)
           who == [i \in Invoices |-> StaffOf(i)]
           goods == [u \in Users |-> StaffItems(D, u).goodsAmount]
           net == [u \in Users |-> StaffItems(D, u).netRevenue]
           kept == [i \in Invoices |-> TotalOf[i] - AllocatedOf[i]]
<1>1. IsFiniteSet(Users)
  <2> DEFINE creator == [i \in Invoices |-> Order[i].creator]
             T == {creator[i] : i \in Invoices}
  <2>1. {Order[i].creator : i \in Invoices} = T
    OBVIOUS
  <2> HIDE DEF creator
  <2>2. IsFiniteSet(T)
    BY FiniteRange, ReportsAssumption
  <2>3. Users = Cashiers \cup T
    BY <2>1 DEF Users
  <2> HIDE DEF T
  <2> QED
    BY <2>2, <2>3, FS_Union, BoundsAssumption
<1>2. S \subseteq Invoices /\ IsFiniteSet(S)
  BY FS_Subset, ReportsAssumption DEF Paid, Billed
<1>3. \A i \in S : /\ TotalOf[i] \in Int /\ AllocatedOf[i] \in Int /\ who[i] \in Users
                   /\ kept[i] = TotalOf[i] - AllocatedOf[i] /\ kept[i] \in Int
  <2> TAKE i \in S
  <2>1. sales[i] # Nothing /\ i \in Invoices
    BY <1>2 DEF Paid, Billed
  <2>2. sales[i].cashier \in Cashiers
    BY <2>1 DEF SalesInv, SaleOK
  <2>3. who[i] \in Users
    BY <2>1, <2>2 DEF StaffOf, Users
  <2>4. TotalOf[i] \in Int /\ AllocatedOf[i] \in Int
    BY <2>1, AmountsType, Allocation DEF TotalOf, AllocatedOf
  <2> QED
    BY <2>1, <2>3, <2>4
<1>4. \A u \in Users : ServedBy(u, D) = {i \in S : who[i] = u}
  BY <1>2 DEF ServedBy
<1>5. /\ SumOver(LAMBDA u : StaffItems(D, u).goodsAmount, Users) = SumFunctionOnSet(goods, Users)
      /\ SumOver(LAMBDA u : StaffItems(D, u).netRevenue, Users) = SumFunctionOnSet(net, Users)
  BY DEF SumOver, SumFunction
<1>6. \A u \in Users :
        /\ goods[u] = SumFunctionOnSet(TotalOf, ServedBy(u, D))
        /\ net[u] = SumFunctionOnSet(TotalOf, ServedBy(u, D)) - SumFunctionOnSet(AllocatedOf, ServedBy(u, D))
  BY StaffItemsAre
<1> HIDE DEF S, who, goods, net, kept
<1>7. \A u \in Users : /\ goods[u] = SumFunctionOnSet(TotalOf, {i \in S : who[i] = u})
                       /\ net[u] = SumFunctionOnSet(kept, {i \in S : who[i] = u})
  <2> TAKE u \in Users
  <2> DEFINE P == {i \in S : who[i] = u}
  <2>1. ServedBy(u, D) = P /\ P \subseteq S /\ IsFiniteSet(P)
    BY <1>2, <1>4, FS_Subset
  <2>2. \A i \in P : TotalOf[i] = kept[i] + AllocatedOf[i] /\ kept[i] \in Int /\ AllocatedOf[i] \in Int
    BY <1>3
  <2> HIDE DEF P
  <2>3. SumFunctionOnSet(TotalOf, P) = SumFunctionOnSet(kept, P) + SumFunctionOnSet(AllocatedOf, P)
    <3>1. Adds(kept, AllocatedOf, TotalOf, P)
      BY <2>2 DEF Adds
    <3> QED
      BY <2>1, <3>1, SumAdds
  <2>4. SumFunctionOnSet(kept, P) \in Int /\ SumFunctionOnSet(AllocatedOf, P) \in Int
    <3>1. SumFunctionOnSet(kept, P) \in Int
      BY <2>1, <2>2, SumRemove
    <3>2. SumFunctionOnSet(AllocatedOf, P) \in Int
      BY <2>1, <2>2, SumRemove
    <3> QED
      BY <3>1, <3>2
  <2>5. /\ goods[u] = SumFunctionOnSet(TotalOf, P)
        /\ net[u] = SumFunctionOnSet(TotalOf, P) - SumFunctionOnSet(AllocatedOf, P)
    BY <1>6, <2>1
  <2>6. net[u] = SumFunctionOnSet(kept, P)
    BY <2>3, <2>4, <2>5
  <2> QED
    BY <2>5, <2>6 DEF P
<1>8. GroupedBy(TotalOf, who, goods, S, Users) /\ GroupedBy(kept, who, net, S, Users)
  BY <1>3, <1>7 DEF GroupedBy
<1>9. SumFunctionOnSet(goods, Users) = SumFunctionOnSet(TotalOf, S)
  BY <1>1, <1>2, <1>8, SumGroups
<1>10. SumFunctionOnSet(net, Users) = SumFunctionOnSet(kept, S)
  BY <1>1, <1>2, <1>8, SumGroups
<1>11. SumFunctionOnSet(TotalOf, S) = SumFunctionOnSet(kept, S) + SumFunctionOnSet(AllocatedOf, S)
  <2>1. Adds(kept, AllocatedOf, TotalOf, S)
    BY <1>3 DEF Adds
  <2> QED
    BY <1>2, <2>1, SumAdds
<1>12. SumFunctionOnSet(kept, S) \in Int
  BY <1>2, <1>3, SumRemove
<1>13. SumFunctionOnSet(AllocatedOf, S) \in Int
  BY <1>2, <1>3, SumRemove
<1> QED
  BY <1>5, <1>9, <1>10, <1>11, <1>12, <1>13 DEF S

\* What the employees' lines bear is the discount, but for the shares rounded down.
LEMMA StaffRounding ==
  ASSUME NEW S, S \subseteq Invoices, \A i \in S : DiscountTotal(i) = Promised(i)
  PROVE  /\ SumFunctionOnSet(AllocatedOf, S) <= SumFunctionOnSet(DiscountOf, S)
         /\ SumFunctionOnSet(DiscountOf, S) <= SumFunctionOnSet(AllocatedOf, S) + SumOver(Shares, S)
         /\ SumFunctionOnSet(AllocatedOf, S) \in Int /\ SumOver(Shares, S) \in Int
<1> DEFINE most == [i \in Invoices |-> AllocatedOf[i] + SharesOf[i]]
           shares == [i \in S |-> Shares(i)]
<1>1. IsFiniteSet(S)
  BY FS_Subset, ReportsAssumption
<1>2. \A i \in S : /\ AllocatedOf[i] \in Int /\ DiscountOf[i] \in Int /\ SharesOf[i] \in Int
                   /\ AllocatedOf[i] <= DiscountOf[i] /\ DiscountOf[i] <= most[i]
                   /\ most[i] = AllocatedOf[i] + SharesOf[i] /\ most[i] \in Int
                   /\ SharesOf[i] = shares[i]
  <2> TAKE i \in S
  <2>1. /\ AllocatedOf[i] = AllocatedTo(i) /\ DiscountOf[i] = Promised(i) /\ SharesOf[i] = Shares(i)
        /\ most[i] = AllocatedTo(i) + Shares(i) /\ shares[i] = Shares(i)
    BY DEF AllocatedOf, DiscountOf, SharesOf
  <2> QED
    BY <2>1, Allocation
<1>3. SumOver(Shares, S) = SumFunctionOnSet(shares, S)
  BY DEF SumOver, SumFunction
<1> HIDE DEF most, shares
<1>4. SumFunctionOnSet(AllocatedOf, S) <= SumFunctionOnSet(DiscountOf, S)
  BY <1>1, <1>2, SumLeq
<1>5. SumFunctionOnSet(DiscountOf, S) <= SumFunctionOnSet(most, S)
  BY <1>1, <1>2, SumLeq
<1>6. SumFunctionOnSet(most, S) = SumFunctionOnSet(AllocatedOf, S) + SumFunctionOnSet(SharesOf, S)
  <2>1. Adds(AllocatedOf, SharesOf, most, S)
    BY <1>2 DEF Adds
  <2> QED
    BY <1>1, <2>1, SumAdds
<1>7. SumFunctionOnSet(SharesOf, S) = SumFunctionOnSet(shares, S)
  BY <1>1, <1>2, SumSame
<1>8. SumFunctionOnSet(AllocatedOf, S) \in Int
  BY <1>1, <1>2, SumRemove
<1>9. SumFunctionOnSet(SharesOf, S) \in Int
  BY <1>1, <1>2, SumRemove
<1> QED
  BY <1>3, <1>4, <1>5, <1>6, <1>7, <1>8, <1>9

\* Known customers are no more than their invoices.
LEMMA CustomersWithin ==
  ASSUME NEW D
  PROVE  CustomersCount(D) <= Cardinality(Paid(D))
<1> DEFINE S == Paid(D)
           known == {i \in S : Order[i].customer # Nothing}
           customer == [i \in Invoices |-> Order[i].customer]
<1>1. IsFiniteSet(S) /\ S \subseteq Invoices
  BY FS_Subset, ReportsAssumption DEF Paid, Billed
<1>2. CustomersCount(D) = Cardinality({Order[i].customer : i \in known}) + Cardinality(S \ known)
  BY DEF CustomersCount
<1>3. known \subseteq S /\ {Order[i].customer : i \in known} = {customer[i] : i \in known}
  BY <1>1
<1> HIDE DEF S, known, customer
<1>4. IsFiniteSet(known) /\ IsFiniteSet(S \ known)
  BY <1>1, <1>3, FS_Subset
<1>5. /\ IsFiniteSet({customer[i] : i \in known})
      /\ Cardinality({customer[i] : i \in known}) <= Cardinality(known)
  BY <1>4, FiniteRange
<1>6. Cardinality({Order[i].customer : i \in known}) = Cardinality({customer[i] : i \in known})
  BY <1>3, Zenon
<1>7. Cardinality({customer[i] : i \in known}) \in Nat
  BY <1>5, FS_CardinalityType
<1>8. /\ Cardinality(known \cup (S \ known)) = Cardinality(known) + Cardinality(S \ known)
      /\ Cardinality(known) \in Nat /\ Cardinality(S \ known) \in Nat
  BY <1>4, DisjointUnion
<1>9. known \cup (S \ known) = S
  BY <1>3
<1>10. Cardinality(S) = Cardinality(known) + Cardinality(S \ known)
  BY <1>8, <1>9, Zenon
<1> QED
  BY <1>2, <1>5, <1>6, <1>7, <1>8, <1>10 DEF S

LEMMA MaxWithZero ==
  ASSUME NEW a \in Int
  PROVE  Max({0, a}) = IF a > 0 THEN a ELSE 0
<1> DEFINE m == IF a > 0 THEN a ELSE 0
<1>1. m \in {0, a} /\ \A y \in {0, a} : m >= y
  OBVIOUS
<1>2. \A x \in {0, a} : (\A y \in {0, a} : x >= y) => x = m
  OBVIOUS
<1> HIDE DEF m
<1>3. Max({0, a}) = m
  BY <1>1, <1>2 DEF Max
<1> QED
  BY <1>3 DEF m

\* What the list of invoices says was paid, in cash and by transfer, is all that
\* was paid; the cashbook has received the same.
LEMMA RowOfInvoice ==
  ASSUME SalesInv, NEW i \in Billed(Days)
  PROVE  /\ InvoiceRow(i, Nothing).paidTotal = PaidSoFar(sales[i].payments)
         /\ InvoiceRow(i, Nothing).remaining = Max({0, FinalAmount(i) - PaidSoFar(sales[i].payments)})
         /\ Received(i, Days) = PaidSoFar(sales[i].payments)
         /\ PaidSoFar(sales[i].payments) \in Nat
<1> DEFINE pay == sales[i].payments
           of(m) == {k \in DOMAIN pay : pay[k].method = m /\ Nothing \in {m, Nothing}}
           f(m) == [k \in of(m) |-> pay[k].amount]
           all == [k \in DOMAIN pay |-> pay[k].amount]
           paid(m) == SumOver(LAMBDA k : pay[k].amount, of(m))
<1>1. pay \in Seq(Payment)
  BY DEF Billed, SalesInv, SaleOK
<1>2. /\ InvoiceRow(i, Nothing).paidTotal = paid("CASH") + paid("VIETQR")
      /\ InvoiceRow(i, Nothing).remaining = Max({0, FinalAmount(i) - (paid("CASH") + paid("VIETQR"))})
  BY DEF InvoiceRow
<1>3. PaidSoFar(pay) = SumFunctionOnSet(all, DOMAIN pay)
  BY DEF PaidSoFar, SumOver, SumFunction
<1>4. \A m : paid(m) = SumFunctionOnSet(f(m), of(m))
  BY DEF SumOver, SumFunction
<1>5. Booked(i, Days) = {k \in DOMAIN pay : pay[k].method \in {"CASH", "VIETQR"} /\ pay[k].day \in Days}
  BY DEF Booked
<1>6. Received(i, Days) = SumFunctionOnSet([k \in Booked(i, Days) |-> pay[k].amount], Booked(i, Days))
  BY DEF Received, SumOver, SumFunction
<1> HIDE DEF pay, paid
<1>7. IsFiniteSet(DOMAIN pay) /\ \A k \in DOMAIN pay : pay[k] \in Payment
  BY <1>1, SequenceFacts
<1>8. \A k \in DOMAIN pay : /\ pay[k].amount \in Nat /\ pay[k].method \in {"CASH", "VIETQR"}
                            /\ pay[k].day \in Days
  BY <1>7, ReportsAssumption DEF Payment, Days
<1>9. of("CASH") \cup of("VIETQR") = DOMAIN pay /\ of("CASH") \cap of("VIETQR") = {}
  BY <1>8
<1>10. IsFiniteSet(of("CASH")) /\ IsFiniteSet(of("VIETQR"))
  BY <1>7, <1>9, FS_Subset
<1>11. \A m : \A k \in of(m) : f(m)[k] \in Int /\ all[k] = f(m)[k]
  BY <1>8
<1>12. Booked(i, Days) = DOMAIN pay
  BY <1>5, <1>8
<1>13. [k \in Booked(i, Days) |-> pay[k].amount] = all
  BY <1>12
<1> HIDE DEF of, f, all
<1>14. Splits(f("CASH"), f("VIETQR"), all, of("CASH"), of("VIETQR"))
  BY <1>11 DEF Splits
<1>15. /\ SumFunctionOnSet(all, of("CASH") \cup of("VIETQR"))
            = SumFunctionOnSet(f("CASH"), of("CASH")) + SumFunctionOnSet(f("VIETQR"), of("VIETQR"))
  BY <1>9, <1>10, <1>14, SumSplit
<1>16. SumFunctionOnSet(all, DOMAIN pay) = SumFunctionOnSet(all, of("CASH") \cup of("VIETQR"))
  BY <1>9, Zenon
<1>17. paid("CASH") + paid("VIETQR") = PaidSoFar(pay)
  BY <1>3, <1>4, <1>15, <1>16
<1>18. Received(i, Days) = PaidSoFar(pay)
  BY <1>3, <1>6, <1>12, <1>13, Zenon
<1>19. PaidSoFar(pay) \in Nat
  BY <1>1, PaidSoFarType
<1> QED
  BY <1>2, <1>17, <1>18, <1>19 DEF pay

\* An invoice with nothing left is paid, or cost nothing.
LEMMA NothingLeft ==
  ASSUME SalesInv, NEW i \in Billed(Days)
  PROVE  (InvoiceRow(i, Nothing).remaining = 0) <=> (sales[i].status = "PAID" \/ FinalAmount(i) = 0)
<1> DEFINE pay == sales[i].payments
           final == FinalAmount(i)
           sum == PaidSoFar(pay)
           left == InvoiceRow(i, Nothing).remaining
<1>1. /\ sales[i].status = (IF pay = <<>> THEN "UNPAID" ELSE IF final = sum THEN "PAID" ELSE "PARTIAL")
      /\ sum <= final
  BY DEF Billed, SalesInv, SaleOK
<1>2. final \in Nat
  BY AmountsType DEF Billed
<1>3. sum \in Nat /\ left = Max({0, final - sum})
  BY RowOfInvoice
<1>4. pay = <<>> => sum = 0
  <2>1. ASSUME NEW s, s = <<>> PROVE PaidSoFar(s) = 0
    <3> DEFINE f == [k \in DOMAIN s |-> s[k].amount]
    <3>1. DOMAIN s = {}
      BY <2>1
    <3>2. PaidSoFar(s) = SumFunctionOnSet(f, DOMAIN s)
      BY DEF PaidSoFar, SumOver, SumFunction
    <3> HIDE DEF f
    <3>3. SumFunctionOnSet(f, DOMAIN s) = SumFunctionOnSet(f, {})
      BY <3>1, Zenon
    <3> QED
      BY <3>2, <3>3, SumEmpty
  <2> QED
    BY <2>1
<1> HIDE DEF pay, final, sum, left
<1>5. left = IF final - sum > 0 THEN final - sum ELSE 0
  BY <1>2, <1>3, MaxWithZero
<1>6. (left = 0) <=> (final = sum)
  BY <1>1, <1>2, <1>3, <1>5
<1>7. (sales[i].status = "PAID") <=> (pay # <<>> /\ final = sum)
  BY <1>1
<1>8. (left = 0) <=> (sales[i].status = "PAID" \/ final = 0)
  BY <1>1, <1>2, <1>3, <1>4, <1>6, <1>7
<1> QED
  BY <1>8 DEF left, final

\* The receipts of the cashbook are what the list of invoices says was paid.
LEMMA ReceiptsAreRows ==
  ASSUME SalesInv
  PROVE  CashSummary(Nothing, Nothing).totalReceipt
           = SumOver(LAMBDA i : InvoiceRow(i, Nothing).paidTotal, Billed(Days))
<1> DEFINE S == Billed(Days)
           f == [i \in S |-> InvoiceRow(i, Nothing).paidTotal]
           within == {d \in Days : (Nothing # Nothing => d >= Nothing) /\ (Nothing # Nothing => d <= Nothing)}
<1>1. CashSummary(Nothing, Nothing).totalReceipt = CashbookDaily(within).totalReceipt
  BY DEF CashSummary
<1>2. within = Days
  OBVIOUS
<1> HIDE DEF within
<1>3. CashbookDaily(within).totalReceipt = CashbookDaily(Days).totalReceipt
  BY <1>2, Zenon
<1>4. CashbookDaily(Days).totalReceipt = SumFunctionOnSet(ReceivedBy(Days), S)
  BY CashbookIs
<1>5. \A i \in S : ReceivedBy(Days)[i] \in Int /\ ReceivedBy(Days)[i] = f[i]
  <2> TAKE i \in S
  <2>1. ReceivedBy(Days)[i] = Received(i, Days) /\ f[i] = InvoiceRow(i, Nothing).paidTotal
    BY DEF ReceivedBy
  <2>2. Received(i, Days) = InvoiceRow(i, Nothing).paidTotal /\ Received(i, Days) \in Nat
    BY RowOfInvoice
  <2> HIDE DEF f
  <2> QED
    BY <2>1, <2>2
<1>6. SumOver(LAMBDA i : InvoiceRow(i, Nothing).paidTotal, S) = SumFunctionOnSet(f, S)
  BY DEF SumOver, SumFunction
<1>7. IsFiniteSet(S)
  BY FS_Subset, ReportsAssumption DEF Billed
<1> HIDE DEF S, f
<1>8. SumFunctionOnSet(ReceivedBy(Days), S) = SumFunctionOnSet(f, S)
  BY <1>5, <1>7, SumSame
<1> QED
  BY <1>1, <1>3, <1>4, <1>6, <1>8 DEF S

LEMMA Distributes == \A a, b, p \in Int : (a - b) * p + p * b = a * p /\ p * b \in Int /\ (a - b) * p \in Int
OBVIOUS

PriceOf(i, l) == Order[i].lines[l].price

\* The goods of a return, a line at a time.
LEMMA GoodsByLine ==
  ASSUME NEW i \in Invoices, NEW rows, RowsOK(i, rows)
  PROVE  Goods(i, rows) = SumFunctionOnSet([l \in Lines(i) |-> PriceOf(i, l) * QtyOf(rows, l)], Lines(i))
<1> DEFINE K == DOMAIN rows
           price(k) == Order[i].lines[rows[k].line].price
           f == [k \in K |-> rows[k].qty * price(k)]
           qty == [k \in K |-> rows[k].qty]
           line == [k \in K |-> rows[k].line]
           h == [l \in Lines(i) |-> PriceOf(i, l) * QtyOf(rows, l)]
           of(l) == {k \in K : line[k] = l}
<1>1. IsFiniteSet(K) /\ IsFiniteSet(Lines(i))
  BY AmountsType DEF RowsOK
<1>2. \A k \in K : /\ qty[k] \in Nat /\ line[k] \in Lines(i) /\ price(k) \in Nat
                   /\ qty[k] = rows[k].qty /\ line[k] = rows[k].line /\ price(k) = PriceOf(i, line[k])
                   /\ f[k] = qty[k] * price(k)
  BY LineType DEF RowsOK, PriceOf
<1>3. Goods(i, rows) = SumFunctionOnSet(f, K)
  BY DEF Goods, SumOver, SumFunction
<1>4. \A l \in Lines(i) : PriceOf(i, l) \in Nat
  BY LineType DEF PriceOf
<1> HIDE DEF f, qty, line, price
<1>5. \A k \in K : f[k] \in Int
  BY <1>2, Products
<1>6. \A l \in Lines(i) : QtyOf(rows, l) = SumFunctionOnSet(qty, of(l))
  <2> TAKE l \in Lines(i)
  <2> DEFINE g == [k \in K |-> IF rows[k].line = l THEN rows[k].qty ELSE 0]
  <2>1. QtyOf(rows, l) = SumFunctionOnSet(g, K)
    BY DEF QtyOf, SumOver, SumFunction
  <2>2. /\ of(l) \subseteq K
        /\ \A k \in of(l) : qty[k] \in Int /\ g[k] = qty[k]
        /\ \A k \in K \ of(l) : g[k] = 0
    BY <1>2
  <2> HIDE DEF g, of, K
  <2>3. Restricts(g, qty, K, of(l))
    BY <2>2 DEF Restricts
  <2>4. SumFunctionOnSet(g, K) = SumFunctionOnSet(qty, of(l))
    BY <1>1, <2>3, SumRestricted
  <2> QED
    BY <2>1, <2>4
<1>7. \A l \in Lines(i) : h[l] = SumFunctionOnSet(f, of(l))
  <2> TAKE l \in Lines(i)
  <2> DEFINE p == PriceOf(i, l)  S == of(l)
  <2>1. p \in Int /\ h[l] = p * QtyOf(rows, l)
    BY <1>4
  <2>2. S \subseteq K /\ \A k \in S : qty[k] \in Int /\ price(k) = p /\ f[k] = qty[k] * price(k)
    BY <1>2
  <2>3. IsFiniteSet(S)
    BY <1>1, <2>2, FS_Subset
  <2>4. QtyOf(rows, l) = SumFunctionOnSet(qty, S)
    BY <1>6
  <2> HIDE DEF p, S, h
  <2>5. \A k \in S : f[k] = p * qty[k]
    BY <2>1, <2>2
  <2>6. Scales(qty, f, p, S)
    BY <2>1, <2>2, <2>5 DEF Scales
  <2>7. SumFunctionOnSet(f, S) = p * SumFunctionOnSet(qty, S)
    BY <2>3, <2>6, SumScaled
  <2> QED
    BY <2>1, <2>4, <2>7 DEF S
<1> HIDE DEF h, K
<1>8. GroupedBy(f, line, h, K, Lines(i))
  BY <1>2, <1>5, <1>7 DEF GroupedBy
<1>9. SumFunctionOnSet(h, Lines(i)) = SumFunctionOnSet(f, K)
  BY <1>1, <1>8, SumGroups
<1> QED
  BY <1>3, <1>9 DEF h

\* The refunds of an invoice, a line at a time.
LEMMA RefundsByLine ==
  ASSUME ReturnsInv, TakenFits, NEW i \in Invoices
  PROVE  SumOver(LAMBDA r : r.refund, Of(i))
           = SumFunctionOnSet([l \in Lines(i) |-> PriceOf(i, l) * Returned(Of(i), l)], Lines(i))
<1> DEFINE R == Of(i)
           L == Lines(i)
           row == [r \in R |-> [l \in L |-> PriceOf(i, l) * QtyOf(r.rows, l)]]
           col == [l \in L |-> [r \in R |-> PriceOf(i, l) * QtyOf(r.rows, l)]]
           refund == [r \in R |-> r.refund]
           back == [l \in L |-> PriceOf(i, l) * Returned(R, l)]
<1>1. IsFiniteSet(R) /\ IsFiniteSet(L)
  BY OfRows, AmountsType
<1>2. \A r \in R : RowsOK(i, r.rows) /\ refund[r] = Goods(i, r.rows)
  <2> TAKE r \in R
  <2>1. r \in returns /\ r.invoice = i
    BY DEF Of
  <2>2. RowsOK(r.invoice, r.rows) /\ r.refund = Goods(r.invoice, r.rows)
    BY <2>1 DEF TakenFits, Sound, ReturnsInv, RefundsHaveVouchers
  <2>3. refund[r] = r.refund
    OBVIOUS
  <2> QED
    BY <2>1, <2>2, <2>3
<1>3. \A l \in L : PriceOf(i, l) \in Nat
  BY LineType DEF PriceOf
<1>4. \A r \in R : \A l \in L : /\ QtyOf(r.rows, l) \in Nat
                                /\ row[r][l] = PriceOf(i, l) * QtyOf(r.rows, l)
                                /\ col[l][r] = PriceOf(i, l) * QtyOf(r.rows, l)
  BY <1>2, QtyOfType
<1>5. \A r \in R : refund[r] = SumFunctionOnSet(row[r], L)
  <2> TAKE r \in R
  <2>1. Goods(i, r.rows) = SumFunctionOnSet([l \in L |-> PriceOf(i, l) * QtyOf(r.rows, l)], L)
    BY <1>2, GoodsByLine
  <2>2. row[r] = [l \in L |-> PriceOf(i, l) * QtyOf(r.rows, l)]
    OBVIOUS
  <2>3. refund[r] = Goods(i, r.rows)
    BY <1>2
  <2> HIDE DEF row, refund, L
  <2> QED
    BY <2>1, <2>2, <2>3, Zenon
<1>6. \A l \in L : back[l] = SumFunctionOnSet(col[l], R)
  <2> TAKE l \in L
  <2> DEFINE p == PriceOf(i, l)
             f == [r \in R |-> QtyOf(r.rows, l)]
             h == col[l]
  <2>1. Returned(R, l) = SumFunctionOnSet(f, R)
    BY DEF Returned, SumOver, SumFunction
  <2>2. p \in Int /\ back[l] = p * Returned(R, l)
    BY <1>3
  <2>3. \A r \in R : f[r] \in Int /\ h[r] = p * f[r]
    BY <1>4
  <2> HIDE DEF p, f, h, R, back
  <2>4. Scales(f, h, p, R)
    BY <2>2, <2>3 DEF Scales
  <2>5. SumFunctionOnSet(h, R) = p * SumFunctionOnSet(f, R)
    BY <1>1, <2>4, SumScaled
  <2> QED
    BY <2>1, <2>2, <2>5 DEF h
<1>7. SumOver(LAMBDA r : r.refund, R) = SumFunctionOnSet(refund, R)
  BY DEF SumOver, SumFunction
<1> HIDE DEF row, col, refund, back, R, L
<1>8. \A r \in R : \A l \in L : row[r][l] \in Int /\ col[l][r] = row[r][l]
  BY <1>3, <1>4, Products
<1>9. IsTable(row, col, refund, back, R, L)
  BY <1>5, <1>6, <1>8 DEF IsTable
<1>10. SumFunctionOnSet(refund, R) = SumFunctionOnSet(back, L)
  BY <1>1, <1>9, SumSwap
<1> QED
  BY <1>7, <1>10 DEF R, L, back

\* getInvoiceReturnSummary: what is left and what was refunded are the goods.
LEMMA LeftAndRefunded ==
  ASSUME ReturnsInv, TakenFits, NEW i \in Invoices,
         \A l \in Lines(i) : ReturnSummary(i)[l].returnedQty <= ReturnSummary(i)[l].soldQty
  PROVE  SumOver(LAMBDA l : ReturnSummary(i)[l].remainQty * Order[i].lines[l].price, Lines(i))
           + SumOver(LAMBDA r : r.refund, Of(i)) = TotalAmount(i)
<1> DEFINE L == Lines(i)
           qty(l) == Order[i].lines[l].qty
           taken(l) == Returned(Of(i), l)
           left == [l \in L |-> ReturnSummary(i)[l].remainQty * Order[i].lines[l].price]
           back == [l \in L |-> PriceOf(i, l) * taken(l)]
           sold == [l \in L |-> Amount(i, l)]
<1>1. IsFiniteSet(L)
  BY AmountsType
<1>2. \A l \in L : /\ ReturnSummary(i)[l].returnedQty = taken(l) /\ ReturnSummary(i)[l].soldQty = qty(l)
                   /\ ReturnSummary(i)[l].remainQty = Max({0, qty(l) - taken(l)})
  BY DEF ReturnSummary
<1>3. \A l \in L : taken(l) \in Nat
  BY OfRows, ReturnedType
<1>4. \A l \in L : qty(l) \in Nat /\ PriceOf(i, l) \in Nat
  BY LineType DEF PriceOf
<1>5. \A l \in L : /\ left[l] = (qty(l) - taken(l)) * PriceOf(i, l)
                   /\ back[l] = PriceOf(i, l) * taken(l) /\ sold[l] = qty(l) * PriceOf(i, l)
  <2> TAKE l \in L
  <2>1. taken(l) <= qty(l)
    BY <1>2
  <2>2. left[l] = ReturnSummary(i)[l].remainQty * PriceOf(i, l)
    BY DEF PriceOf
  <2>3. back[l] = PriceOf(i, l) * taken(l) /\ sold[l] = qty(l) * PriceOf(i, l)
    BY DEF Amount, PriceOf
  <2>4. ReturnSummary(i)[l].remainQty = Max({0, qty(l) - taken(l)})
    BY <1>2
  <2> PICK q \in Nat, t \in Nat : q = qty(l) /\ t = taken(l)
    BY <1>3, <1>4
  <2> HIDE DEF left, back, sold, qty, taken
  <2>5. q - t \in Int /\ t <= q
    BY <2>1
  <2>6. Max({0, q - t}) = IF q - t > 0 THEN q - t ELSE 0
    BY <2>5, MaxWithZero
  <2>7. Max({0, q - t}) = q - t
    BY <2>5, <2>6
  <2> QED
    BY <2>2, <2>3, <2>4, <2>7
<1>6. SumOver(LAMBDA l : ReturnSummary(i)[l].remainQty * Order[i].lines[l].price, L) = SumFunctionOnSet(left, L)
  BY DEF SumOver, SumFunction
<1>7. SumOver(LAMBDA r : r.refund, Of(i)) = SumFunctionOnSet(back, L)
  BY RefundsByLine
<1>8. TotalAmount(i) = SumFunctionOnSet(sold, L)
  BY DEF TotalAmount, SumOver, SumFunction
<1> HIDE DEF L, left, back, sold, qty, taken
<1>9. \A l \in L : left[l] \in Int /\ back[l] \in Int /\ sold[l] = left[l] + back[l]
  <2> TAKE l \in L
  <2> PICK q \in Int, t \in Int, p \in Int : q = qty(l) /\ t = taken(l) /\ p = PriceOf(i, l)
    BY <1>3, <1>4
  <2>1. left[l] = (q - t) * p /\ back[l] = p * t /\ sold[l] = q * p
    BY <1>5
  <2>2. (q - t) * p + p * t = q * p /\ p * t \in Int /\ (q - t) * p \in Int
    BY Distributes
  <2> QED
    BY <2>1, <2>2
<1>10. SumFunctionOnSet(sold, L) = SumFunctionOnSet(left, L) + SumFunctionOnSet(back, L)
  <2>1. Adds(left, back, sold, L)
    BY <1>9 DEF Adds
  <2> QED
    BY <1>1, <2>1, SumAdds
<1> QED
  BY <1>6, <1>7, <1>8, <1>10 DEF L

LEMMA PeriodFinite ==
  ASSUME NEW from, NEW to
  PROVE  LocalRange(from, to) \subseteq Days /\ IsFiniteSet(LocalRange(from, to))
<1>1. LocalRange(from, to) \subseteq Days
  BY DEF LocalRange
<1>2. IsFiniteSet(Days)
  BY FS_Interval, BoundsAssumption DEF Days
<1> QED
  BY <1>1, <1>2, FS_Subset

\* The revenue and the profit of a period, by day, by invoice and by discount.
LEMMA RevenueAgrees ==
  ASSUME NEW D, IsFiniteSet(D)
  PROVE  /\ ProfitDaily(D).revenue = SumOver(LAMBDA i : ProfitRow(i).netRevenue, Paid(D))
         /\ ProfitDaily(D).profit = SumOver(LAMBDA i : ProfitRow(i).grossProfit, Paid(D))
         /\ ProfitDaily(D).revenue = InvoiceDiscounts(D).goodsAmount - InvoiceDiscounts(D).discountAmount
         /\ ProfitDaily(D).revenue = SumFunctionOnSet(TotalOf, Paid(D)) - SumFunctionOnSet(DiscountOf, Paid(D))
         /\ InvoiceDiscounts(D).goodsAmount = SumFunctionOnSet(TotalOf, Paid(D))
         /\ SumFunctionOnSet(TotalOf, Paid(D)) \in Int /\ SumFunctionOnSet(DiscountOf, Paid(D)) \in Int
<1> DEFINE S == Paid(D)
           net == [i \in S |-> ProfitRow(i).netRevenue]
           gross == [i \in S |-> ProfitRow(i).grossProfit]
<1>1. S \subseteq Invoices
  BY DEF Paid, Billed
<1>2. /\ SumOver(LAMBDA i : ProfitRow(i).netRevenue, S) = SumFunctionOnSet(net, S)
      /\ SumOver(LAMBDA i : ProfitRow(i).grossProfit, S) = SumFunctionOnSet(gross, S)
  BY DEF SumOver, SumFunction
<1>3. \A i \in S : /\ net[i] = TotalAmount(i) - DiscountTotal(i)
                   /\ gross[i] = TotalAmount(i) - DiscountTotal(i) - Cost(i)
                   /\ FinalOf[i] = FinalAmount(i) /\ CostOf[i] = Cost(i)
  BY <1>1 DEF ProfitRow, FinalOf, CostOf
<1>4. /\ ProfitDaily(D).revenue = SumFunctionOnSet(FinalOf, S)
      /\ ProfitDaily(D).profit = SumFunctionOnSet(FinalOf, S) - SumFunctionOnSet(CostOf, S)
  BY ProfitOfPeriod
<1>5. /\ InvoiceDiscounts(D).goodsAmount = SumOver(TotalAmount, S)
      /\ InvoiceDiscounts(D).discountAmount = SumOver(DiscountTotal, S)
  BY DEF InvoiceDiscounts
<1> HIDE DEF S, net, gross
<1>6. \A i \in S : /\ FinalOf[i] \in Int /\ CostOf[i] \in Int /\ FinalOf[i] = net[i]
                   /\ gross[i] \in Int /\ FinalOf[i] = gross[i] + CostOf[i]
  <2> TAKE i \in S
  <2>1. /\ TotalAmount(i) \in Nat /\ DiscountTotal(i) \in Nat /\ Cost(i) \in Int
        /\ FinalAmount(i) = TotalAmount(i) - DiscountTotal(i)
    BY <1>1, AmountsType, CostType
  <2> QED
    BY <1>3, <2>1
<1>7. /\ IsFiniteSet(S) /\ SumOver(TotalAmount, S) = SumFunctionOnSet(TotalOf, S)
      /\ SumOver(DiscountTotal, S) = SumFunctionOnSet(DiscountOf, S)
      /\ SumFunctionOnSet(TotalOf, S) \in Int /\ SumFunctionOnSet(DiscountOf, S) \in Int
      /\ SumFunctionOnSet(FinalOf, S) = SumFunctionOnSet(TotalOf, S) - SumFunctionOnSet(DiscountOf, S)
  BY <1>1, Totals
<1>8. SumFunctionOnSet(FinalOf, S) = SumFunctionOnSet(net, S)
  BY <1>6, <1>7, SumSame
<1>9. SumFunctionOnSet(FinalOf, S) = SumFunctionOnSet(gross, S) + SumFunctionOnSet(CostOf, S)
  <2>1. Adds(gross, CostOf, FinalOf, S)
    BY <1>6 DEF Adds
  <2> QED
    BY <1>7, <2>1, SumAdds
<1>10. SumFunctionOnSet(gross, S) \in Int
  BY <1>6, <1>7, SumRemove
<1>11. SumFunctionOnSet(CostOf, S) \in Int
  BY <1>6, <1>7, SumRemove
<1> QED
  BY <1>2, <1>4, <1>5, <1>7, <1>8, <1>9, <1>10, <1>11 DEF S

\* By employee, with the shares of the promotions rounded down.
LEMMA StaffAgrees ==
  ASSUME SalesInv, NEW D, IsFiniteSet(D), \A i \in Paid(D) : DiscountTotal(i) = Promised(i)
  PROVE  LET net == SumOver(LAMBDA u : StaffItems(D, u).netRevenue, Users)
         IN /\ ProfitDaily(D).revenue <= net
            /\ net <= ProfitDaily(D).revenue + SumOver(Shares, Paid(D))
<1> DEFINE S == Paid(D)
<1>1. S \subseteq Invoices
  BY DEF Paid, Billed
<1>2. /\ SumFunctionOnSet(AllocatedOf, S) <= SumFunctionOnSet(DiscountOf, S)
      /\ SumFunctionOnSet(DiscountOf, S) <= SumFunctionOnSet(AllocatedOf, S) + SumOver(Shares, S)
      /\ SumFunctionOnSet(AllocatedOf, S) \in Int /\ SumOver(Shares, S) \in Int
  BY <1>1, StaffRounding
<1>3. /\ ProfitDaily(D).revenue = SumFunctionOnSet(TotalOf, S) - SumFunctionOnSet(DiscountOf, S)
      /\ SumFunctionOnSet(TotalOf, S) \in Int /\ SumFunctionOnSet(DiscountOf, S) \in Int
  BY RevenueAgrees
<1>4. SumOver(LAMBDA u : StaffItems(D, u).netRevenue, Users)
        = SumFunctionOnSet(TotalOf, S) - SumFunctionOnSet(AllocatedOf, S)
  BY StaffOfAll
<1> HIDE DEF S
<1>5. PICK t \in Int, d \in Int, a \in Int, h \in Int :
        /\ t = SumFunctionOnSet(TotalOf, S) /\ d = SumFunctionOnSet(DiscountOf, S)
        /\ a = SumFunctionOnSet(AllocatedOf, S) /\ h = SumOver(Shares, S)
  BY <1>2, <1>3
<1>6. t - d <= t - a /\ t - a <= t - d + h
  BY <1>2, <1>5
<1> QED
  BY <1>3, <1>4, <1>5, <1>6 DEF S

LEMMA CustomersHaveGoods ==
  ASSUME NEW D
  PROVE  CustomerSum(D).goodsAmount = InvoiceDiscounts(D).goodsAmount
BY DEF CustomerSum, InvoiceDiscounts

LEMMA ReportsTell == ReturnsInv /\ TakenFits /\ SalesInv => ReportsAgree
<1> SUFFICES ASSUME ReturnsInv, TakenFits, SalesInv, NEW from \in Days, NEW to \in Days
             PROVE  LET D == LocalRange(from, to)
                        profit == ProfitDaily(D)
                        discounts == InvoiceDiscounts(D)
                    IN /\ profit.revenue = SumOver(LAMBDA i : ProfitRow(i).netRevenue, Paid(D))
                       /\ profit.profit = SumOver(LAMBDA i : ProfitRow(i).grossProfit, Paid(D))
                       /\ profit.revenue = discounts.goodsAmount - discounts.discountAmount
                       /\ SumOver(LAMBDA u : StaffItems(D, u).goodsAmount, Users) = discounts.goodsAmount
                       /\ (\A i \in Paid(D) : DiscountTotal(i) = Promised(i)) =>
                            LET net == SumOver(LAMBDA u : StaffItems(D, u).netRevenue, Users)
                            IN profit.revenue <= net /\ net <= profit.revenue + SumOver(Shares, Paid(D))
                       /\ CustomerSum(D).goodsAmount = discounts.goodsAmount
                       /\ CustomersCount(D) <= discounts.transactionCount
                       /\ \A i \in Billed(D) :
                            LET left == ReturnSummary(i)
                            IN /\ (InvoiceRow(i, Nothing).remaining = 0) = (i \in Paid(D) \/ FinalAmount(i) = 0)
                               /\ (\A l \in Lines(i) : left[l].returnedQty <= left[l].soldQty) =>
                                    SumOver(LAMBDA l : left[l].remainQty * Order[i].lines[l].price, Lines(i))
                                      + SumOver(LAMBDA r : r.refund, Of(i)) = TotalAmount(i)
                       /\ CashSummary(Nothing, Nothing).totalReceipt
                            = SumOver(LAMBDA i : InvoiceRow(i, Nothing).paidTotal, Billed(Days))
  BY Zenon DEF ReportsAgree
<1> DEFINE D == LocalRange(from, to)
<1>1. D \subseteq Days /\ IsFiniteSet(D)
  BY PeriodFinite
<1> HIDE DEF D
<1>2. InvoiceDiscounts(D).transactionCount = Cardinality(Paid(D))
  BY DEF InvoiceDiscounts
<1>3. CustomersCount(D) <= InvoiceDiscounts(D).transactionCount
  BY <1>2, CustomersWithin
<1>4. SumOver(LAMBDA u : StaffItems(D, u).goodsAmount, Users) = InvoiceDiscounts(D).goodsAmount
  <2>1. SumOver(LAMBDA u : StaffItems(D, u).goodsAmount, Users) = SumFunctionOnSet(TotalOf, Paid(D))
    BY StaffOfAll
  <2> QED
    BY <1>1, <2>1, RevenueAgrees
<1>5. ASSUME NEW i \in Billed(D)
      PROVE  (InvoiceRow(i, Nothing).remaining = 0) = (i \in Paid(D) \/ FinalAmount(i) = 0)
  <2>1. i \in Billed(Days)
    BY <1>1 DEF Billed
  <2>2. (i \in Paid(D)) <=> (sales[i].status = "PAID")
    BY DEF Paid
  <2>3. (InvoiceRow(i, Nothing).remaining = 0) <=> (sales[i].status = "PAID" \/ FinalAmount(i) = 0)
    BY <2>1, NothingLeft
  <2> QED
    BY <2>2, <2>3
<1>6. ASSUME NEW i \in Billed(D),
             \A l \in Lines(i) : ReturnSummary(i)[l].returnedQty <= ReturnSummary(i)[l].soldQty
      PROVE  SumOver(LAMBDA l : ReturnSummary(i)[l].remainQty * Order[i].lines[l].price, Lines(i))
               + SumOver(LAMBDA r : r.refund, Of(i)) = TotalAmount(i)
  <2>1. i \in Invoices
    BY DEF Billed
  <2> QED
    BY <1>6, <2>1, LeftAndRefunded
<1>7. CustomerSum(D).goodsAmount = InvoiceDiscounts(D).goodsAmount
  BY CustomersHaveGoods
<1>8. /\ ProfitDaily(D).revenue = SumOver(LAMBDA i : ProfitRow(i).netRevenue, Paid(D))
      /\ ProfitDaily(D).profit = SumOver(LAMBDA i : ProfitRow(i).grossProfit, Paid(D))
      /\ ProfitDaily(D).revenue = InvoiceDiscounts(D).goodsAmount - InvoiceDiscounts(D).discountAmount
  BY <1>1, RevenueAgrees
<1>9. ASSUME \A i \in Paid(D) : DiscountTotal(i) = Promised(i)
      PROVE  /\ ProfitDaily(D).revenue <= SumOver(LAMBDA u : StaffItems(D, u).netRevenue, Users)
             /\ SumOver(LAMBDA u : StaffItems(D, u).netRevenue, Users)
                  <= ProfitDaily(D).revenue + SumOver(Shares, Paid(D))
  BY <1>1, <1>9, StaffAgrees
<1>10. CashSummary(Nothing, Nothing).totalReceipt
         = SumOver(LAMBDA i : InvoiceRow(i, Nothing).paidTotal, Billed(Days))
  BY ReceiptsAreRows
<1> QED
  BY <1>3, <1>4, <1>5, <1>6, <1>7, <1>8, <1>9, <1>10, Zenon DEF D

\* Over any period the reports on profit, discounts, employees and customers tell of
\* the same goods and revenue, although each joins other tables; an invoice has
\* nothing left exactly when it is paid or cost nothing, what is left of it and its
\* refunds are its goods, and the cashbook received what the invoices say was paid.
THEOREM ReportsTellOneStory == Spec => []ReportsAgree
<1>1. ReturnsInv /\ FlowInv /\ SalesInv => ReportsAgree
  BY ReportsTell DEF FlowInv
<1> QED
  BY <1>1, FlowInvariance, PTL

=============================================================================
