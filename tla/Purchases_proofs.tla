--------------------------- MODULE Purchases_proofs ---------------------------
(***************************************************************************)
(* Proofs about purchases: Purchasing, PurchaseReturns, Cashbook and       *)
(* PurchaseReports, for any number of documents, bills, amounts, items and *)
(* entries made by hand at one time.                                       *)
(*                                                                         *)
(* StoreInv, the inductive invariant, says of every document that is not   *)
(* known to be apart from its vouchers (drift) that it agrees with them,   *)
(* of every document what it moved, and of every item that opened empty    *)
(* that its average cost is a cost it was bought at or in between.         *)
(* LinesTell says of every return that was not amended that its lines' own *)
(* refunds sum to its refund.                                              *)
(***************************************************************************)
EXTENDS PurchaseReports, SumTheorems, TLAPS

LEMMA SumIntegersOver ==
  ASSUME NEW S, IsFiniteSet(S), NEW f, \A x \in S : f[x] \in Int
  PROVE  SumFunctionOnSet(f, S) \in Int
BY SumRemove

----------------------------------------------------------------------------
(* Whole numbers: rounding and the weighted average.                       *)

LEMMA DivisionBounds ==
  ASSUME NEW a \in Nat, NEW b \in Nat \ {0}
  PROVE  a \div b \in Nat /\ b * (a \div b) <= a /\ a < b * (a \div b) + b
<1>1. a = b * (a \div b) + (a % b) /\ 0 <= a % b /\ a % b < b /\ a \div b \in Int
  OBVIOUS
<1>2. a \div b >= 0
  OBVIOUS
<1> QED
  BY <1>1, <1>2

LEMMA RoundedBounds ==
  ASSUME NEW n \in Nat, NEW d \in Nat \ {0}
  PROVE  /\ Rounded(n, d) \in Nat
         /\ 2 * d * Rounded(n, d) <= 2 * n + d
         /\ 2 * n + d < 2 * d * Rounded(n, d) + 2 * d
<1> PICK a \in Nat : a = 2 * n + d
  OBVIOUS
<1> PICK b \in Nat \ {0} : b = 2 * d
  OBVIOUS
<1>1. Rounded(n, d) = a \div b
  BY DEF Rounded
<1>2. a \div b \in Nat /\ b * (a \div b) <= a /\ a < b * (a \div b) + b
  BY DivisionBounds
<1> QED
  BY <1>1, <1>2

\* A product grows with its factor.
LEMMA ProductGrows ==
  ASSUME NEW k \in Nat, NEW x \in Int, NEW y \in Int, x <= y
  PROVE  k * x <= k * y /\ k * x \in Int /\ k * y \in Int
OBVIOUS

LEMMA FactorSmaller ==
  ASSUME NEW d \in Nat \ {0}, NEW x \in Int, NEW y \in Int, d * x < d * y
  PROVE  x < y
<1> SUFFICES ASSUME x >= y PROVE FALSE
  OBVIOUS
<1>1. d * y <= d * x
  BY ProductGrows
<1> QED
  BY <1>1

\* The average cost after a purchase.
NewAverage(before, avg, qty, factor, price) ==
  Rounded(before * avg + 100 * qty * price, before + qty * factor)

\* The average of a stock within bounds and of a purchase within bounds is.
LEMMA AverageBounded ==
  ASSUME NEW before \in Nat, NEW avg \in Nat, NEW qty \in Nat \ {0}, NEW factor \in Nat \ {0},
         NEW price \in Nat, NEW low \in Nat, NEW high \in Nat,
         before > 0 => low <= avg /\ avg <= high,
         low <= Rounded(100 * price, factor), Rounded(100 * price, factor) <= high
  PROVE  LET new == NewAverage(before, avg, qty, factor, price) IN low <= new /\ new <= high
<1> PICK after : after = before + qty * factor
  OBVIOUS
<1> PICK u \in Nat : u = Rounded(100 * price, factor)
  BY RoundedBounds
<1> PICK n \in Nat : n = before * avg + 100 * qty * price
  OBVIOUS
<1>0. after \in Nat \ {0}
  OBVIOUS
<1> PICK r \in Nat : r = Rounded(n, after)
  BY <1>0, RoundedBounds
<1>1. 2 * factor * u <= 2 * (100 * price) + factor /\ 2 * (100 * price) + factor < 2 * factor * u + 2 * factor
  BY RoundedBounds
<1>2. 2 * after * r <= 2 * n + after /\ 2 * n + after < 2 * after * r + 2 * after
  BY <1>0, RoundedBounds
<1>3. low <= u /\ u <= high
  OBVIOUS
<1>4. before * low <= before * avg /\ before * avg <= before * high
  OBVIOUS
<1> PICK x \in Nat : x = qty * price
  OBVIOUS
<1> PICK y \in Nat : y = qty * factor
  OBVIOUS
<1>5. 2 * y * low <= 200 * x + y
  <2>1. factor * low <= factor * u
    BY <1>3, ProductGrows
  <2>2. 2 * (factor * low) <= 200 * price + factor
    BY <1>1, <2>1
  <2>3. qty * (2 * (factor * low)) <= qty * (200 * price + factor)
    BY <2>2, ProductGrows
  <2> QED
    BY <2>3
<1>6. 200 * x < 2 * y * high + y
  <2>1. factor * u <= factor * high
    BY <1>3, ProductGrows
  <2>2. 200 * price + 1 <= 2 * (factor * high) + factor
    BY <1>1, <2>1
  <2>3. qty * (200 * price + 1) <= qty * (2 * (factor * high) + factor)
    BY <2>2, ProductGrows
  <2> QED
    BY <2>3
<1>7. n = before * avg + 100 * x /\ after = before + y
  OBVIOUS
<1>8. low < r + 1
  <2>1. after * low = before * low + y * low
    BY <1>7
  <2>2. 2 * (after * low) <= 2 * n + after
    BY <1>4, <1>5, <1>7, <2>1
  <2>3. 2 * (after * low) < 2 * (after * (r + 1))
    BY <1>0, <1>2, <2>2
  <2>4. after * low < after * (r + 1)
    BY <1>0, <2>3
  <2> QED
    BY <1>0, <2>4, FactorSmaller
<1>9. r < high + 1
  <2>1. after * high = before * high + y * high
    BY <1>7
  <2>2. 2 * n + after < 2 * (after * high) + 2 * after
    BY <1>4, <1>6, <1>7, <2>1
  <2>3. 2 * (after * r) < 2 * (after * (high + 1))
    BY <1>0, <1>2, <2>2
  <2>4. after * r < after * (high + 1)
    BY <1>0, <2>3
  <2> QED
    BY <1>0, <2>4, FactorSmaller
<1> QED
  BY <1>8, <1>9 DEF NewAverage

----------------------------------------------------------------------------
(* Goods that enter the stock.                                             *)

StockRow == [qty : Nat, avg : Nat]

\* The unit costs at which an item can be bought.
UnitCosts(i) ==
  UNION {{Rounded(100 * b.lines[k].price, b.lines[k].factor) :
            k \in {m \in DOMAIN b.lines : b.lines[m].item = i}} : b \in Bills}

Between(a, costs) == \E low, high \in costs : a \in low..high

\* One line: only its item changes, by its quantity.
LEMMA ImportOne ==
  ASSUME NEW s \in [Items -> StockRow], NEW l \in ReceiptLine
  PROVE  /\ Imported(s, l) \in [Items -> StockRow]
         /\ Imported(s, l)[l.item].qty = s[l.item].qty + BaseQty(l)
         /\ \A i \in Items \ {l.item} : Imported(s, l)[i] = s[i]
         /\ \A costs \in SUBSET Nat :
              /\ Rounded(100 * l.price, l.factor) \in costs
              /\ s[l.item].qty > 0 => Between(s[l.item].avg, costs)
              => Between(Imported(s, l)[l.item].avg, costs)
<1> PICK before \in Nat, avg \in Nat : s[l.item] = [qty |-> before, avg |-> avg]
  BY DEF StockRow, ReceiptLine
<1> PICK qty \in Nat \ {0}, factor \in Nat \ {0}, price \in Nat :
      qty = l.qty /\ factor = l.factor /\ price = l.price
  BY DEF ReceiptLine
<1> PICK after : after = before + qty * factor
  OBVIOUS
<1>0. qty * factor \in Nat \ {0}
  OBVIOUS
<1>1. after \in Nat \ {0} /\ BaseQty(l) = qty * factor
  <2>1. BaseQty(l) = qty * factor
    BY DEF BaseQty
  <2>2. after \in Nat \ {0}
    BY <1>0
  <2> QED
    BY <2>1, <2>2
<1> PICK new : new = Rounded(before * avg + 100 * qty * price, after)
  OBVIOUS
<1>2. new \in Nat
  <2>1. before * avg + 100 * qty * price \in Nat
    OBVIOUS
  <2> QED
    BY <1>1, <2>1, RoundedBounds
<1>3. Imported(s, l) = [s EXCEPT ![l.item] = [qty |-> after, avg |-> new]]
  <2>1. s[l.item].qty + BaseQty(l) = after /\ s[l.item].qty = before /\ s[l.item].avg = avg /\ after > 0
    BY <1>1
  <2>2. Imported(s, l) =
          [s EXCEPT ![l.item] = [qty |-> after, avg |-> Rounded(before * avg + 100 * qty * price, after)]]
    BY <2>1 DEF Imported
  <2> QED
    BY <2>2
<1>4. l.item \in Items
  BY DEF ReceiptLine
<1>5. ASSUME NEW costs \in SUBSET Nat, Rounded(100 * price, factor) \in costs,
             before > 0 => Between(avg, costs)
      PROVE  Between(new, costs)
  <2> PICK u \in costs : u = Rounded(100 * price, factor)
    BY <1>5
  <2>1. \E low, high \in costs : low <= u /\ u <= high /\ (before > 0 => low <= avg /\ avg <= high)
    <3>1. CASE before = 0
      BY <3>1
    <3>2. CASE before > 0
      <4> PICK low \in costs, high \in costs : low <= avg /\ avg <= high
        BY <1>5, <3>2 DEF Between
      <4> DEFINE m == IF low <= u THEN low ELSE u
                 M == IF u <= high THEN high ELSE u
      <4>1. m \in costs /\ M \in costs /\ m <= u /\ u <= M /\ m <= avg /\ avg <= M
        OBVIOUS
      <4> QED
        BY <4>1
    <3> QED
      BY <3>1, <3>2
  <2> PICK low \in costs, high \in costs : low <= u /\ u <= high /\ (before > 0 => low <= avg /\ avg <= high)
    BY <2>1
  <2>2. low <= new /\ new <= high
    <3>1. /\ low \in Nat /\ high \in Nat
          /\ low <= Rounded(100 * price, factor) /\ Rounded(100 * price, factor) <= high
          /\ before > 0 => low <= avg /\ avg <= high
      OBVIOUS
    <3>2. LET a == NewAverage(before, avg, qty, factor, price) IN low <= a /\ a <= high
      BY <3>1, AverageBounded
    <3> QED
      BY <3>2 DEF NewAverage
  <2> QED
    BY <1>2, <2>2 DEF Between
<1> QED
  BY <1>1, <1>2, <1>3, <1>4, <1>5 DEF StockRow

\* The equation of the recursion in ImportedAll, for the first n lines.
Importing(g, s, lines, n) ==
  g = [k \in 0..n |-> IF k = 0 THEN s ELSE Imported(g[k - 1], lines[k])]

LEMMA ImportingSolved ==
  ASSUME NEW s, NEW lines, NEW n \in Nat
  PROVE  \E g : Importing(g, s, lines, n)
<1> DEFINE G == {m \in Nat : \E g : Importing(g, s, lines, m)}
<1>1. 0 \in G
  <2>1. Importing([k \in 0..0 |-> s], s, lines, 0)
    BY DEF Importing
  <2> QED
    BY <2>1
<1>2. ASSUME NEW m \in Nat, m \in G PROVE m + 1 \in G
  <2> PICK g : Importing(g, s, lines, m)
    BY <1>2
  <2> DEFINE h == [k \in 0..(m + 1) |-> IF k = m + 1 THEN Imported(g[m], lines[m + 1]) ELSE g[k]]
  <2>1. \A k \in 0..(m + 1) : h[k] = IF k = 0 THEN s ELSE Imported(h[k - 1], lines[k])
    <3> SUFFICES ASSUME NEW k \in 0..(m + 1)
                 PROVE  h[k] = IF k = 0 THEN s ELSE Imported(h[k - 1], lines[k])
      OBVIOUS
    <3>1. CASE k = m + 1
      <4>1. h[k - 1] = g[m] /\ k # 0
        BY <3>1
      <4> QED
        BY <3>1, <4>1
    <3>2. CASE k # m + 1
      <4>1. k \in 0..m /\ h[k] = g[k]
        BY <3>2
      <4>2. g[k] = IF k = 0 THEN s ELSE Imported(g[k - 1], lines[k])
        BY <4>1 DEF Importing
      <4>3. k # 0 => h[k - 1] = g[k - 1]
        BY <4>1
      <4> QED
        BY <4>1, <4>2, <4>3
    <3> QED
      BY <3>1, <3>2
  <2>2. h = [k \in 0..(m + 1) |-> IF k = 0 THEN s ELSE Imported(h[k - 1], lines[k])]
    BY <2>1
  <2>3. Importing(h, s, lines, m + 1)
    BY <2>2 DEF Importing
  <2> HIDE DEF h
  <2> QED
    BY <2>3
<1> HIDE DEF G
<1>3. n \in G
  BY <1>1, <1>2, CountingInduction
<1> QED
  BY <1>3 DEF G

\* What the first k lines hold of an item.
Held(lines, i) == [k \in DOMAIN lines |-> IF lines[k].item = i THEN BaseQty(lines[k]) ELSE 0]

LEMMA LinesOfReceipt ==
  ASSUME NEW lines \in Seq(ReceiptLine), NEW i
  PROVE  /\ DOMAIN lines = 1..Len(lines) /\ Len(lines) \in Nat /\ IsFiniteSet(DOMAIN lines)
         /\ \A k \in DOMAIN lines : lines[k] \in ReceiptLine /\ Held(lines, i)[k] \in Nat
         /\ QtyIn(lines, i) = SumFunctionOnSet(Held(lines, i), DOMAIN lines)
<1>1. DOMAIN lines = 1..Len(lines) /\ Len(lines) \in Nat
  OBVIOUS
<1>2. \A k \in DOMAIN lines : lines[k] \in ReceiptLine
  OBVIOUS
<1>3. QtyIn(lines, i) = SumFunctionOnSet(Held(lines, i), DOMAIN lines)
  BY DEF QtyIn, SumOf, SumOver, SumFunction, Held
<1>4. IsFiniteSet(DOMAIN lines)
  BY <1>1, FS_Interval
<1> QED
  BY <1>1, <1>2, <1>3, <1>4 DEF Held, BaseQty, ReceiptLine

LEMMA FirstFinite ==
  ASSUME NEW k \in Nat
  PROVE  IsFiniteSet(1..k)
BY FS_Interval

\* What was bought of each item.
Bought(s, lines, costs, new) ==
  /\ new \in [Items -> StockRow]
  /\ \A i \in Items :
       /\ new[i].qty = s[i].qty + QtyIn(lines, i)
       /\ IF \E k \in DOMAIN lines : lines[k].item = i
          THEN (s[i].qty > 0 => Between(s[i].avg, costs[i])) => Between(new[i].avg, costs[i])
          ELSE new[i] = s[i]

CostsCover(lines, costs) ==
  \A k \in DOMAIN lines : Rounded(100 * lines[k].price, lines[k].factor) \in costs[lines[k].item]

\* All lines: each item grows by what they hold of it, and the average cost of
\* an item that was bought lies between two unit costs.
LEMMA ImportAll ==
  ASSUME stock \in [Items -> StockRow], NEW lines \in Seq(ReceiptLine),
         NEW costs \in [Items -> SUBSET Nat],
         CostsCover(lines, costs), NEW new, new = ImportedAll(lines)
  PROVE  Bought(stock, lines, costs, new)
<1> SUFFICES /\ new \in [Items -> StockRow]
             /\ \A i \in Items :
                  /\ new[i].qty = stock[i].qty + QtyIn(lines, i)
                  /\ IF \E k \in DOMAIN lines : lines[k].item = i
                     THEN (stock[i].qty > 0 => Between(stock[i].avg, costs[i])) => Between(new[i].avg, costs[i])
                     ELSE new[i] = stock[i]
  BY DEF Bought
<1> USE DEF CostsCover
<1> PICK s : s = stock
  OBVIOUS
<1> DEFINE n == Len(lines)
           part(i, k) == SumFunctionOnSet(Held(lines, i), 1..k)
           Good(x, k) ==
             /\ x \in [Items -> StockRow]
             /\ \A i \in Items :
                  /\ x[i].qty = s[i].qty + part(i, k)
                  /\ IF \E m \in 1..k : lines[m].item = i
                     THEN (s[i].qty > 0 => Between(s[i].avg, costs[i])) => Between(x[i].avg, costs[i])
                     ELSE x[i] = s[i]
<1>1. /\ DOMAIN lines = 1..n /\ n \in Nat
      /\ \A k \in 1..n : lines[k] \in ReceiptLine
      /\ \A i \in Items : \A k \in 1..n : Held(lines, i)[k] \in Nat
  BY LinesOfReceipt
<1> PICK g : Importing(g, s, lines, n) /\ new = g[n]
  <2>1. PICK f : f = CHOOSE h : Importing(h, s, lines, n)
    OBVIOUS
  <2>2. Importing(f, s, lines, n)
    BY <1>1, <2>1, ImportingSolved
  <2>3. new = f[n]
    BY <2>1 DEF ImportedAll, Importing
  <2> QED
    BY <2>2, <2>3
<1>2. g[0] = s /\ \A k \in 1..n : g[k] = Imported(g[k - 1], lines[k])
  <2>0. PICK h : h = g
    OBVIOUS
  <2>1. g = [k \in 0..n |-> IF k = 0 THEN s ELSE Imported(h[k - 1], lines[k])] /\ n \in Nat
    BY <1>1, <2>0 DEF Importing
  <2>2. g[0] = s /\ \A k \in 1..n : g[k] = Imported(h[k - 1], lines[k])
    BY <2>1
  <2> QED
    BY <2>0, <2>2
<1> DEFINE G == {k \in Nat : k <= n => Good(g[k], k)}
<1>3. 0 \in G
  <2>1. \A i \in Items : part(i, 0) = 0
    <3>1. 1..0 = {}
      OBVIOUS
    <3> QED
      BY <3>1, SumEmpty
  <2>2. Good(g[0], 0)
    BY <1>2, <2>1 DEF StockRow
  <2> QED
    BY <2>2
<1>4. ASSUME NEW k \in Nat, k \in G PROVE k + 1 \in G
  <2> HIDE DEF Good
  <2> SUFFICES ASSUME k + 1 <= n PROVE Good(g[k + 1], k + 1)
    BY <1>1
  <2> USE DEF Good
  <2> PICK x : x = g[k]
    OBVIOUS
  <2> PICK l : l = lines[k + 1]
    OBVIOUS
  <2> PICK y : y = g[k + 1]
    OBVIOUS
  <2>1. k \in 1..n \/ k = 0
    OBVIOUS
  <2>2. k + 1 \in 1..n /\ l \in ReceiptLine /\ y = Imported(x, l)
    BY <1>1, <1>2
  <2>3. Good(x, k)
    BY <1>4
  <2> HIDE DEF G, n
  <2>4. \A i \in Items : part(i, k + 1) = part(i, k) + (IF l.item = i THEN BaseQty(l) ELSE 0)
    <3> SUFFICES ASSUME NEW i \in Items
                 PROVE  part(i, k + 1) = part(i, k) + (IF l.item = i THEN BaseQty(l) ELSE 0)
      OBVIOUS
    <3>0. IsFiniteSet(1..k)
      BY FirstFinite
    <3>1. 1..(k + 1) = (1..k) \cup {k + 1} /\ k + 1 \notin 1..k /\ IsFiniteSet(1..k)
      BY <3>0
    <3> PICK f : f = Held(lines, i)
      OBVIOUS
    <3>2. f[k + 1] = (IF l.item = i THEN BaseQty(l) ELSE 0) /\ f[k + 1] \in Int
      BY <1>1, <2>2 DEF Held
    <3>3. \A m \in 1..k : f[m] \in Int
      BY <1>1, <2>2
    <3>4. SumFunctionOnSet(f, 1..k) \in Int
      BY <3>1, <3>3, SumIntegersOver
    <3>5. SumFunctionOnSet(f, (1..k) \cup {k + 1}) = f[k + 1] + SumFunctionOnSet(f, 1..k)
      BY <3>1, <3>2, <3>3, SumAdd
    <3>6. SumFunctionOnSet(f, 1..(k + 1)) = f[k + 1] + SumFunctionOnSet(f, 1..k)
      BY <3>1, <3>5, Zenon
    <3> QED
      BY <3>2, <3>4, <3>6
  <2>5. /\ y \in [Items -> StockRow] /\ y[l.item].qty = x[l.item].qty + BaseQty(l)
        /\ \A i \in Items \ {l.item} : y[i] = x[i]
    BY <2>2, <2>3, ImportOne
  <2>6. l.item \in Items /\ BaseQty(l) \in Nat
    BY <2>2 DEF ReceiptLine, BaseQty
  <2>7. \A i \in Items : part(i, k) \in Int
    <3>1. \A i \in Items : \A m \in 1..k : Held(lines, i)[m] \in Int
      BY <1>1, <2>2
    <3>2. IsFiniteSet(1..k)
      BY FirstFinite
    <3> QED
      BY <3>1, <3>2, SumIntegersOver
  <2>8. ASSUME NEW i \in Items PROVE y[i].qty = s[i].qty + part(i, k + 1)
    <3>1. x[i].qty = s[i].qty + part(i, k) /\ s[i].qty \in Int /\ x[i].qty \in Int
      BY <2>3 DEF StockRow
    <3> HIDE DEF part
    <3>2. CASE l.item = i
      BY <2>4, <2>5, <2>6, <2>7, <3>1, <3>2
    <3>3. CASE l.item # i
      BY <2>4, <2>5, <2>7, <3>1, <3>3
    <3> QED
      BY <3>2, <3>3
  <2>9. ASSUME NEW i \in Items
        PROVE  IF \E m \in 1..(k + 1) : lines[m].item = i
               THEN (s[i].qty > 0 => Between(s[i].avg, costs[i])) => Between(y[i].avg, costs[i])
               ELSE y[i] = s[i]
    <3> HIDE DEF part
    <3>1. CASE l.item = i
      <4>1. ASSUME s[i].qty > 0 => Between(s[i].avg, costs[i])
            PROVE  Between(y[i].avg, costs[i])
        <5>1. x[i].qty > 0 => Between(x[i].avg, costs[i])
          BY <2>3, <4>1
        <5>2. Rounded(100 * l.price, l.factor) \in costs[i] /\ costs[i] \in SUBSET Nat
          BY <1>1, <2>2, <3>1
        <5> QED
          BY <2>2, <2>3, <3>1, <5>1, <5>2, ImportOne
      <4>2. \E m \in 1..(k + 1) : lines[m].item = i
        BY <3>1
      <4> QED
        BY <4>1, <4>2
    <3>2. CASE l.item # i
      <4>1. y[i] = x[i]
        BY <2>5, <3>2
      <4>2. (\E m \in 1..(k + 1) : lines[m].item = i) <=> (\E m \in 1..k : lines[m].item = i)
        BY <3>2
      <4> QED
        BY <2>3, <4>1, <4>2
    <3> QED
      BY <3>1, <3>2
  <2> QED
    BY <2>5, <2>8, <2>9
<1> HIDE DEF G
<1>5. n \in G
  BY <1>1, <1>3, <1>4, CountingInduction
<1>6. Good(new, n)
  BY <1>5 DEF G
<1>7. ASSUME NEW i \in Items
      PROVE  /\ new[i].qty = stock[i].qty + QtyIn(lines, i)
             /\ IF \E k \in DOMAIN lines : lines[k].item = i
                THEN (stock[i].qty > 0 => Between(stock[i].avg, costs[i])) => Between(new[i].avg, costs[i])
                ELSE new[i] = stock[i]
  <2>1. QtyIn(lines, i) = part(i, n)
    BY <1>1, LinesOfReceipt
  <2> HIDE DEF part
  <2> QED
    BY <1>1, <1>6, <2>1
<1> QED
  BY <1>6, <1>7

----------------------------------------------------------------------------
(* Money: what bills come to.                                              *)

LEMMA DiscountNatural ==
  ASSUME NEW d \in DiscountTerms, NEW base \in Nat
  PROVE  Discount(d, base) \in Nat
<1>1. base * d.value \in Nat /\ d.value \in Nat
  BY DEF DiscountTerms
<1>2. Rounded(base * d.value, 100) \in Nat
  BY <1>1, RoundedBounds
<1> QED
  BY <1>1, <1>2 DEF Discount

LEMMA SumOfNaturals ==
  ASSUME NEW S, IsFiniteSet(S), NEW f, \A x \in S : f[x] \in Nat
  PROVE  SumFunctionOnSet(f, S) \in Nat
BY SumNat

LEMMA ReceiptTotalNatural ==
  ASSUME NEW b \in Bills
  PROVE  ReceiptTotal(b) \in Nat
<1> DEFINE f == [k \in DOMAIN b.lines |-> LineTotal(b.lines[k])]
<1>1. b.lines \in Seq(ReceiptLine) /\ b.disc \in DiscountTerms /\ b.ship \in Nat
  BY BillsAssumption
<1>2. IsFiniteSet(DOMAIN b.lines) /\ \A k \in DOMAIN b.lines : b.lines[k] \in ReceiptLine
  BY <1>1, LinesOfReceipt
<1>3. \A k \in DOMAIN b.lines : f[k] \in Nat
  <2> SUFFICES ASSUME NEW k \in DOMAIN b.lines PROVE LineTotal(b.lines[k]) \in Nat
    OBVIOUS
  <2> PICK l \in ReceiptLine : l = b.lines[k]
    BY <1>2
  <2>1. l.qty * l.price \in Nat /\ l.disc \in DiscountTerms
    BY DEF ReceiptLine
  <2>2. Discount(l.disc, l.qty * l.price) \in Nat
    BY <2>1, DiscountNatural
  <2> QED
    BY <2>1, <2>2 DEF LineTotal, NotNegative
<1>4. SubTotal(b) = SumFunctionOnSet(f, DOMAIN b.lines)
  BY DEF SubTotal, SumOf, SumOver, SumFunction
<1> HIDE DEF f
<1>5. SubTotal(b) \in Nat
  BY <1>2, <1>3, <1>4, SumOfNaturals
<1>6. Discount(b.disc, SubTotal(b)) \in Nat
  BY <1>1, <1>5, DiscountNatural
<1> QED
  BY <1>1, <1>5, <1>6 DEF ReceiptTotal, NotNegative

LEMMA LinesOfReturn ==
  ASSUME NEW lines \in Seq(ReturnLine), NEW i
  PROVE  /\ IsFiniteSet(DOMAIN lines) /\ \A k \in DOMAIN lines : lines[k] \in ReturnLine
         /\ QtyIn(lines, i) \in Nat
<1>1. DOMAIN lines = 1..Len(lines) /\ Len(lines) \in Nat
  OBVIOUS
<1>2. \A k \in DOMAIN lines : lines[k] \in ReturnLine
  OBVIOUS
<1>3. QtyIn(lines, i) = SumFunctionOnSet(Held(lines, i), DOMAIN lines)
  BY DEF QtyIn, SumOf, SumOver, SumFunction, Held
<1>4. IsFiniteSet(DOMAIN lines)
  BY <1>1, FirstFinite
<1>5. \A k \in DOMAIN lines : Held(lines, i)[k] \in Nat
  BY <1>2 DEF Held, BaseQty, ReturnLine
<1> QED
  BY <1>2, <1>3, <1>4, <1>5, SumOfNaturals

LEMMA BoughtNatural ==
  ASSUME NEW b \in Bills, NEW i
  PROVE  QtyIn(b.lines, i) \in Nat
<1>1. b.lines \in Seq(ReceiptLine)
  BY BillsAssumption
<1> QED
  BY <1>1, LinesOfReceipt, SumOfNaturals

\* What the lines of a return are for.
GoodsOn(b) == [k \in DOMAIN b.lines |-> LineGoods(b.lines[k])]

LEMMA RefundDueWhole ==
  ASSUME NEW b \in ReturnBills
  PROVE  /\ RefundDue(b) \in Int /\ Goods(b) \in Nat /\ Discount(b.disc, Goods(b)) \in Nat
         /\ IsFiniteSet(DOMAIN b.lines) /\ DOMAIN b.lines = 1..Len(b.lines) /\ Len(b.lines) \in Nat
         /\ \A k \in DOMAIN b.lines : b.lines[k] \in ReturnLine /\ LineGoods(b.lines[k]) \in Nat
         /\ Goods(b) = SumFunctionOnSet(GoodsOn(b), DOMAIN b.lines)
<1>1. b.lines \in Seq(ReturnLine) /\ b.disc \in DiscountTerms
  BY ReturnBillsAssumption
<1>2. /\ IsFiniteSet(DOMAIN b.lines) /\ \A k \in DOMAIN b.lines : b.lines[k] \in ReturnLine
      /\ DOMAIN b.lines = 1..Len(b.lines) /\ Len(b.lines) \in Nat
  <2>1. DOMAIN b.lines = 1..Len(b.lines) /\ Len(b.lines) \in Nat
    BY <1>1
  <2> QED
    BY <1>1, <2>1, LinesOfReturn
<1>3. \A k \in DOMAIN b.lines : LineGoods(b.lines[k]) \in Nat
  <2> SUFFICES ASSUME NEW l \in ReturnLine PROVE LineGoods(l) \in Nat
    BY <1>2
  <2> QED
    BY DEF ReturnLine, LineGoods
<1>4. Goods(b) = SumFunctionOnSet(GoodsOn(b), DOMAIN b.lines)
  BY DEF Goods, SumOf, SumOver, SumFunction, GoodsOn
<1>5. \A k \in DOMAIN b.lines : GoodsOn(b)[k] \in Nat
  BY <1>3 DEF GoodsOn
<1>6. Goods(b) \in Nat
  BY <1>2, <1>4, <1>5, SumOfNaturals
<1>7. Discount(b.disc, Goods(b)) \in Nat
  BY <1>1, <1>6, DiscountNatural
<1> QED
  BY <1>2, <1>3, <1>4, <1>6, <1>7 DEF RefundDue

\* The lines' refunds are whole and sum to what the supplier owes: what rounding
\* leaves of the discount is on the last line.
LEMMA LineRefundsAddUp ==
  ASSUME NEW b \in ReturnBills, RefundDue(b) >= 0
  PROVE  /\ DOMAIN LineRefunds(b) = DOMAIN b.lines
         /\ \A k \in DOMAIN b.lines : LineRefunds(b)[k] \in Int
         /\ SumFunctionOnSet(LineRefunds(b), DOMAIN b.lines) = RefundDue(b)
<1> DEFINE L == DOMAIN b.lines
           n == Len(b.lines)
           D == Discount(b.disc, Goods(b))
           shares == [k \in L |-> DiscountShare(b, b.lines[k])]
           left == IF Goods(b) = 0 THEN 0 ELSE D - SumFunctionOnSet(shares, L)
           last == [k \in L |-> IF k = n THEN left ELSE 0]
           all == [k \in L |-> shares[k] + last[k]]
           refunds == [k \in L |-> GoodsOn(b)[k] - all[k]]
<1>1. /\ Goods(b) \in Nat /\ D \in Nat /\ IsFiniteSet(L) /\ L = 1..n /\ n \in Nat
      /\ \A k \in L : LineGoods(b.lines[k]) \in Nat
      /\ Goods(b) = SumFunctionOnSet(GoodsOn(b), L)
      /\ RefundDue(b) = Goods(b) - D
  BY RefundDueWhole DEF RefundDue
<1>2. \A k \in L : shares[k] \in Nat
  <2> SUFFICES ASSUME NEW k \in L PROVE DiscountShare(b, b.lines[k]) \in Nat
    OBVIOUS
  <2> PICK g \in Nat : g = LineGoods(b.lines[k])
    BY <1>1
  <2>1. CASE Goods(b) = 0
    BY <2>1 DEF DiscountShare
  <2>2. CASE Goods(b) # 0
    <3>1. g * D \in Nat /\ Goods(b) \in Nat \ {0}
      BY <1>1, <2>2
    <3>2. Rounded(g * D, Goods(b)) \in Nat
      BY <3>1, RoundedBounds
    <3> QED
      BY <2>2, <3>2 DEF DiscountShare
  <2> QED
    BY <2>1, <2>2
<1>3. SumOf(b.lines, LAMBDA l : DiscountShare(b, l)) = SumFunctionOnSet(shares, L)
  BY DEF SumOf, SumOver, SumFunction
<1>4. Allocated(b) = all
  BY <1>3, Zenon DEF Allocated
<1>5. LineRefunds(b) = refunds
  BY <1>4 DEF LineRefunds, GoodsOn
<1>6. \A k \in L : GoodsOn(b)[k] \in Int
  BY <1>1 DEF GoodsOn
<1>7. /\ \A k \in L : last[k] = IF k = n THEN left ELSE 0
      /\ \A k \in L : all[k] = shares[k] + last[k]
      /\ \A k \in L : refunds[k] = GoodsOn(b)[k] - all[k]
      /\ DOMAIN refunds = L
  OBVIOUS
<1> PICK sum : sum = SumFunctionOnSet(shares, L)
  OBVIOUS
<1>8. sum \in Int
  <2>1. \A k \in L : shares[k] \in Int
    BY <1>2
  <2> HIDE DEF shares, L
  <2> QED
    BY <1>1, <2>1, SumIntegersOver
<1>9. left = IF Goods(b) = 0 THEN 0 ELSE D - sum
  OBVIOUS
<1>10. Goods(b) = 0 => D = 0 /\ sum = 0
  <2> SUFFICES ASSUME Goods(b) = 0 PROVE D = 0 /\ sum = 0
    OBVIOUS
  <2>1. D = 0
    BY <1>1
  <2>2. \A k \in L : shares[k] = 0
    BY DEF DiscountShare
  <2> HIDE DEF shares, D
  <2>3. SumFunctionOnSet(shares, L) = 0
    BY <1>1, <2>2, SumZero
  <2> QED
    BY <2>1, <2>3
<1>11. n = 0 => Goods(b) = 0
  <2> SUFFICES ASSUME n = 0 PROVE Goods(b) = 0
    OBVIOUS
  <2>1. L = {}
    BY <1>1
  <2> HIDE DEF L
  <2> QED
    BY <1>1, <2>1, SumEmpty
<1> HIDE DEF L, n, D, shares, left, last, all, refunds
<1>12. left \in Int
  BY <1>1, <1>8, <1>9
<1>13. \A k \in L : last[k] \in Int /\ all[k] \in Int /\ refunds[k] \in Int
  BY <1>2, <1>6, <1>7, <1>12
<1>14. SumFunctionOnSet(last, L) = left
  <2>1. CASE n = 0
    <3>1. L = {} /\ left = 0
      BY <1>1, <1>9, <1>11, <2>1
    <3> QED
      BY <3>1, SumEmpty
  <2>2. CASE n # 0
    <3>1. n \in L /\ last[n] = left /\ \A k \in L \ {n} : last[k] = 0
      BY <1>1, <1>7, <2>2
    <3> QED
      BY <1>1, <1>12, <3>1, SumOne
  <2> QED
    BY <2>1, <2>2
<1>15. SumFunctionOnSet(all, L) = sum + left
  <2>1. \A k \in L : shares[k] \in Int /\ last[k] \in Int /\ all[k] = shares[k] + last[k]
    BY <1>2, <1>7, <1>13
  <2> QED
    BY <1>1, <1>14, <2>1, SumPlus
<1>16. Goods(b) = SumFunctionOnSet(refunds, L) + SumFunctionOnSet(all, L)
  <2>1. \A k \in L : /\ refunds[k] \in Int /\ all[k] \in Int
                     /\ GoodsOn(b)[k] = refunds[k] + all[k]
    BY <1>6, <1>7, <1>13
  <2> QED
    BY <1>1, <2>1, SumPlus
<1>17. SumFunctionOnSet(refunds, L) \in Int
  BY <1>1, <1>13, SumIntegersOver
<1>18. SumFunctionOnSet(refunds, L) = RefundDue(b)
  BY <1>1, <1>8, <1>9, <1>10, <1>12, <1>15, <1>16, <1>17
<1>19. DOMAIN refunds = L /\ \A k \in L : refunds[k] \in Int
  BY <1>7, <1>13
<1> QED
  BY <1>5, <1>18, <1>19 DEF L

----------------------------------------------------------------------------
(* The cashbook: what is booked for a document, entry by entry.            *)

IsBook(B) == IsABag(B) /\ IsFiniteSet(BagToSet(B)) /\ BagToSet(B) \subseteq Voucher

Its(B, type, doc) == {e \in BagToSet(B) : e.type = type /\ e.doc = doc}

\* The entries of a kind for a document, each valued by v.
Worth(B, v, type, doc) == SumFunctionOnSet([e \in Its(B, type, doc) |-> B[e] * v[e]], Its(B, type, doc))

Values == [e \in Voucher |-> e.amount]
Sizes == [e \in Voucher |-> Magnitude(e.amount)]

PaidOut(B, doc) == Worth(B, Sizes, "PAYMENT", doc)
Net(B, doc) == Worth(B, Values, "RECEIPT", doc) - Worth(B, Values, "PAYMENT", doc)

LEMMA ValuesWhole ==
  /\ \A e \in Voucher : Values[e] = e.amount /\ Values[e] \in Int
  /\ \A e \in Voucher : Sizes[e] = Magnitude(e.amount) /\ Sizes[e] \in Nat
BY DEF Values, Sizes, Voucher, Magnitude

LEMMA BookFacts ==
  ASSUME NEW B, IsBook(B), NEW type, NEW doc
  PROVE  /\ Its(B, type, doc) \subseteq Voucher /\ IsFiniteSet(Its(B, type, doc))
         /\ \A e \in BagToSet(B) : B[e] \in Nat /\ B[e] > 0
         /\ \A e \in Its(B, type, doc) : B[e] \in Nat
<1>1. Its(B, type, doc) \subseteq BagToSet(B)
  BY DEF Its
<1>2. \A e \in BagToSet(B) : B[e] \in Nat /\ B[e] > 0
  BY DEF IsBook, IsABag, BagToSet
<1> QED
  BY <1>1, <1>2, FS_Subset DEF IsBook

LEMMA WorthWhole ==
  ASSUME NEW B, IsBook(B), NEW v, \A e \in Voucher : v[e] \in Int, NEW type, NEW doc
  PROVE  Worth(B, v, type, doc) \in Int
<1> DEFINE S == Its(B, type, doc)
           f == [e \in S |-> B[e] * v[e]]
<1>1. IsFiniteSet(S) /\ S \subseteq Voucher /\ \A e \in S : B[e] \in Nat
  BY BookFacts
<1>2. \A e \in S : f[e] \in Int
  BY <1>1
<1>3. Worth(B, v, type, doc) = SumFunctionOnSet(f, S)
  BY DEF Worth
<1> HIDE DEF f, S
<1> QED
  BY <1>1, <1>2, <1>3, SumIntegersOver

LEMMA BooksWhole ==
  ASSUME NEW B, IsBook(B), NEW doc
  PROVE  /\ PaidOut(B, doc) \in Int /\ Net(B, doc) \in Int
         /\ Worth(B, Values, "RECEIPT", doc) \in Int /\ Worth(B, Values, "PAYMENT", doc) \in Int
<1>1. /\ \A e \in Voucher : Values[e] \in Int
      /\ \A e \in Voucher : Sizes[e] \in Int
  BY ValuesWhole
<1>2. /\ PaidOut(B, doc) \in Int
      /\ Worth(B, Values, "RECEIPT", doc) \in Int /\ Worth(B, Values, "PAYMENT", doc) \in Int
  BY <1>1, WorthWhole DEF PaidOut
<1> QED
  BY <1>2 DEF Net

\* What the operators of the model say of the cashbook of the moment.
LEMMA BookedIsWorth ==
  ASSUME NEW type, NEW doc, BagToSet(cashbook) \subseteq Voucher
  PROVE  /\ Booked(type, doc) = Worth(cashbook, Values, type, doc)
         /\ Total(Magnitude, Entries(type, doc)) = Worth(cashbook, Sizes, type, doc)
         /\ Entries(type, doc) = Its(cashbook, type, doc)
<1> DEFINE S == Its(cashbook, type, doc)
<1>1. Entries(type, doc) = S /\ S \subseteq Voucher
  BY DEF Entries, Its
<1>2. [e \in S |-> cashbook[e] * e.amount] = [e \in S |-> cashbook[e] * Values[e]]
  BY <1>1, ValuesWhole
<1>3. [e \in S |-> cashbook[e] * Magnitude(e.amount)] = [e \in S |-> cashbook[e] * Sizes[e]]
  BY <1>1, ValuesWhole
<1>4. Booked(type, doc) = SumFunctionOnSet([e \in S |-> cashbook[e] * e.amount], S)
  BY <1>1 DEF Booked, Total, SumOver, SumFunction
<1>5. Total(Magnitude, Entries(type, doc)) = SumFunctionOnSet([e \in S |-> cashbook[e] * Magnitude(e.amount)], S)
  BY <1>1 DEF Total, SumOver, SumFunction
<1>6. Booked(type, doc) = Worth(cashbook, Values, type, doc)
  BY <1>2, <1>4, Zenon DEF Worth
<1>7. Total(Magnitude, Entries(type, doc)) = Worth(cashbook, Sizes, type, doc)
  BY <1>3, <1>5, Zenon DEF Worth
<1> QED
  BY <1>1, <1>6, <1>7

\* Two cashbooks that say the same of a document.
Alike(B, C, doc) ==
  \A e \in Voucher : e.doc = doc =>
    (e \in BagToSet(B) <=> e \in BagToSet(C)) /\ (e \in BagToSet(B) => B[e] = C[e])

LEMMA AlikeWorth ==
  ASSUME NEW B, IsBook(B), NEW C, IsBook(C), NEW doc, Alike(B, C, doc)
  PROVE  /\ \A type : Its(B, type, doc) = Its(C, type, doc)
         /\ PaidOut(B, doc) = PaidOut(C, doc) /\ Net(B, doc) = Net(C, doc)
<1>1. \A type : Its(B, type, doc) = Its(C, type, doc)
  BY DEF Its, IsBook, Alike
<1>2. \A type, v : Worth(B, v, type, doc) = Worth(C, v, type, doc)
  <2> SUFFICES ASSUME NEW type, NEW v PROVE Worth(B, v, type, doc) = Worth(C, v, type, doc)
    OBVIOUS
  <2> PICK S : S = Its(B, type, doc)
    OBVIOUS
  <2>1. \A e \in S : B[e] = C[e]
    BY DEF Its, IsBook, Alike
  <2>2. [e \in S |-> B[e] * v[e]] = [e \in S |-> C[e] * v[e]]
    BY <2>1
  <2>3. Its(C, type, doc) = S
    BY <1>1
  <2> QED
    BY <2>2, <2>3, Zenon DEF Worth
<1> QED
  BY <1>1, <1>2 DEF PaidOut, Net

\* One entry more.
Grown(B, e) == B (+) SetToBag({e})

LEMMA GrownBook ==
  ASSUME NEW B, IsBook(B), NEW e \in Voucher
  PROVE  /\ IsBook(Grown(B, e)) /\ BagToSet(Grown(B, e)) = BagToSet(B) \cup {e}
         /\ \A x \in BagToSet(B) \cup {e} :
              Grown(B, e)[x] = (IF x \in BagToSet(B) THEN B[x] ELSE 0) + (IF x = e THEN 1 ELSE 0)
<1> DEFINE D == BagToSet(B)
<1>1. Grown(B, e) = [x \in D \cup {e} |-> (IF x \in D THEN B[x] ELSE 0) + (IF x = e THEN 1 ELSE 0)]
  BY DEF Grown, (+), SetToBag, BagToSet
<1>2. \A x \in D : B[x] \in Nat /\ B[x] > 0
  BY BookFacts
<1>3. IsFiniteSet(D \cup {e})
  BY FS_AddElement DEF IsBook
<1>4. BagToSet(Grown(B, e)) = D \cup {e}
  BY <1>1 DEF BagToSet
<1>5. IsABag(Grown(B, e))
  <2> HIDE DEF D
  <2>1. \A x \in D \cup {e} : Grown(B, e)[x] \in {n \in Nat : n > 0}
    BY <1>1, <1>2
  <2>2. Grown(B, e) \in [D \cup {e} -> {n \in Nat : n > 0}]
    BY <1>1, <2>1
  <2> QED
    BY <1>4, <2>2 DEF IsABag, BagToSet
<1> QED
  BY <1>1, <1>3, <1>4, <1>5 DEF IsBook

HasGrown(C, B, e) ==
  /\ BagToSet(C) = BagToSet(B) \cup {e}
  /\ \A x \in BagToSet(B) \cup {e} :
       C[x] = (IF x \in BagToSet(B) THEN B[x] ELSE 0) + (IF x = e THEN 1 ELSE 0)

LEMMA GrownHolds ==
  ASSUME NEW B, IsBook(B), NEW e \in Voucher
  PROVE  IsBook(Grown(B, e)) /\ HasGrown(Grown(B, e), B, e)
BY GrownBook DEF HasGrown

LEMMA GrownWorth ==
  ASSUME NEW B, IsBook(B), NEW e \in Voucher, NEW v, \A x \in Voucher : v[x] \in Int,
         NEW type, NEW doc
  PROVE  Worth(Grown(B, e), v, type, doc) =
           Worth(B, v, type, doc) + (IF e.type = type /\ e.doc = doc THEN v[e] ELSE 0)
<1> PICK C : C = Grown(B, e)
  OBVIOUS
<1>1. /\ IsBook(C) /\ BagToSet(C) = BagToSet(B) \cup {e}
      /\ \A x \in BagToSet(B) \cup {e} :
           C[x] = (IF x \in BagToSet(B) THEN B[x] ELSE 0) + (IF x = e THEN 1 ELSE 0)
  BY GrownBook
<1> PICK S : S = Its(B, type, doc)
  OBVIOUS
<1> PICK T : T = Its(C, type, doc)
  OBVIOUS
<1> DEFINE f == [x \in S |-> B[x] * v[x]]
           g == [x \in T |-> C[x] * v[x]]
<1>2. /\ S \subseteq Voucher /\ IsFiniteSet(S) /\ T \subseteq Voucher /\ IsFiniteSet(T)
      /\ \A x \in S : B[x] \in Nat
      /\ \A x \in T : C[x] \in Nat
  BY <1>1, BookFacts
<1>3. /\ \A x \in S : f[x] \in Int
      /\ \A x \in T : g[x] \in Int
  BY <1>2
<1>4. Worth(B, v, type, doc) = SumFunctionOnSet(f, S) /\ Worth(C, v, type, doc) = SumFunctionOnSet(g, T)
  BY DEF Worth
<1>5. SumFunctionOnSet(f, S) \in Int
  <2> HIDE DEF f
  <2> QED
    BY <1>2, <1>3, SumIntegersOver
<1>6. CASE ~ (e.type = type /\ e.doc = doc)
  <2>1. S = T
    BY <1>1, <1>6 DEF Its
  <2>2. \A x \in S : f[x] = g[x]
    <3> SUFFICES ASSUME NEW x \in S PROVE B[x] = C[x]
      BY <2>1
    <3>1. x # e /\ x \in BagToSet(B)
      BY <1>6 DEF Its
    <3> QED
      BY <1>1, <1>2, <3>1
  <2> HIDE DEF f, g
  <2>3. SumFunctionOnSet(f, S) = SumFunctionOnSet(g, S)
    BY <1>2, <1>3, <2>1, <2>2, SumSame
  <2> QED
    BY <1>4, <1>5, <1>6, <2>1, <2>3
<1>7. CASE e.type = type /\ e.doc = doc
  <2>1. T = S \cup {e}
    BY <1>1, <1>7 DEF Its
  <2>2. \A x \in S \ {e} : f[x] = g[x]
    <3> SUFFICES ASSUME NEW x \in S \ {e} PROVE B[x] = C[x]
      BY <2>1
    <3>1. x \in BagToSet(B)
      BY DEF Its
    <3> QED
      BY <1>1, <1>2, <3>1
  <2>3. CASE e \in S
    <3>1. g[e] = f[e] + v[e]
      <4>1. C[e] = B[e] + 1 /\ B[e] \in Nat /\ v[e] \in Int
        BY <1>1, <1>2, <2>3 DEF Its
      <4> QED
        BY <2>1, <2>3, <4>1
    <3>2. T = S
      BY <2>1, <2>3
    <3>9. /\ \A x \in S : f[x] \in Int /\ g[x] \in Int
          /\ \A x \in S \ {e} : f[x] = g[x]
      BY <1>3, <2>2, <3>2
    <3> HIDE DEF f, g
    <3>3. SumFunctionOnSet(g, S) = SumFunctionOnSet(f, S) - f[e] + g[e]
      <4> SUFFICES ASSUME NEW ff, ff = f, NEW gg, gg = g
                   PROVE  SumFunctionOnSet(gg, S) = SumFunctionOnSet(ff, S) - ff[e] + gg[e]
        OBVIOUS
      <4>1. /\ \A x \in S : ff[x] \in Int /\ gg[x] \in Int
            /\ \A x \in S \ {e} : ff[x] = gg[x]
        BY <3>9
      <4>2. IsFiniteSet(S) /\ e \in S
        BY <1>2, <2>3
      <4> HIDE <1>7, <2>3
      <4> QED
        BY <4>1, <4>2, SumReplace
    <3> QED
      BY <1>3, <1>4, <1>5, <1>7, <2>3, <3>1, <3>2, <3>3
  <2>4. CASE e \notin S
    <3>1. g[e] = v[e]
      <4>1. C[e] = 1 /\ v[e] \in Int
        BY <1>1, <1>7, <2>4 DEF Its
      <4> QED
        BY <2>1, <4>1
    <3> HIDE DEF f, g
    <3>2. SumFunctionOnSet(g, S \cup {e}) = g[e] + SumFunctionOnSet(g, S)
      BY <1>2, <1>3, <2>1, <2>4, SumAdd
    <3>3. SumFunctionOnSet(f, S) = SumFunctionOnSet(g, S)
      BY <1>2, <1>3, <2>1, <2>2, <2>4, SumSame
    <3>4. SumFunctionOnSet(g, T) = g[e] + SumFunctionOnSet(g, S)
      BY <2>1, <3>2, Zenon
    <3> QED
      BY <1>3, <1>4, <1>5, <1>7, <3>1, <3>3, <3>4
  <2> QED
    BY <2>3, <2>4
<1> QED
  BY <1>6, <1>7

\* One entry of an amount, unless it is nothing.
Vouch(B, type, doc, amount) ==
  IF amount = 0 THEN B ELSE Grown(B, [type |-> type, doc |-> doc, amount |-> amount])

LEMMA VouchFacts ==
  ASSUME NEW B, IsBook(B), NEW type \in {"RECEIPT", "PAYMENT"}, NEW doc \in Docs,
         NEW amount \in Nat, NEW C, C = Vouch(B, type, doc, amount)
  PROVE  /\ IsBook(C) /\ \A d : d # doc => Alike(B, C, d)
         /\ \A ty, d : Its(B, ty, d) \subseteq Its(C, ty, d)
         /\ PaidOut(C, doc) = PaidOut(B, doc) + (IF type = "PAYMENT" THEN amount ELSE 0)
         /\ Net(C, doc) = Net(B, doc) + (IF type = "RECEIPT" THEN amount ELSE - amount)
<1>0. /\ PaidOut(B, doc) \in Int /\ Net(B, doc) \in Int
      /\ Worth(B, Values, "RECEIPT", doc) \in Int /\ Worth(B, Values, "PAYMENT", doc) \in Int
  BY BooksWhole
<1>1. CASE amount = 0
  <2>1. C = B
    BY <1>1 DEF Vouch
  <2> QED
    BY <1>0, <1>1, <2>1 DEF Alike
<1>2. CASE amount # 0
  <2> PICK e : e = [type |-> type, doc |-> doc, amount |-> amount]
    OBVIOUS
  <2>1. e \in Voucher /\ C = Grown(B, e) /\ e.type = type /\ e.doc = doc /\ e.amount = amount
    BY <1>2 DEF Voucher, Vouch
  <2>2. /\ IsBook(C) /\ BagToSet(C) = BagToSet(B) \cup {e}
        /\ \A x \in BagToSet(B) \cup {e} :
             C[x] = (IF x \in BagToSet(B) THEN B[x] ELSE 0) + (IF x = e THEN 1 ELSE 0)
    BY <2>1, GrownBook
  <2>3. \A x \in BagToSet(B) : B[x] \in Nat
    BY BookFacts
  <2>4. \A d : d # doc => Alike(B, C, d)
    BY <2>1, <2>2, <2>3 DEF Alike
  <2>5. \A ty, d : Its(B, ty, d) \subseteq Its(C, ty, d)
    BY <2>2 DEF Its
  <2>6. /\ \A x \in Voucher : Values[x] \in Int
        /\ \A x \in Voucher : Sizes[x] \in Int
        /\ Values[e] = amount /\ Sizes[e] = amount
    BY <2>1, ValuesWhole DEF Magnitude
  <2>7. \A ty : Worth(C, Values, ty, doc) = Worth(B, Values, ty, doc) + (IF type = ty THEN amount ELSE 0)
    BY <2>1, <2>6, GrownWorth
  <2>8. Worth(C, Sizes, "PAYMENT", doc) =
          Worth(B, Sizes, "PAYMENT", doc) + (IF type = "PAYMENT" THEN amount ELSE 0)
    BY <2>1, <2>6, GrownWorth
  <2>9. PaidOut(C, doc) = PaidOut(B, doc) + (IF type = "PAYMENT" THEN amount ELSE 0)
    BY <2>8 DEF PaidOut
  <2>10. Net(C, doc) = Net(B, doc) + (IF type = "RECEIPT" THEN amount ELSE - amount)
    <3>1. /\ Worth(C, Values, "RECEIPT", doc) =
               Worth(B, Values, "RECEIPT", doc) + (IF type = "RECEIPT" THEN amount ELSE 0)
          /\ Worth(C, Values, "PAYMENT", doc) =
               Worth(B, Values, "PAYMENT", doc) + (IF type = "PAYMENT" THEN amount ELSE 0)
      BY <2>7
    <3> QED
      BY <1>0, <3>1 DEF Net
  <2> QED
    BY <2>2, <2>4, <2>5, <2>9, <2>10
<1> QED
  BY <1>1, <1>2

\* One entry put in the place of another of the same document.
Exchanged(B, e, f) == (B (-) SetToBag({e})) (+) SetToBag({f})

LEMMA ExchangedBook ==
  ASSUME NEW B, IsBook(B), NEW e \in BagToSet(B), NEW f \in Voucher, f.doc = e.doc,
         NEW C, C = Exchanged(B, e, f)
  PROVE  /\ IsBook(C) /\ \A d : d # e.doc => Alike(B, C, d)
         /\ \A x \in BagToSet(C) : x \in BagToSet(B) \/ x = f
<1> PICK A : A = B (-) SetToBag({e})
  OBVIOUS
<1>1. \A x \in BagToSet(B) : B[x] \in Nat /\ B[x] > 0
  BY BookFacts
<1> DEFINE D == {x \in BagToSet(B) : x # e \/ B[x] > 1}
<1>2. A = [x \in D |-> IF x = e THEN B[x] - 1 ELSE B[x]]
  <2> PICK U : U = BagToSet(B)
    OBVIOUS
  <2> DEFINE h == [x \in U |-> IF x = e THEN B[x] - 1 ELSE B[x]]
  <2>1. A = LET G == [x \in U |-> IF x = e THEN B[x] - 1 ELSE B[x]]
            IN [x \in {y \in U : G[y] > 0} |-> G[x]]
    BY DEF (-), SetToBag, BagToSet
  <2>2. A = [x \in {y \in U : h[y] > 0} |-> h[x]]
    BY <2>1
  <2>3. {y \in U : h[y] > 0} = D
    BY <1>1
  <2>4. \A x \in D : h[x] = IF x = e THEN B[x] - 1 ELSE B[x]
    OBVIOUS
  <2> HIDE DEF D, h
  <2>5. A = [x \in D |-> h[x]]
    BY <2>2, <2>3
  <2> QED
    BY <2>4, <2>5
<1>3. BagToSet(A) = D
  BY <1>2 DEF BagToSet
<1>4. D \subseteq BagToSet(B) /\ IsFiniteSet(D) /\ D \subseteq Voucher
  BY FS_Subset DEF IsBook
<1>5. IsABag(A)
  <2>1. \A x \in D : (IF x = e THEN B[x] - 1 ELSE B[x]) \in {n \in Nat : n > 0}
    BY <1>1
  <2> HIDE DEF D
  <2>2. A \in [D -> {n \in Nat : n > 0}]
    BY <1>2, <2>1
  <2> QED
    BY <1>3, <2>2 DEF IsABag, BagToSet
<1>6. IsBook(A)
  BY <1>3, <1>4, <1>5 DEF IsBook
<1>7. C = Grown(A, f)
  BY DEF Exchanged, Grown
<1>8. /\ IsBook(C) /\ BagToSet(C) = BagToSet(A) \cup {f}
      /\ \A x \in BagToSet(A) \cup {f} :
           C[x] = (IF x \in BagToSet(A) THEN A[x] ELSE 0) + (IF x = f THEN 1 ELSE 0)
  <2>1. IsBook(Grown(A, f)) /\ HasGrown(Grown(A, f), A, f)
    BY <1>6, GrownHolds
  <2> QED
    BY <1>7, <2>1 DEF HasGrown
<1>9. ASSUME NEW d, d # e.doc, NEW x \in Voucher, x.doc = d
      PROVE  (x \in BagToSet(B) <=> x \in BagToSet(C)) /\ (x \in BagToSet(B) => B[x] = C[x])
  <2>1. x # e /\ x # f
    BY <1>9
  <2>2. x \in BagToSet(B) <=> x \in D
    BY <2>1
  <2>3. x \in BagToSet(C) <=> x \in D
    BY <1>3, <1>8, <2>1
  <2>4. ASSUME x \in BagToSet(B) PROVE B[x] = C[x]
    <3>1. A[x] = B[x]
      BY <1>2, <2>1, <2>2, <2>4
    <3>2. x \in BagToSet(A) \cup {f} /\ x \in BagToSet(A)
      BY <1>3, <2>2, <2>4
    <3>3. C[x] = (IF x \in BagToSet(A) THEN A[x] ELSE 0) + (IF x = f THEN 1 ELSE 0)
      BY <1>8, <3>2
    <3>4. B[x] \in Nat
      BY <1>1, <2>4
    <3> QED
      BY <2>1, <3>1, <3>2, <3>3, <3>4
  <2> QED
    BY <2>2, <2>3, <2>4
<1>10. \A x \in BagToSet(C) : x \in BagToSet(B) \/ x = f
  BY <1>3, <1>4, <1>8
<1>11. \A d : d # e.doc => Alike(B, C, d)
  BY <1>9 DEF Alike
<1> QED
  BY <1>8, <1>10, <1>11

KeepsOthers(B, C, x) == IsBook(C) /\ \A d : d # x => Alike(B, C, d)

LEMMA ExchangedKeeps ==
  ASSUME NEW B, IsBook(B), NEW x, NEW e \in BagToSet(B), e.doc = x, NEW f \in Voucher, f.doc = x
  PROVE  KeepsOthers(B, Exchanged(B, e, f), x)
<1> PICK C : C = Exchanged(B, e, f)
  OBVIOUS
<1>1. f.doc = e.doc
  OBVIOUS
<1>2. IsBook(C) /\ \A d : d # e.doc => Alike(B, C, d)
  BY <1>1, ExchangedBook
<1> QED
  BY <1>2 DEF KeepsOthers

SameSign(B, doc) ==
  \A e, f \in Its(B, "PAYMENT", doc) : e.amount > 0 <=> f.amount > 0

\* A number and its opposite cancel, however often both are taken.
LEMMA Opposites ==
  ASSUME NEW n \in Int, NEW v \in Int, NEW m, m = - v
  PROVE  n * v + n * m = 0
<1>1. n * m = - (n * v)
  OBVIOUS
<1>2. n * v \in Int
  OBVIOUS
<1> QED
  BY <1>1, <1>2

\* Payments of one sign come to what was paid, or to the opposite.
LEMMA OneSignPaid ==
  ASSUME NEW B, IsBook(B), NEW doc, SameSign(B, doc)
  PROVE  Magnitude(Worth(B, Values, "PAYMENT", doc)) = PaidOut(B, doc)
<1> PICK S : S = Its(B, "PAYMENT", doc)
  OBVIOUS
<1> DEFINE f == [e \in S |-> B[e] * Values[e]]
           g == [e \in S |-> B[e] * Sizes[e]]
           h == [e \in S |-> 0]
<1>1. /\ S \subseteq Voucher /\ IsFiniteSet(S)
      /\ \A e \in S : B[e] \in Nat
      /\ \A x, y \in S : x.amount > 0 <=> y.amount > 0
  BY BookFacts DEF SameSign
<1>2. \A e \in S : Values[e] = e.amount /\ Values[e] \in Int /\ Sizes[e] = Magnitude(e.amount) /\ Sizes[e] \in Nat
  BY <1>1, ValuesWhole
<1>3. \A e \in S : f[e] \in Int /\ g[e] \in Nat /\ h[e] = 0
  <2> SUFFICES ASSUME NEW e \in S PROVE B[e] * Values[e] \in Int /\ B[e] * Sizes[e] \in Nat
    OBVIOUS
  <2> PICK n \in Nat, v \in Int, m \in Nat : n = B[e] /\ v = Values[e] /\ m = Sizes[e]
    BY <1>1, <1>2
  <2> QED
    OBVIOUS
<1>4. Worth(B, Values, "PAYMENT", doc) = SumFunctionOnSet(f, S) /\ PaidOut(B, doc) = SumFunctionOnSet(g, S)
  BY DEF Worth, PaidOut
<1>5. CASE \A e \in S : e.amount > 0
  <2>1. \A e \in S : f[e] = g[e]
    BY <1>2, <1>5 DEF Magnitude
  <2> HIDE DEF f, g
  <2>2. SumFunctionOnSet(f, S) = SumFunctionOnSet(g, S)
    BY <1>1, <1>3, <2>1, SumSame
  <2>3. SumFunctionOnSet(g, S) \in Nat
    BY <1>1, <1>3, SumOfNaturals
  <2> QED
    BY <1>4, <2>2, <2>3 DEF Magnitude
<1>6. CASE ~ \A e \in S : e.amount > 0
  <2>1. \A e \in S : h[e] = f[e] + g[e]
    <3> SUFFICES ASSUME NEW e \in S PROVE B[e] * Values[e] + B[e] * Sizes[e] = 0
      OBVIOUS
    <3>1. Sizes[e] = - Values[e] /\ Values[e] \in Int
      <4>1. ~ (e.amount > 0) /\ e.amount \in Int
        BY <1>1, <1>2, <1>6
      <4> QED
        BY <1>2, <4>1 DEF Magnitude
    <3>2. B[e] \in Nat
      BY <1>1, <1>2
    <3> QED
      BY <3>1, <3>2, Opposites
  <2> HIDE DEF f, g, h
  <2>2. SumFunctionOnSet(h, S) = SumFunctionOnSet(f, S) + SumFunctionOnSet(g, S)
    BY <1>1, <1>3, <2>1, SumPlus
  <2>3. SumFunctionOnSet(g, S) \in Nat
    BY <1>1, <1>3, SumOfNaturals
  <2>4. SumFunctionOnSet(f, S) \in Int
    BY <1>1, <1>3, SumIntegersOver
  <2>5. SumFunctionOnSet(h, S) = 0
    BY <1>1, <1>3, SumZero
  <2> QED
    BY <1>4, <2>2, <2>3, <2>4, <2>5 DEF Magnitude
<1> QED
  BY <1>5, <1>6

----------------------------------------------------------------------------
(* Documents and the cashbook: what a step keeps.                          *)

\* A receipt that agrees with its vouchers; a draft has none.
ReceiptBooked(B, row, r) ==
  /\ row.status = "DRAFT" => Its(B, "PAYMENT", r) = {}
  /\ row.status \in {"PAID", "OWING"} /\ SameSign(B, r) =>
       /\ row.paid = PaidOut(B, r)
       /\ row.debt = NotNegative(ReceiptTotal(row.bill) - row.paid)
       /\ row.status = "PAID" <=> row.debt = 0

\* A return that agrees with its vouchers, unless a payment was edited.
ReturnBooked(B, row, t) ==
  (\A e \in Its(B, "PAYMENT", t) : e.amount > 0) =>
    /\ row.status = "POSTED" => row.paid = Net(B, t)
    /\ row.status = "CANCELLED" => Net(B, t) = 0

Consistent(B, apart, calls, rs, ts) ==
  /\ IsBook(B)
  /\ \A e \in BagToSet(B) : e.doc \in Receipts => rs[e.doc] # NoDoc
  /\ \A e \in BagToSet(B) : e.doc \in Returns => ts[e.doc] # NoDoc
  /\ \A w \in Workers : calls[w] \in Receipts => rs[calls[w]] # NoDoc
  /\ \A r \in Receipts \ apart : rs[r] # NoDoc => ReceiptBooked(B, rs[r], r)
  /\ \A t \in Returns \ apart : ts[t] # NoDoc => ReturnBooked(B, ts[t], t)

\* A step that touches no document but x.
Frame(B, apart, calls, rs, ts, C, apart2, calls2, rs2, ts2, x) ==
  /\ \A d \in Docs \ {x} : Alike(B, C, d)
  /\ \A r \in Receipts \ {x} : rs2[r] = rs[r]
  /\ \A t \in Returns \ {x} : ts2[t] = ts[t]
  /\ \A d \in Docs \ {x} : d \in apart => d \in apart2
  /\ \A w \in Workers : calls2[w] = calls[w] \/ calls2[w] = NoDoc \/ calls2[w] = x

\* Document x agrees with its vouchers or is known to be apart from them.
Settles(C, apart2, rs2, ts2, x) ==
  /\ x \in Receipts => /\ rs2[x] # NoDoc
                       /\ x \in apart2 \/ ReceiptBooked(C, rs2[x], x)
  /\ x \in Returns => /\ ts2[x] = NoDoc => \A e \in BagToSet(C) : e.doc # x
                      /\ x \in apart2 \/ ts2[x] = NoDoc \/ ReturnBooked(C, ts2[x], x)

LEMMA AlikeBooked ==
  ASSUME NEW B, IsBook(B), NEW C, IsBook(C), NEW doc, Alike(B, C, doc), NEW row
  PROVE  /\ ReceiptBooked(B, row, doc) <=> ReceiptBooked(C, row, doc)
         /\ ReturnBooked(B, row, doc) <=> ReturnBooked(C, row, doc)
<1>1. /\ Its(B, "PAYMENT", doc) = Its(C, "PAYMENT", doc)
      /\ PaidOut(B, doc) = PaidOut(C, doc) /\ Net(B, doc) = Net(C, doc)
  BY AlikeWorth
<1> QED
  BY <1>1 DEF ReceiptBooked, ReturnBooked, SameSign

\* A step that touches one document and settles it keeps the others as they were.
LEMMA BookStep ==
  ASSUME NEW B, NEW apart, NEW calls, NEW rs, NEW ts, Consistent(B, apart, calls, rs, ts),
         NEW C, NEW apart2, NEW calls2, NEW rs2, NEW ts2, NEW x, IsBook(C),
         Frame(B, apart, calls, rs, ts, C, apart2, calls2, rs2, ts2, x),
         Settles(C, apart2, rs2, ts2, x)
  PROVE  Consistent(C, apart2, calls2, rs2, ts2)
<1> USE DEF Frame, Settles
<1>0. Receipts \cap Returns = {} /\ NoDoc \notin Docs /\ Docs = Receipts \cup Returns
  BY DocsAssumption DEF Docs
<1>1. \A e \in BagToSet(C) : e.doc \in Docs \ {x} => e \in BagToSet(B)
  BY DEF Alike, IsBook
<1>2. \A e \in BagToSet(C) : e.doc \in Receipts => rs2[e.doc] # NoDoc
  <2> SUFFICES ASSUME NEW e \in BagToSet(C), e.doc \in Receipts PROVE rs2[e.doc] # NoDoc
    OBVIOUS
  <2>1. CASE e.doc = x
    BY <2>1
  <2>2. CASE e.doc # x
    BY <1>0, <1>1, <2>2 DEF Consistent
  <2> QED
    BY <2>1, <2>2
<1>3. \A e \in BagToSet(C) : e.doc \in Returns => ts2[e.doc] # NoDoc
  <2> SUFFICES ASSUME NEW e \in BagToSet(C), e.doc \in Returns PROVE ts2[e.doc] # NoDoc
    OBVIOUS
  <2>1. CASE e.doc = x
    BY <2>1
  <2>2. CASE e.doc # x
    BY <1>0, <1>1, <2>2 DEF Consistent
  <2> QED
    BY <2>1, <2>2
<1>4. \A w \in Workers : calls2[w] \in Receipts => rs2[calls2[w]] # NoDoc
  BY <1>0 DEF Consistent
<1>5. \A r \in Receipts \ apart2 : rs2[r] # NoDoc => ReceiptBooked(C, rs2[r], r)
  <2> SUFFICES ASSUME NEW r \in Receipts \ apart2, rs2[r] # NoDoc PROVE ReceiptBooked(C, rs2[r], r)
    OBVIOUS
  <2>1. CASE r = x
    BY <2>1
  <2>2. CASE r # x
    <3>1. ReceiptBooked(B, rs[r], r) /\ rs2[r] = rs[r] /\ Alike(B, C, r) /\ IsBook(B)
      BY <1>0, <2>2 DEF Consistent
    <3> QED
      BY <3>1, AlikeBooked
  <2> QED
    BY <2>1, <2>2
<1>6. \A t \in Returns \ apart2 : ts2[t] # NoDoc => ReturnBooked(C, ts2[t], t)
  <2> SUFFICES ASSUME NEW t \in Returns \ apart2, ts2[t] # NoDoc PROVE ReturnBooked(C, ts2[t], t)
    OBVIOUS
  <2>1. CASE t = x
    BY <2>1
  <2>2. CASE t # x
    <3>1. ReturnBooked(B, ts[t], t) /\ ts2[t] = ts[t] /\ Alike(B, C, t) /\ IsBook(B)
      BY <1>0, <2>2 DEF Consistent
    <3> QED
      BY <3>1, AlikeBooked
  <2> QED
    BY <2>1, <2>2
<1> QED
  BY <1>2, <1>3, <1>4, <1>5, <1>6 DEF Consistent

----------------------------------------------------------------------------
(* Documents and goods: what a step keeps.                                 *)

\* What each document moved of an item.
Column(m, i) == [d \in Docs |-> m[d][i]]

Stocked(s, m) ==
  \A i \in Items : s[i].qty = Opening[i].qty + SumFunctionOnSet(Column(m, i), Docs)

ReceiptMoved(row, m) ==
  \A i \in Items :
    IF row = NoDoc \/ row.status = "DRAFT" THEN m[i] = 0
    ELSE m[i] = 0 \/ m[i] = QtyIn(row.bill.lines, i)

ReturnMoved(row, m) ==
  \A i \in Items :
    m[i] = IF row # NoDoc /\ row.status = "POSTED" THEN - QtyIn(row.bill.lines, i) ELSE 0

\* The average cost of an item that opened empty is untouched until it is bought.
Valued(s, m) ==
  \A i \in Items :
    Opening[i].qty = 0 =>
      \/ Between(s[i].avg, UnitCosts(i))
      \/ s[i].avg = Opening[i].avg /\ \A r \in Receipts : m[r][i] = 0

Supplied(s, m, rs, ts) ==
  /\ Stocked(s, m) /\ Valued(s, m)
  /\ \A r \in Receipts : ReceiptMoved(rs[r], m[r])
  /\ \A t \in Returns : ReturnMoved(ts[t], m[t])

Movements == [Docs -> [Items -> Int]]

LEMMA OneMore ==
  ASSUME NEW S, IsFiniteSet(S), NEW f, NEW g, NEW x \in S, NEW n \in Int,
         \A y \in S : f[y] \in Int /\ g[y] \in Int,
         \A y \in S \ {x} : f[y] = g[y],
         g[x] = f[x] + n
  PROVE  SumFunctionOnSet(g, S) = SumFunctionOnSet(f, S) + n /\ SumFunctionOnSet(f, S) \in Int
<1>1. SumFunctionOnSet(g, S) = SumFunctionOnSet(f, S) - f[x] + g[x]
  BY SumReplace
<1>2. SumFunctionOnSet(f, S) \in Int /\ f[x] \in Int
  BY SumIntegersOver
<1> QED
  BY <1>1, <1>2

Moves(m, i) == SumFunctionOnSet(Column(m, i), Docs)

LEMMA ColumnMoved ==
  ASSUME NEW m \in Movements, NEW m2 \in Movements, NEW doc \in Docs, NEW i \in Items,
         NEW n \in Int, \A d \in Docs \ {doc} : m2[d] = m[d], m2[doc][i] = m[doc][i] + n
  PROVE  Moves(m2, i) = Moves(m, i) + n /\ Moves(m, i) \in Int
<1> DEFINE f == Column(m, i)
           g == Column(m2, i)
<1>1. /\ \A d \in Docs : f[d] \in Int /\ g[d] \in Int
      /\ \A d \in Docs \ {doc} : f[d] = g[d]
      /\ g[doc] = f[doc] + n
  BY DEF Column, Movements
<1>2. IsFiniteSet(Docs)
  BY DocsAssumption
<1> HIDE DEF f, g
<1>3. SumFunctionOnSet(g, Docs) = SumFunctionOnSet(f, Docs) + n /\ SumFunctionOnSet(f, Docs) \in Int
  BY <1>1, <1>2, OneMore
<1> QED
  BY <1>3 DEF f, g, Moves

MovedBy(m, doc, by) == [m EXCEPT ![doc] = [i \in Items |-> m[doc][i] + by[i]]]

GrewBy(s, s2, by) == \A i \in Items : s2[i].qty = s[i].qty + by[i]

\* One document moves what its lines hold, in or out.
LEMMA StockMoved ==
  ASSUME NEW s, NEW m \in Movements, NEW doc \in Docs, NEW by \in [Items -> Int],
         NEW s2, NEW m2, Stocked(s, m), s \in [Items -> StockRow],
         m2 = MovedBy(m, doc, by), GrewBy(s, s2, by)
  PROVE  m2 \in Movements /\ Stocked(s2, m2)
<1>1. m2 \in Movements /\ \A d \in Docs \ {doc} : m2[d] = m[d]
  BY DEF Movements, MovedBy
<1>2. \A i \in Items : m2[doc][i] = m[doc][i] + by[i]
  BY DEF Movements, MovedBy
<1>3. ASSUME NEW i \in Items
      PROVE  s2[i].qty = Opening[i].qty + SumFunctionOnSet(Column(m2, i), Docs)
  <2>1. m2[doc][i] = m[doc][i] + by[i] /\ by[i] \in Int
    BY <1>2
  <2>2. Moves(m2, i) = Moves(m, i) + by[i] /\ Moves(m, i) \in Int
    BY <1>1, <2>1, ColumnMoved
  <2>3. s[i].qty = Opening[i].qty + Moves(m, i) /\ Opening[i].qty \in Int
    BY OpeningAssumption DEF Stocked, Moves
  <2>4. s2[i].qty = s[i].qty + by[i]
    BY DEF GrewBy
  <2> QED
    BY <2>1, <2>2, <2>3, <2>4 DEF Moves
<1> QED
  BY <1>1, <1>3 DEF Stocked


\* Documents change that moved nothing new.
LEMMA GoodsKept ==
  ASSUME NEW s, NEW m, NEW rs, NEW ts, Supplied(s, m, rs, ts), NEW rs2, NEW ts2, NEW x,
         \A r \in Receipts \ {x} : rs2[r] = rs[r],
         \A t \in Returns \ {x} : ts2[t] = ts[t],
         x \in Receipts => ReceiptMoved(rs2[x], m[x]),
         x \in Returns => ReturnMoved(ts2[x], m[x])
  PROVE  Supplied(s, m, rs2, ts2)
<1>1. \A r \in Receipts : ReceiptMoved(rs2[r], m[r])
  <2> SUFFICES ASSUME NEW r \in Receipts PROVE ReceiptMoved(rs2[r], m[r])
    OBVIOUS
  <2>1. CASE r = x
    BY <2>1
  <2>2. CASE r # x
    BY <2>2 DEF Supplied
  <2> QED
    BY <2>1, <2>2
<1>2. \A t \in Returns : ReturnMoved(ts2[t], m[t])
  <2> SUFFICES ASSUME NEW t \in Returns PROVE ReturnMoved(ts2[t], m[t])
    OBVIOUS
  <2>1. CASE t = x
    BY <2>1
  <2>2. CASE t # x
    BY <2>2 DEF Supplied
  <2> QED
    BY <2>1, <2>2
<1> QED
  BY <1>1, <1>2 DEF Supplied

\* Goods that are never in stock without having been bought.
LEMMA UnboughtEmpty ==
  ASSUME NEW s \in [Items -> StockRow], NEW m \in Movements, NEW rs, NEW ts \in [Returns -> Return \cup {NoDoc}],
         Supplied(s, m, rs, ts), NEW i \in Items, Opening[i].qty = 0, \A r \in Receipts : m[r][i] = 0
  PROVE  s[i].qty = 0
<1> PICK f : f = Column(m, i)
  OBVIOUS
<1> DEFINE g == [d \in Docs |-> 0]
<1>1. \A t \in Returns : m[t][i] \in Int /\ m[t][i] <= 0
  <2> SUFFICES ASSUME NEW t \in Returns PROVE m[t][i] \in Int /\ m[t][i] <= 0
    OBVIOUS
  <2>1. m[t][i] = IF ts[t] # NoDoc /\ ts[t].status = "POSTED" THEN - QtyIn(ts[t].bill.lines, i) ELSE 0
    BY DEF Supplied, ReturnMoved
  <2>2. ASSUME ts[t] # NoDoc PROVE QtyIn(ts[t].bill.lines, i) \in Nat
    <3>1. ts[t].bill \in ReturnBills
      BY <2>2 DEF Return
    <3>2. ts[t].bill.lines \in Seq(ReturnLine)
      BY <3>1, ReturnBillsAssumption
    <3> QED
      BY <3>2, LinesOfReturn
  <2> QED
    BY <2>1, <2>2
<1>2. \A d \in Docs : f[d] \in Int /\ g[d] \in Int /\ f[d] <= g[d]
  BY <1>1 DEF Column, Docs
<1>3. IsFiniteSet(Docs)
  BY DocsAssumption
<1>4. \A d \in Docs : g[d] = 0
  OBVIOUS
<1> HIDE DEF g
<1>5. SumFunctionOnSet(f, Docs) <= SumFunctionOnSet(g, Docs)
  BY <1>2, <1>3, SumLeq
<1>6. SumFunctionOnSet(g, Docs) = 0 /\ SumFunctionOnSet(f, Docs) \in Int
  BY <1>2, <1>3, <1>4, SumZero, SumIntegersOver
<1>7. s[i].qty = SumFunctionOnSet(f, Docs)
  BY <1>6 DEF Supplied, Stocked
<1>8. s[i].qty \in Nat
  BY DEF StockRow
<1> QED
  BY <1>5, <1>6, <1>7, <1>8

----------------------------------------------------------------------------
(* The invariant.                                                          *)

StoreInv ==
  /\ TypeOK
  /\ Consistent(cashbook, drift, call, receipts, returns)
  /\ Supplied(stock, moved, receipts, returns)

LEMMA StoreTypes ==
  ASSUME StoreInv
  PROVE  /\ stock \in [Items -> StockRow] /\ moved \in Movements
         /\ IsBook(cashbook) /\ drift \subseteq Docs /\ call \in [Workers -> Docs \cup {NoDoc}]
         /\ receipts \in [Receipts -> Receipt \cup {NoDoc}]
         /\ returns \in [Returns -> Return \cup {NoDoc}]
BY DEF StoreInv, TypeOK, StockRow, Movements, Consistent

LEMMA TypesHold ==
  ASSUME stock \in [Items -> StockRow], moved \in Movements, IsBook(cashbook), drift \subseteq Docs,
         call \in [Workers -> Docs \cup {NoDoc}],
         receipts \in [Receipts -> Receipt \cup {NoDoc}],
         returns \in [Returns -> Return \cup {NoDoc}]
  PROVE  TypeOK
BY DEF TypeOK, StockRow, Movements, IsBook

LEMMA SettledIs ==
  ASSUME NEW b \in Bills, NEW paid \in Nat, NEW row, row = Settled(b, paid)
  PROVE  /\ row \in Receipt /\ row # NoDoc
         /\ row.bill = b /\ row.paid = paid /\ row.status \in {"PAID", "OWING"}
         /\ row.debt = NotNegative(ReceiptTotal(b) - paid)
         /\ row.status = "PAID" <=> row.debt = 0
<1>1. ReceiptTotal(b) \in Nat
  BY ReceiptTotalNatural
<1>2. NotNegative(ReceiptTotal(b) - paid) \in Nat
  BY <1>1 DEF NotNegative
<1> QED
  BY <1>2, ReceiptAssumption DEF Settled, Receipt, ReceiptStatus

LEMMA DraftIs ==
  ASSUME NEW b \in Bills, NEW paid \in Nat, NEW row, row = Draft(b, paid)
  PROVE  row \in Receipt /\ row # NoDoc /\ row.status = "DRAFT"
BY ReceiptAssumption DEF Draft, Receipt, ReceiptStatus

\* A receipt that was not drafted yet, or is still a draft.
Open(r) == receipts[r] = NoDoc \/ HasStatus(r, "DRAFT")

LEMMA OpenFacts ==
  ASSUME StoreInv, NEW r \in Receipts, Open(r)
  PROVE  /\ \A i \in Items : moved[r][i] = 0
         /\ r \in drift \/ Its(cashbook, "PAYMENT", r) = {}
<1>1. \A i \in Items : moved[r][i] = 0
  BY DEF StoreInv, Supplied, ReceiptMoved, Open, HasStatus
<1>2. CASE receipts[r] = NoDoc
  BY <1>1, <1>2 DEF StoreInv, Consistent, Its
<1>3. CASE HasStatus(r, "DRAFT")
  BY <1>1, <1>3 DEF StoreInv, Consistent, HasStatus, ReceiptBooked
<1> QED
  BY <1>2, <1>3 DEF Open

\* Drafting a receipt, saving and cancelling a draft.
LEMMA StepDraft ==
  ASSUME StoreInv, NEW r \in Receipts, Open(r), NEW row \in Receipt,
         row.status = "DRAFT" \/ row.status = "CANCELLED",
         receipts' = [receipts EXCEPT ![r] = row],
         UNCHANGED <<stock, moved, cashbook, drift, call, returns>>
  PROVE  StoreInv'
<1>0. receipts \in [Receipts -> Receipt \cup {NoDoc}] /\ r \notin Returns /\ row # NoDoc
  BY StoreTypes, DocsAssumption, ReceiptAssumption
<1>1. TypeOK'
  BY <1>0 DEF StoreInv, TypeOK
<1>2. receipts'[r] = row /\ \A q \in Receipts \ {r} : receipts'[q] = receipts[q]
  BY <1>0
<1>3. r \in drift \/ ReceiptBooked(cashbook, row, r)
  BY OpenFacts DEF ReceiptBooked
<1>4. Consistent(cashbook, drift, call, receipts', returns)
  <2>1. IsBook(cashbook) /\ Consistent(cashbook, drift, call, receipts, returns)
    BY DEF StoreInv, Consistent
  <2>2. \A d : Alike(cashbook, cashbook, d)
    BY DEF Alike
  <2>3. Frame(cashbook, drift, call, receipts, returns, cashbook, drift, call, receipts', returns, r)
    BY <1>2, <2>2 DEF Frame
  <2>4. Settles(cashbook, drift, receipts', returns, r)
    BY <1>0, <1>2, <1>3 DEF Settles
  <2> QED
    BY <2>1, <2>3, <2>4, BookStep
<1>5. Supplied(stock, moved, receipts', returns)
  <2>1. ReceiptMoved(row, moved[r])
    BY OpenFacts DEF ReceiptMoved
  <2>2. Supplied(stock, moved, receipts, returns)
    BY DEF StoreInv
  <2> QED
    BY <1>0, <1>2, <2>1, <2>2, GoodsKept
<1> QED
  BY <1>1, <1>4, <1>5 DEF StoreInv

LEMMA ImportBought ==
  ASSUME stock \in [Items -> StockRow], NEW lines \in Seq(ReceiptLine),
         NEW costs \in [Items -> SUBSET Nat], CostsCover(lines, costs)
  PROVE  Bought(stock, lines, costs, ImportedAll(lines))
<1> PICK new : new = ImportedAll(lines)
  OBVIOUS
<1> QED
  BY ImportAll

LEMMA BoughtGoods ==
  ASSUME StoreInv, NEW r \in Receipts, \A i \in Items : moved[r][i] = 0, NEW b \in Bills,
         NEW row, row # NoDoc, row.status # "DRAFT", row.bill = b,
         NEW s, s = ImportedAll(b.lines), NEW m, m = Logged(r, b.lines, 1)
  PROVE  /\ s \in [Items -> StockRow] /\ m \in Movements
         /\ Supplied(s, m, [receipts EXCEPT ![r] = row], returns)
<1>0. /\ stock \in [Items -> StockRow] /\ moved \in Movements
      /\ receipts \in [Receipts -> Receipt \cup {NoDoc}]
      /\ returns \in [Returns -> Return \cup {NoDoc}]
      /\ Supplied(stock, moved, receipts, returns)
      /\ r \in Docs /\ Receipts \cap Returns = {} /\ Returns \subseteq Docs /\ Receipts \subseteq Docs
  BY StoreTypes, DocsAssumption DEF StoreInv, Docs
<1> DEFINE lines == b.lines
           costs == [i \in Items |-> UnitCosts(i)]
           by == [i \in Items |-> QtyIn(lines, i)]
<1>1. /\ lines \in Seq(ReceiptLine) /\ DOMAIN lines = 1..Len(lines)
      /\ \A k \in DOMAIN lines : lines[k] \in ReceiptLine
      /\ \A i \in Items : QtyIn(lines, i) \in Nat
  BY BillsAssumption, LinesOfReceipt, BoughtNatural
<1>2. /\ \A k \in DOMAIN lines : Rounded(100 * lines[k].price, lines[k].factor) \in costs[lines[k].item]
      /\ costs \in [Items -> SUBSET Nat]
  <2>1. \A c \in Bills : \A k \in DOMAIN c.lines : c.lines[k] \in ReceiptLine
    BY BillsAssumption, LinesOfReceipt
  <2>2. \A l \in ReceiptLine : Rounded(100 * l.price, l.factor) \in Nat
    <3> SUFFICES ASSUME NEW l \in ReceiptLine PROVE Rounded(100 * l.price, l.factor) \in Nat
      OBVIOUS
    <3>1. 100 * l.price \in Nat /\ l.factor \in Nat \ {0}
      BY DEF ReceiptLine
    <3> QED
      BY <3>1, RoundedBounds
  <2>3. costs \in [Items -> SUBSET Nat]
    BY <2>1, <2>2 DEF UnitCosts
  <2>4. \A k \in DOMAIN lines : lines[k].item \in Items
    BY <1>1 DEF ReceiptLine
  <2>5. \A k \in DOMAIN lines : Rounded(100 * lines[k].price, lines[k].factor) \in UnitCosts(lines[k].item)
    BY DEF UnitCosts
  <2> QED
    BY <2>3, <2>4, <2>5
<1> HIDE DEF costs
<1>3. /\ s \in [Items -> StockRow]
      /\ \A i \in Items :
           /\ s[i].qty = stock[i].qty + QtyIn(lines, i)
           /\ IF \E k \in DOMAIN lines : lines[k].item = i
              THEN (stock[i].qty > 0 => Between(stock[i].avg, costs[i])) => Between(s[i].avg, costs[i])
              ELSE s[i] = stock[i]
  <2>1. CostsCover(lines, costs)
    BY <1>2 DEF CostsCover
  <2>2. Bought(stock, lines, costs, s)
    BY <1>0, <1>1, <1>2, <2>1, ImportBought
  <2> QED
    BY <2>2 DEF Bought
<1>4. by \in [Items -> Int] /\ \A i \in Items : by[i] = QtyIn(lines, i)
  BY <1>1
<1>5. m = MovedBy(moved, r, by)
  <2>1. [i \in Items |-> moved[r][i] + 1 * QtyIn(lines, i)] = [i \in Items |-> moved[r][i] + by[i]]
    BY <1>1
  <2>2. m = [moved EXCEPT ![r] = [i \in Items |-> moved[r][i] + 1 * QtyIn(lines, i)]]
    BY DEF Logged
  <2> QED
    BY <2>1, <2>2 DEF MovedBy
<1>6. m \in Movements /\ Stocked(s, m)
  <2>1. Stocked(stock, moved)
    BY <1>0 DEF Supplied
  <2>2. GrewBy(stock, s, by)
    BY <1>3, <1>4 DEF GrewBy
  <2>3. stock \in [Items -> StockRow] /\ moved \in Movements /\ r \in Docs /\ by \in [Items -> Int]
    BY <1>0, <1>4
  <2> HIDE DEF by
  <2> QED
    BY <1>5, <2>1, <2>2, <2>3, StockMoved
<1>7. /\ \A d \in Docs \ {r} : m[d] = moved[d]
      /\ \A i \in Items : m[r][i] = QtyIn(lines, i)
  BY <1>0, <1>1, <1>5 DEF MovedBy, Movements
<1>8. Valued(s, m)
  <2> SUFFICES ASSUME NEW i \in Items, Opening[i].qty = 0
               PROVE  \/ Between(s[i].avg, UnitCosts(i))
                      \/ s[i].avg = Opening[i].avg /\ \A q \in Receipts : m[q][i] = 0
    BY DEF Valued
  <2>1. \/ Between(stock[i].avg, UnitCosts(i))
        \/ stock[i].avg = Opening[i].avg /\ \A q \in Receipts : moved[q][i] = 0
    BY <1>0 DEF Supplied, Valued
  <2>2. stock[i].qty > 0 => Between(stock[i].avg, UnitCosts(i))
    <3>1. ASSUME \A q \in Receipts : moved[q][i] = 0 PROVE stock[i].qty = 0
      BY <1>0, <3>1, UnboughtEmpty
    <3> QED
      BY <2>1, <3>1
  <2>3. costs[i] = UnitCosts(i)
    BY DEF costs
  <2>4. CASE \E k \in DOMAIN lines : lines[k].item = i
    BY <1>3, <2>2, <2>3, <2>4
  <2>5. CASE ~ \E k \in DOMAIN lines : lines[k].item = i
    <3>1. s[i] = stock[i]
      BY <1>3, <2>5
    <3>2. QtyIn(lines, i) = 0
      <4>1. stock[i].qty \in Nat
        BY <1>0 DEF StockRow
      <4> QED
        BY <1>1, <1>3, <3>1, <4>1
    <3>3. \A q \in Receipts : m[q][i] = moved[q][i]
      BY <1>0, <1>7, <3>2
    <3> QED
      BY <2>1, <3>1, <3>3
  <2> QED
    BY <2>4, <2>5
<1>9. \A q \in Receipts : ReceiptMoved([receipts EXCEPT ![r] = row][q], m[q])
  BY <1>0, <1>7 DEF Supplied, ReceiptMoved
<1>10. \A t \in Returns : ReturnMoved(returns[t], m[t])
  BY <1>0, <1>7 DEF Supplied
<1> QED
  BY <1>3, <1>6, <1>8, <1>9, <1>10 DEF Supplied


\* Posting a receipt, new or drafted.
LEMMA StepPost ==
  ASSUME StoreInv, NEW r \in Receipts, Open(r), NEW b \in Bills, NEW paid \in Payments,
         Post(r, b, paid), UNCHANGED <<drift, call, returns>>
  PROVE  StoreInv'
<1> PICK row : row = Settled(b, paid)
  OBVIOUS
<1>0. /\ receipts \in [Receipts -> Receipt \cup {NoDoc}]
      /\ IsBook(cashbook) /\ Consistent(cashbook, drift, call, receipts, returns)
      /\ drift \subseteq Docs /\ call \in [Workers -> Docs \cup {NoDoc}]
      /\ returns \in [Returns -> Return \cup {NoDoc}]
      /\ r \notin Returns /\ r \in Docs /\ paid \in Nat
  BY StoreTypes, DocsAssumption, BoundsAssumption DEF StoreInv, Docs
<1>1. /\ row \in Receipt /\ row # NoDoc
      /\ row.bill = b /\ row.paid = paid /\ row.status \in {"PAID", "OWING"}
      /\ row.debt = NotNegative(ReceiptTotal(b) - paid)
      /\ row.status = "PAID" <=> row.debt = 0
  BY <1>0, SettledIs
<1>2. /\ receipts' = [receipts EXCEPT ![r] = row]
      /\ stock' = ImportedAll(b.lines) /\ moved' = Logged(r, b.lines, 1)
      /\ cashbook' = Vouch(cashbook, "PAYMENT", r, paid)
  BY DEF Post, Vouched, Vouch, Grown
<1>3. /\ stock' \in [Items -> StockRow] /\ moved' \in Movements
      /\ Supplied(stock', moved', receipts', returns)
  <2>1. row.status # "DRAFT" /\ \A i \in Items : moved[r][i] = 0
    BY <1>1, OpenFacts
  <2> QED
    BY <1>1, <1>2, <2>1, BoughtGoods
<1>4. /\ IsBook(cashbook') /\ \A d : d # r => Alike(cashbook, cashbook', d)
      /\ \A ty, d : Its(cashbook, ty, d) \subseteq Its(cashbook', ty, d)
      /\ PaidOut(cashbook', r) = PaidOut(cashbook, r) + paid
  <2>1. "PAYMENT" \in {"RECEIPT", "PAYMENT"}
    OBVIOUS
  <2> QED
    BY <1>0, <1>2, <2>1, VouchFacts
<1>5. receipts'[r] = row /\ \A q \in Receipts \ {r} : receipts'[q] = receipts[q]
  BY <1>0, <1>2
<1>6. r \in drift \/ ReceiptBooked(cashbook', row, r)
  <2> SUFFICES ASSUME r \notin drift PROVE ReceiptBooked(cashbook', row, r)
    OBVIOUS
  <2>1. Its(cashbook, "PAYMENT", r) = {}
    BY OpenFacts
  <2>2. PaidOut(cashbook, r) = 0
    BY <2>1, SumEmpty DEF PaidOut, Worth
  <2> QED
    BY <1>0, <1>1, <1>4, <2>2 DEF ReceiptBooked
<1>7. Consistent(cashbook', drift, call, receipts', returns)
  <2>1. Frame(cashbook, drift, call, receipts, returns, cashbook', drift, call, receipts', returns, r)
    BY <1>4, <1>5 DEF Frame
  <2>2. Settles(cashbook', drift, receipts', returns, r)
    BY <1>0, <1>1, <1>5, <1>6 DEF Settles
  <2> QED
    BY <1>0, <1>4, <2>1, <2>2, BookStep
<1>8. TypeOK'
  <2>1. receipts' \in [Receipts -> Receipt \cup {NoDoc}]
    BY <1>0, <1>1, <1>2
  <2> QED
    BY <1>0, <1>3, <1>4, <2>1 DEF TypeOK, StockRow, Movements, IsBook
<1> QED
  BY <1>3, <1>7, <1>8 DEF StoreInv

\* Paying off a part of the debt.
LEMMA StepPayReceipt ==
  ASSUME StoreInv, NEW r \in Receipts, NEW amount \in Payments, PayReceipt(r, amount), UNCHANGED returns
  PROVE  StoreInv'
<1> PICK old : old = receipts[r]
  OBVIOUS
<1>0. /\ receipts \in [Receipts -> Receipt \cup {NoDoc}]
      /\ IsBook(cashbook) /\ Consistent(cashbook, drift, call, receipts, returns)
      /\ r \notin Returns /\ r \in Docs /\ amount \in Nat
      /\ old \in Receipt /\ old.status = "OWING" /\ old # NoDoc
  BY StoreTypes, DocsAssumption, BoundsAssumption DEF StoreInv, Docs, PayReceipt, HasStatus
<1>1. old.bill \in Bills /\ old.paid \in Nat /\ old.paid + amount \in Nat
  BY <1>0 DEF Receipt
<1> PICK row : row = Settled(old.bill, old.paid + amount)
  OBVIOUS
<1>2. /\ row \in Receipt /\ row # NoDoc
      /\ row.bill = old.bill /\ row.paid = old.paid + amount /\ row.status \in {"PAID", "OWING"}
      /\ row.debt = NotNegative(ReceiptTotal(old.bill) - row.paid)
      /\ row.status = "PAID" <=> row.debt = 0
  BY <1>1, SettledIs
<1>3. /\ receipts' = [receipts EXCEPT ![r] = row]
      /\ cashbook' = Vouch(cashbook, "PAYMENT", r, amount)
      /\ UNCHANGED <<stock, moved, drift, call, returns>>
  BY <1>0 DEF PayReceipt, Vouched, Vouch, Grown
<1>4. /\ IsBook(cashbook') /\ \A d : d # r => Alike(cashbook, cashbook', d)
      /\ \A ty, d : Its(cashbook, ty, d) \subseteq Its(cashbook', ty, d)
      /\ PaidOut(cashbook', r) = PaidOut(cashbook, r) + amount
  <2>1. "PAYMENT" \in {"RECEIPT", "PAYMENT"}
    OBVIOUS
  <2> QED
    BY <1>0, <1>3, <2>1, VouchFacts
<1>5. receipts'[r] = row /\ \A q \in Receipts \ {r} : receipts'[q] = receipts[q]
  BY <1>0, <1>3
<1>6. r \in drift \/ ReceiptBooked(cashbook', row, r)
  <2> SUFFICES ASSUME r \notin drift, SameSign(cashbook', r) PROVE row.paid = PaidOut(cashbook', r)
    BY <1>2 DEF ReceiptBooked
  <2>1. SameSign(cashbook, r)
    BY <1>4 DEF SameSign
  <2>2. old.paid = PaidOut(cashbook, r)
    BY <1>0, <2>1 DEF Consistent, ReceiptBooked
  <2> QED
    BY <1>2, <1>4, <2>2
<1>7. Consistent(cashbook', drift, call, receipts', returns)
  <2>1. Frame(cashbook, drift, call, receipts, returns, cashbook', drift, call, receipts', returns, r)
    BY <1>4, <1>5 DEF Frame
  <2>2. Settles(cashbook', drift, receipts', returns, r)
    BY <1>0, <1>2, <1>5, <1>6 DEF Settles
  <2> QED
    BY <1>0, <1>4, <2>1, <2>2, BookStep
<1>8. Supplied(stock, moved, receipts', returns)
  <2>1. ReceiptMoved(row, moved[r])
    BY <1>0, <1>2 DEF StoreInv, Supplied, ReceiptMoved
  <2>2. Supplied(stock, moved, receipts, returns)
    BY DEF StoreInv
  <2> QED
    BY <1>0, <1>5, <2>1, <2>2, GoodsKept
<1>9. TypeOK'
  <2>1. receipts' \in [Receipts -> Receipt \cup {NoDoc}]
    BY <1>0, <1>2, <1>3
  <2> QED
    BY <1>3, <1>4, <2>1 DEF StoreInv, TypeOK, IsBook
<1> QED
  BY <1>3, <1>7, <1>8, <1>9 DEF StoreInv

\* A receipt is brought up to date with its payments.
LEMMA StepSyncReceipt ==
  ASSUME StoreInv, NEW w \in Workers, SyncReceiptDebt(w)
  PROVE  StoreInv'
<1> PICK r \in Receipts : r = call[w]
  BY DEF SyncReceiptDebt
<1> PICK old : old = receipts[r]
  OBVIOUS
<1> PICK paid : paid = Magnitude(Worth(cashbook, Values, "PAYMENT", r))
  OBVIOUS
<1>0. /\ receipts \in [Receipts -> Receipt \cup {NoDoc}] /\ call \in [Workers -> Docs \cup {NoDoc}]
      /\ IsBook(cashbook) /\ Consistent(cashbook, drift, call, receipts, returns)
      /\ drift \subseteq Docs /\ r \notin Returns /\ r \in Docs
      /\ old \in Receipt /\ old # NoDoc
  BY StoreTypes, DocsAssumption DEF StoreInv, Docs, Consistent
<1>1. old.bill \in Bills /\ paid \in Nat
  <2>1. Worth(cashbook, Values, "PAYMENT", r) \in Int
    BY <1>0, BooksWhole
  <2> QED
    BY <1>0, <2>1 DEF Receipt, Magnitude
<1> PICK row : row = Settled(old.bill, paid)
  OBVIOUS
<1>2. /\ row \in Receipt /\ row # NoDoc
      /\ row.bill = old.bill /\ row.paid = paid /\ row.status \in {"PAID", "OWING"}
      /\ row.debt = NotNegative(ReceiptTotal(old.bill) - paid)
      /\ row.status = "PAID" <=> row.debt = 0
  BY <1>1, SettledIs
<1>3. /\ receipts' = [receipts EXCEPT ![r] = row]
      /\ drift' = drift \ {r} /\ call' = [call EXCEPT ![w] = NoDoc]
      /\ UNCHANGED <<stock, moved, cashbook, returns>>
  <2>1. Booked("PAYMENT", r) = Worth(cashbook, Values, "PAYMENT", r)
    BY <1>0, BookedIsWorth DEF IsBook
  <2> QED
    BY <2>1 DEF SyncReceiptDebt
<1>4. receipts'[r] = row /\ \A q \in Receipts \ {r} : receipts'[q] = receipts[q]
  BY <1>0, <1>3
<1>5. ReceiptBooked(cashbook, row, r)
  BY <1>0, <1>2, OneSignPaid DEF ReceiptBooked
<1>6. Consistent(cashbook, drift', call', receipts', returns)
  <2>1. \A d : Alike(cashbook, cashbook, d)
    BY DEF Alike
  <2>2. /\ \A d \in Docs \ {r} : d \in drift => d \in drift'
        /\ \A v \in Workers : call'[v] = call[v] \/ call'[v] = NoDoc
    BY <1>0, <1>3
  <2>3. Frame(cashbook, drift, call, receipts, returns, cashbook, drift', call', receipts', returns, r)
    BY <1>4, <2>1, <2>2 DEF Frame
  <2>4. Settles(cashbook, drift', receipts', returns, r)
    BY <1>0, <1>2, <1>4, <1>5 DEF Settles
  <2> QED
    BY <1>0, <2>3, <2>4, BookStep
<1>7. Supplied(stock, moved, receipts', returns)
  <2>1. ReceiptMoved(row, moved[r])
    BY <1>0, <1>2 DEF StoreInv, Supplied, ReceiptMoved
  <2>2. Supplied(stock, moved, receipts, returns)
    BY DEF StoreInv
  <2> QED
    BY <1>0, <1>4, <2>1, <2>2, GoodsKept
<1>8. TypeOK'
  <2>1. receipts' \in [Receipts -> Receipt \cup {NoDoc}] /\ drift' \subseteq Docs
        /\ call' \in [Workers -> Docs \cup {NoDoc}]
    BY <1>0, <1>2, <1>3
  <2> QED
    BY <1>3, <2>1 DEF StoreInv, TypeOK
<1> QED
  BY <1>3, <1>6, <1>7, <1>8 DEF StoreInv

----------------------------------------------------------------------------
(* Returns.                                                                *)

LEMMA ReturnedGoods ==
  ASSUME StoreInv, NEW t \in Returns, NEW b \in ReturnBills, NEW sign \in {-1, 1},
         sign = -1 => InStock(b.lines),
         NEW s, s = Shifted(b.lines, sign), NEW m, m = Logged(t, b.lines, sign), NEW row,
         ReturnMoved(row, [i \in Items |-> moved[t][i] + sign * QtyIn(b.lines, i)])
  PROVE  /\ s \in [Items -> StockRow] /\ m \in Movements
         /\ Supplied(s, m, receipts, [returns EXCEPT ![t] = row])
<1>0. /\ stock \in [Items -> StockRow] /\ moved \in Movements
      /\ returns \in [Returns -> Return \cup {NoDoc}]
      /\ Supplied(stock, moved, receipts, returns)
      /\ t \in Docs /\ Receipts \cap Returns = {} /\ Returns \subseteq Docs /\ Receipts \subseteq Docs
  BY StoreTypes, DocsAssumption DEF StoreInv, Docs
<1> DEFINE by == [i \in Items |-> sign * QtyIn(b.lines, i)]
<1>1. \A i \in Items : QtyIn(b.lines, i) \in Nat
  BY ReturnBillsAssumption, LinesOfReturn
<1>2. by \in [Items -> Int] /\ \A i \in Items : by[i] = sign * QtyIn(b.lines, i)
  BY <1>1
<1>3. m = MovedBy(moved, t, by)
  <2>1. [i \in Items |-> moved[t][i] + sign * QtyIn(b.lines, i)] = [i \in Items |-> moved[t][i] + by[i]]
    BY <1>1
  <2>2. m = [moved EXCEPT ![t] = [i \in Items |-> moved[t][i] + sign * QtyIn(b.lines, i)]]
    BY DEF Logged
  <2> QED
    BY <2>1, <2>2 DEF MovedBy
<1>4. /\ s \in [Items -> StockRow] /\ GrewBy(stock, s, by)
      /\ \A i \in Items : s[i].avg = stock[i].avg
  <2> SUFFICES ASSUME NEW i \in Items
               PROVE  s[i] \in StockRow /\ s[i].qty = stock[i].qty + by[i] /\ s[i].avg = stock[i].avg
    BY DEF Shifted, GrewBy
  <2> PICK q \in Nat, a \in Nat : stock[i] = [qty |-> q, avg |-> a]
    BY <1>0 DEF StockRow
  <2> PICK n \in Nat : n = QtyIn(b.lines, i)
    BY <1>1
  <2>1. s[i] = [qty |-> q + sign * n, avg |-> a]
    BY DEF Shifted
  <2>2. q + sign * n \in Nat
    BY DEF InStock
  <2> QED
    BY <1>2, <2>1, <2>2 DEF StockRow
<1>5. m \in Movements /\ Stocked(s, m)
  <2>1. Stocked(stock, moved)
    BY <1>0 DEF Supplied
  <2>2. stock \in [Items -> StockRow] /\ moved \in Movements /\ t \in Docs /\ by \in [Items -> Int]
    BY <1>0, <1>2
  <2>3. GrewBy(stock, s, by)
    BY <1>4
  <2> HIDE DEF by
  <2> QED
    BY <1>3, <2>1, <2>2, <2>3, StockMoved
<1>6. /\ \A d \in Docs \ {t} : m[d] = moved[d]
      /\ \A i \in Items : m[t][i] = moved[t][i] + sign * QtyIn(b.lines, i)
  BY <1>0, <1>2, <1>3 DEF MovedBy, Movements
<1>7. Valued(s, m)
  BY <1>0, <1>4, <1>6 DEF Supplied, Valued
<1>8. \A q \in Receipts : ReceiptMoved(receipts[q], m[q])
  BY <1>0, <1>6 DEF Supplied
<1>9. \A q \in Returns : ReturnMoved([returns EXCEPT ![t] = row][q], m[q])
  BY <1>0, <1>6 DEF Supplied, ReturnMoved
<1> QED
  BY <1>4, <1>5, <1>7, <1>8, <1>9 DEF Supplied


\* A return that agrees with its vouchers before a step that vouchers more.
LEMMA StillUnedited ==
  ASSUME NEW B, NEW C, NEW t, \A ty, d : Its(B, ty, d) \subseteq Its(C, ty, d),
         \A e \in Its(C, "PAYMENT", t) : e.amount > 0
  PROVE  \A e \in Its(B, "PAYMENT", t) : e.amount > 0
OBVIOUS

LEMMA NewReturnIs ==
  ASSUME NEW b \in ReturnBills, NEW status \in ReturnStatus, NEW paid \in Nat, paid <= RefundDue(b),
         NEW debt \in Int, Listable(b), NEW row, row = NewReturn(status, b, paid, debt)
  PROVE  row \in Return /\ row.status = status /\ row.bill = b /\ row.paid = paid
<1>1. RefundDue(b) \in Nat
  BY RefundDueWhole
<1>2. LineRefunds(b) \in Seq(Nat)
  <2>1. DOMAIN LineRefunds(b) = 1..Len(b.lines) /\ Len(b.lines) \in Nat
    BY <1>1, LineRefundsAddUp, RefundDueWhole
  <2>2. \A k \in 1..Len(b.lines) : LineRefunds(b)[k] \in Nat
    BY <1>1, LineRefundsAddUp, RefundDueWhole DEF Listable
  <2>3. LineRefunds(b) = [k \in 1..Len(b.lines) |-> LineRefunds(b)[k]]
    BY <2>1 DEF LineRefunds
  <2> QED
    BY <2>1, <2>2, <2>3
<1> QED
  BY <1>1, <1>2 DEF NewReturn, Return

\* A draft after an edit that sends no lines.
Terms(t, b, paid) ==
  [NewReturn("DRAFT", b, paid, RefundDue(b) - paid)
     EXCEPT !.each = returns[t].each, !.amended = Amended(t, RefundDue(b))]

LEMMA TermsIs ==
  ASSUME StoreInv, NEW t \in Returns, NEW b \in ReturnBills, NEW paid \in Payments,
         EditReturnTerms(t, b, paid), NEW row, row = Terms(t, b, paid)
  PROVE  /\ row \in Return /\ row.status = "DRAFT" /\ row.bill = b /\ row.refund = RefundDue(b)
         /\ row.each = returns[t].each /\ row.amended = Amended(t, RefundDue(b))
<1>1. returns[t] \in Return /\ paid \in Nat /\ paid <= RefundDue(b)
  BY StoreTypes, BoundsAssumption DEF EditReturnTerms, ReturnIs
<1> PICK e, am, n : e = returns[t].each /\ am = Amended(t, RefundDue(b)) /\ n = RefundDue(b)
  OBVIOUS
<1>2. e \in Seq(Nat)
  BY <1>1 DEF Return
<1>3. am \in BOOLEAN
  BY <1>1 DEF Amended, Return
<1>4. n \in Nat /\ n - paid \in Int
  BY <1>1, RefundDueWhole
<1>5. row = [status |-> "DRAFT", bill |-> b, refund |-> n, paid |-> paid, debt |-> n - paid,
             each |-> e, amended |-> am]
  BY DEF NewReturn, Terms
<1>6. "DRAFT" \in ReturnStatus
  BY DEF ReturnStatus
<1>7. row \in Return
  BY <1>1, <1>2, <1>3, <1>4, <1>5, <1>6 DEF Return
<1>8. /\ row.status = "DRAFT" /\ row.bill = b /\ row.refund = n
      /\ row.each = e /\ row.amended = am
  BY <1>5
<1> QED
  BY <1>7, <1>8

LEMMA ReturnStands ==
  ASSUME NEW row \in Return
  PROVE  row # NoDoc /\ row.bill \in ReturnBills /\ row.paid \in Nat /\ row.refund \in Nat
         /\ row.debt \in Int /\ row.status \in ReturnStatus
         /\ row.each \in Seq(Nat) /\ row.amended \in BOOLEAN
BY ReturnAssumption DEF Return

\* Drafting a return and editing the draft.
LEMMA StepReturnDraft ==
  ASSUME StoreInv, NEW t \in Returns, returns[t] = NoDoc \/ ReturnIs(t, "DRAFT"),
         NEW row \in Return, row.status = "DRAFT",
         returns' = [returns EXCEPT ![t] = row],
         UNCHANGED <<stock, moved, cashbook, drift, call, receipts>>
  PROVE  StoreInv'
<1>0. /\ returns \in [Returns -> Return \cup {NoDoc}] /\ t \notin Receipts /\ row # NoDoc
      /\ IsBook(cashbook) /\ Consistent(cashbook, drift, call, receipts, returns)
      /\ Supplied(stock, moved, receipts, returns)
  BY StoreTypes, DocsAssumption, ReturnStands DEF StoreInv
<1>1. TypeOK'
  BY <1>0 DEF StoreInv, TypeOK
<1>2. returns'[t] = row /\ \A q \in Returns \ {t} : returns'[q] = returns[q]
  BY <1>0
<1>3. Consistent(cashbook, drift, call, receipts, returns')
  <2>1. Frame(cashbook, drift, call, receipts, returns, cashbook, drift, call, receipts, returns', t)
    BY <1>2 DEF Frame, Alike
  <2>2. Settles(cashbook, drift, receipts, returns', t)
    BY <1>0, <1>2 DEF Settles, ReturnBooked
  <2> QED
    BY <1>0, <2>1, <2>2, BookStep
<1>4. Supplied(stock, moved, receipts, returns')
  <2>1. ReturnMoved(row, moved[t])
    BY <1>0 DEF Supplied, ReturnMoved, ReturnIs
  <2> QED
    BY <1>0, <1>2, <2>1, GoodsKept
<1> QED
  BY <1>1, <1>3, <1>4 DEF StoreInv

\* What a voucher brings to the net of a return.
Brings(type, amount) == IF type = "RECEIPT" THEN amount ELSE - amount

\* The step vouchers an amount for a return, whose new row agrees with it
\* unless the return is known to be apart.
Vouches(t, row, type, amount) ==
  /\ cashbook' = Vouch(cashbook, type, t, amount)
  /\ returns' = [returns EXCEPT ![t] = row]
  /\ UNCHANGED <<call, receipts>>
  /\ drift \subseteq drift' /\ drift' \subseteq drift \cup {t}
  /\ t \notin drift' /\ (\A e \in Its(cashbook, "PAYMENT", t) : e.amount > 0) =>
       /\ row.status = "POSTED" => row.paid = Net(cashbook, t) + Brings(type, amount)
       /\ row.status = "CANCELLED" => Net(cashbook, t) + Brings(type, amount) = 0

\* The goods are as a step leaves them.
Restocked ==
  /\ stock' \in [Items -> StockRow] /\ moved' \in Movements
  /\ Supplied(stock', moved', receipts, returns')

\* What a step that posts, settles or cancels a return shares: one voucher.
LEMMA ReturnVouched ==
  ASSUME StoreInv, NEW t \in Returns, NEW row \in Return, NEW type \in {"RECEIPT", "PAYMENT"},
         NEW amount \in Nat, Vouches(t, row, type, amount), Restocked
  PROVE  StoreInv'
<1> USE DEF Vouches, Brings, Restocked
<1>0. /\ returns \in [Returns -> Return \cup {NoDoc}] /\ t \notin Receipts /\ t \in Docs /\ row # NoDoc
      /\ IsBook(cashbook) /\ Consistent(cashbook, drift, call, receipts, returns)
      /\ drift \subseteq Docs /\ call \in [Workers -> Docs \cup {NoDoc}]
      /\ receipts \in [Receipts -> Receipt \cup {NoDoc}]
  BY StoreTypes, DocsAssumption, ReturnStands DEF StoreInv, Docs
<1>1. /\ IsBook(cashbook') /\ \A d : d # t => Alike(cashbook, cashbook', d)
      /\ \A ty, d : Its(cashbook, ty, d) \subseteq Its(cashbook', ty, d)
      /\ Net(cashbook', t) = Net(cashbook, t) + (IF type = "RECEIPT" THEN amount ELSE - amount)
  BY <1>0, VouchFacts
<1>2. returns'[t] = row /\ \A q \in Returns \ {t} : returns'[q] = returns[q]
  BY <1>0
<1>3. t \in drift' \/ ReturnBooked(cashbook', row, t)
  <2> SUFFICES ASSUME t \notin drift', \A e \in Its(cashbook', "PAYMENT", t) : e.amount > 0
               PROVE  /\ row.status = "POSTED" => row.paid = Net(cashbook', t)
                      /\ row.status = "CANCELLED" => Net(cashbook', t) = 0
    BY DEF ReturnBooked
  <2>1. \A e \in Its(cashbook, "PAYMENT", t) : e.amount > 0
    BY <1>1, StillUnedited
  <2> QED
    BY <1>1, <2>1
<1>4. Consistent(cashbook', drift', call, receipts, returns')
  <2>1. Frame(cashbook, drift, call, receipts, returns, cashbook', drift', call, receipts, returns', t)
    BY <1>1, <1>2 DEF Frame
  <2>2. Settles(cashbook', drift', receipts, returns', t)
    BY <1>0, <1>2, <1>3 DEF Settles
  <2> QED
    BY <1>0, <1>1, <2>1, <2>2, BookStep
<1>5. TypeOK'
  <2>1. returns' \in [Returns -> Return \cup {NoDoc}] /\ drift' \subseteq Docs
    BY <1>0
  <2> QED
    BY <1>0, <1>1, <2>1 DEF TypeOK, StockRow, Movements, IsBook
<1> QED
  BY <1>4, <1>5 DEF StoreInv

\* The cashbook of a document without entries nets to nothing.
LEMMA NothingBooked ==
  ASSUME StoreInv, NEW t \in Returns, returns[t] = NoDoc
  PROVE  Net(cashbook, t) = 0
<1>1. Its(cashbook, "RECEIPT", t) = {} /\ Its(cashbook, "PAYMENT", t) = {}
  BY DEF StoreInv, Consistent, Its
<1>2. Worth(cashbook, Values, "RECEIPT", t) = 0 /\ Worth(cashbook, Values, "PAYMENT", t) = 0
  BY <1>1, SumEmpty DEF Worth
<1> QED
  BY <1>2 DEF Net

LEMMA StepStandalone ==
  ASSUME StoreInv, NEW t \in Returns, NEW b \in ReturnBills, NEW paid \in Payments,
         CreateStandalone(t, b, paid), UNCHANGED receipts
  PROVE  StoreInv'
<1> PICK row : row = NewReturn("POSTED", b, paid, RefundDue(b) - paid)
  OBVIOUS
<1>0. paid \in Nat /\ RefundDue(b) - paid \in Int /\ paid <= RefundDue(b) /\ returns[t] = NoDoc
      /\ Listable(b)
  BY BoundsAssumption, RefundDueWhole DEF CreateStandalone
<1>1. row \in Return /\ row.status = "POSTED" /\ row.bill = b /\ row.paid = paid /\ row # NoDoc
  <2>1. "POSTED" \in ReturnStatus
    BY DEF ReturnStatus
  <2> QED
    BY <1>0, <2>1, NewReturnIs, ReturnStands
<1>2. /\ returns' = [returns EXCEPT ![t] = row] /\ cashbook' = Vouch(cashbook, "RECEIPT", t, paid)
      /\ InStock(b.lines) /\ stock' = Shifted(b.lines, -1) /\ moved' = Logged(t, b.lines, -1)
      /\ UNCHANGED <<drift, call>>
  BY DEF CreateStandalone, GoodsLeave, Vouched, Vouch, Grown
<1>3. ReturnMoved(row, [i \in Items |-> moved[t][i] + (-1) * QtyIn(b.lines, i)])
  <2>1. \A i \in Items : moved[t][i] = 0
    BY <1>0 DEF StoreInv, Supplied, ReturnMoved
  <2>2. \A i \in Items : QtyIn(b.lines, i) \in Nat
    BY ReturnBillsAssumption, LinesOfReturn
  <2> QED
    BY <1>1, <2>1, <2>2 DEF ReturnMoved
<1>4. /\ stock' \in [Items -> StockRow] /\ moved' \in Movements
      /\ Supplied(stock', moved', receipts, returns')
  BY <1>2, <1>3, ReturnedGoods
<1>5. Net(cashbook, t) = 0
  BY <1>0, NothingBooked
<1>6. Vouches(t, row, "RECEIPT", paid) /\ Restocked
  BY <1>0, <1>1, <1>2, <1>4, <1>5 DEF Vouches, Brings, Restocked
<1>7. "RECEIPT" \in {"RECEIPT", "PAYMENT"}
  OBVIOUS
<1> QED
  BY <1>0, <1>1, <1>6, <1>7, ReturnVouched

LEMMA StepPostReturn ==
  ASSUME StoreInv, NEW t \in Returns, PostReturn(t), UNCHANGED receipts
  PROVE  StoreInv'
<1> PICK old : old = returns[t]
  OBVIOUS
<1> PICK b : b = old.bill
  OBVIOUS
<1>0. old \in Return /\ old.status = "DRAFT" /\ returns \in [Returns -> Return \cup {NoDoc}]
      /\ IsBook(cashbook)
  BY StoreTypes DEF PostReturn, ReturnIs
<1>1. b \in ReturnBills /\ old.paid \in Nat /\ old # NoDoc
  BY <1>0, ReturnStands
<1> PICK row : row = [old EXCEPT !.status = "POSTED"]
  OBVIOUS
<1>2. row \in Return /\ row.status = "POSTED" /\ row.bill = b /\ row.paid = old.paid /\ row # NoDoc
  <2>1. row \in Return /\ row.status = "POSTED" /\ row.bill = b /\ row.paid = old.paid
    BY <1>0 DEF Return, ReturnStatus
  <2> QED
    BY <2>1, ReturnStands
<1>3. /\ returns' = [returns EXCEPT ![t] = row] /\ cashbook' = Vouch(cashbook, "RECEIPT", t, old.paid)
      /\ InStock(b.lines) /\ stock' = Shifted(b.lines, -1) /\ moved' = Logged(t, b.lines, -1)
      /\ drift' = (IF NetReceived(t) = 0 THEN drift ELSE drift \cup {t}) /\ call' = call
  BY DEF PostReturn, GoodsLeave, Vouched, Vouch, Grown
<1>4. ReturnMoved(row, [i \in Items |-> moved[t][i] + (-1) * QtyIn(b.lines, i)])
  <2>1. \A i \in Items : moved[t][i] = 0
    BY <1>0 DEF StoreInv, Supplied, ReturnMoved
  <2>2. \A i \in Items : QtyIn(b.lines, i) \in Nat
    BY <1>1, ReturnBillsAssumption, LinesOfReturn
  <2> QED
    BY <1>2, <2>1, <2>2 DEF ReturnMoved
<1>5. /\ stock' \in [Items -> StockRow] /\ moved' \in Movements
      /\ Supplied(stock', moved', receipts, returns')
  BY <1>1, <1>3, <1>4, ReturnedGoods
<1>6. NetReceived(t) = Net(cashbook, t)
  BY <1>0, BookedIsWorth DEF IsBook, NetReceived, Net
<1>7. drift \subseteq drift' /\ drift' \subseteq drift \cup {t} /\ (t \notin drift' => Net(cashbook, t) = 0)
  BY <1>3, <1>6
<1>8. Vouches(t, row, "RECEIPT", old.paid) /\ Restocked
  BY <1>1, <1>2, <1>3, <1>5, <1>7 DEF Vouches, Brings, Restocked
<1>9. "RECEIPT" \in {"RECEIPT", "PAYMENT"}
  OBVIOUS
<1> QED
  BY <1>1, <1>2, <1>8, <1>9, ReturnVouched


\* A return with other amounts.
Other(row, refund, paid, debt, am) ==
  [[[[row EXCEPT !.refund = refund] EXCEPT !.paid = paid] EXCEPT !.debt = debt] EXCEPT !.amended = am]

LEMMA OtherIs ==
  ASSUME NEW row \in Return, NEW refund, NEW paid, NEW debt, NEW am
  PROVE  Other(row, refund, paid, debt, am) =
           [status |-> row.status, bill |-> row.bill, refund |-> refund, paid |-> paid, debt |-> debt,
            each |-> row.each, amended |-> am]
<1> PICK s, c, x, y, z, e, o : /\ s = row.status /\ c = row.bill /\ x = row.refund /\ y = row.paid
                               /\ z = row.debt /\ e = row.each /\ o = row.amended
  OBVIOUS
<1>0. row = [status |-> s, bill |-> c, refund |-> x, paid |-> y, debt |-> z, each |-> e, amended |-> o]
  BY DEF Return
<1> PICK a : a = [status |-> s, bill |-> c, refund |-> refund, paid |-> y, debt |-> z, each |-> e, amended |-> o]
  OBVIOUS
<1> PICK b : b = [status |-> s, bill |-> c, refund |-> refund, paid |-> paid, debt |-> z, each |-> e, amended |-> o]
  OBVIOUS
<1> PICK d : d = [status |-> s, bill |-> c, refund |-> refund, paid |-> paid, debt |-> debt, each |-> e, amended |-> o]
  OBVIOUS
<1> PICK f : f = [status |-> s, bill |-> c, refund |-> refund, paid |-> paid, debt |-> debt, each |-> e, amended |-> am]
  OBVIOUS
<1>1. [row EXCEPT !.refund = refund] = a
  BY <1>0
<1>2. [a EXCEPT !.paid = paid] = b
  OBVIOUS
<1>3. [b EXCEPT !.debt = debt] = d
  OBVIOUS
<1>4. [d EXCEPT !.amended = am] = f
  OBVIOUS
<1>5. Other(row, refund, paid, debt, am) = f
  BY <1>1, <1>2, <1>3, <1>4, Zenon DEF Other
<1> QED
  BY <1>5

LEMMA StepSettle ==
  ASSUME StoreInv, NEW t \in Returns, NEW refund \in Payments, NEW paid \in Payments,
         Settle(t, refund, paid), UNCHANGED receipts
  PROVE  StoreInv'
<1> PICK old : old = returns[t]
  OBVIOUS
<1> PICK am : am = Amended(t, refund)
  OBVIOUS
<1> PICK row : row = [status |-> old.status, bill |-> old.bill, refund |-> refund, paid |-> paid,
                      debt |-> refund - paid, each |-> old.each, amended |-> am]
  OBVIOUS
<1> PICK type : type = IF paid - old.paid > 0 THEN "RECEIPT" ELSE "PAYMENT"
  OBVIOUS
<1> PICK amount : amount = Magnitude(paid - old.paid)
  OBVIOUS
<1>0. /\ old \in Return /\ old.status = "POSTED" /\ returns \in [Returns -> Return \cup {NoDoc}]
      /\ stock \in [Items -> StockRow] /\ moved \in Movements
      /\ Consistent(cashbook, drift, call, receipts, returns)
      /\ Supplied(stock, moved, receipts, returns) /\ t \notin Receipts
      /\ refund \in Nat /\ paid \in Nat
  BY StoreTypes, BoundsAssumption, DocsAssumption DEF Settle, ReturnIs, StoreInv
<1>1. old.bill \in ReturnBills /\ old.paid \in Nat /\ old # NoDoc /\ old.debt \in Int
  BY <1>0, ReturnStands
<1>2. row \in Return /\ row.status = "POSTED" /\ row.bill = old.bill /\ row.paid = paid /\ row # NoDoc
  <2>0. old.each \in Seq(Nat) /\ am \in BOOLEAN
    BY <1>0, ReturnStands DEF Amended
  <2>1. row \in Return /\ row.status = "POSTED" /\ row.bill = old.bill /\ row.paid = paid
    BY <1>0, <1>1, <2>0 DEF Return, ReturnStatus
  <2> QED
    BY <2>1, ReturnStands
<1>3. type \in {"RECEIPT", "PAYMENT"} /\ amount \in Nat /\ Brings(type, amount) = paid - old.paid
  <2> PICK x \in Nat, y \in Nat : x = paid /\ y = old.paid
    BY <1>0, <1>1
  <2> QED
    BY DEF Magnitude, Brings
<1>4. /\ returns' = [returns EXCEPT ![t] = row] /\ cashbook' = Vouch(cashbook, type, t, amount)
      /\ UNCHANGED <<stock, moved, drift, call, receipts>>
  <2>1. cashbook' = Vouch(cashbook, type, t, amount)
    BY DEF Settle, Vouched, Vouch, Grown
  <2>2. returns' = [returns EXCEPT ![t] = Other(old, refund, paid, refund - paid, am)]
    BY <1>0 DEF Settle, Other
  <2>3. row = Other(old, refund, paid, refund - paid, am)
    BY <1>0, OtherIs
  <2> QED
    BY <2>1, <2>2, <2>3 DEF Settle
<1>5. Restocked
  <2>1. ReturnMoved(row, moved[t])
    BY <1>0, <1>1, <1>2 DEF Supplied, ReturnMoved
  <2>2. returns'[t] = row /\ \A q \in Returns \ {t} : returns'[q] = returns[q]
    BY <1>0, <1>4
  <2>3. Supplied(stock, moved, receipts, returns')
    <3>1. PICK ts : ts = returns'
      OBVIOUS
    <3>2. /\ Supplied(stock, moved, receipts, returns) /\ t \notin Receipts
          /\ \A q \in Returns \ {t} : ts[q] = returns[q]
          /\ ReturnMoved(ts[t], moved[t])
      BY <1>0, <2>1, <2>2, <3>1
    <3>3. Supplied(stock, moved, receipts, ts)
      BY <3>2, GoodsKept
    <3> QED
      BY <3>1, <3>3
  <2> QED
    BY <1>0, <1>4, <2>3 DEF Restocked
<1>6. Vouches(t, row, type, amount)
  <2> SUFFICES ASSUME t \notin drift, \A e \in Its(cashbook, "PAYMENT", t) : e.amount > 0
               PROVE  row.paid = Net(cashbook, t) + Brings(type, amount)
    BY <1>2, <1>4 DEF Vouches
  <2>1. old.paid = Net(cashbook, t)
    BY <1>0, <1>1 DEF Consistent, ReturnBooked
  <2> QED
    BY <1>0, <1>1, <1>2, <1>3, <2>1
<1> QED
  BY <1>2, <1>3, <1>5, <1>6, ReturnVouched

LEMMA StepCancelReturn ==
  ASSUME StoreInv, NEW t \in Returns, CancelReturn(t), UNCHANGED receipts
  PROVE  StoreInv'
<1> PICK old : old = returns[t]
  OBVIOUS
<1> PICK b : b = old.bill
  OBVIOUS
<1>0. /\ old \in Return /\ old.status = "POSTED" /\ returns \in [Returns -> Return \cup {NoDoc}]
      /\ Consistent(cashbook, drift, call, receipts, returns)
      /\ Supplied(stock, moved, receipts, returns)
  BY StoreTypes DEF CancelReturn, ReturnIs, StoreInv
<1>1. b \in ReturnBills /\ old.paid \in Nat /\ old # NoDoc
  BY <1>0, ReturnStands
<1> PICK row : row = [old EXCEPT !.status = "CANCELLED"]
  OBVIOUS
<1>2. row \in Return /\ row.status = "CANCELLED" /\ row.bill = b /\ row # NoDoc
  <2>1. row \in Return /\ row.status = "CANCELLED" /\ row.bill = b
    BY <1>0 DEF Return, ReturnStatus
  <2> QED
    BY <2>1, ReturnStands
<1>3. /\ returns' = [returns EXCEPT ![t] = row] /\ cashbook' = Vouch(cashbook, "PAYMENT", t, old.paid)
      /\ stock' = Shifted(b.lines, 1) /\ moved' = Logged(t, b.lines, 1)
      /\ UNCHANGED <<drift, call, receipts>>
  BY DEF CancelReturn, Vouched, Vouch, Grown
<1> PICK sign \in {-1, 1} : sign = 1
  OBVIOUS
<1>4. ReturnMoved(row, [i \in Items |-> moved[t][i] + sign * QtyIn(b.lines, i)])
  <2>1. \A i \in Items : moved[t][i] = - QtyIn(b.lines, i)
    BY <1>0, <1>1 DEF Supplied, ReturnMoved
  <2>2. \A i \in Items : QtyIn(b.lines, i) \in Nat
    BY <1>1, ReturnBillsAssumption, LinesOfReturn
  <2> QED
    BY <1>2, <2>1, <2>2 DEF ReturnMoved
<1>5. Restocked
  <2>1. /\ stock' \in [Items -> StockRow] /\ moved' \in Movements
        /\ Supplied(stock', moved', receipts, [returns EXCEPT ![t] = row])
    <3>1. stock' = Shifted(b.lines, sign) /\ moved' = Logged(t, b.lines, sign)
      BY <1>3
    <3> QED
      BY <1>1, <1>4, <3>1, ReturnedGoods
  <2> QED
    BY <1>3, <2>1 DEF Restocked
<1>6. Vouches(t, row, "PAYMENT", old.paid)
  <2> SUFFICES ASSUME t \notin drift, \A e \in Its(cashbook, "PAYMENT", t) : e.amount > 0
               PROVE  Net(cashbook, t) + Brings("PAYMENT", old.paid) = 0
    BY <1>2, <1>3 DEF Vouches
  <2>1. old.paid = Net(cashbook, t)
    BY <1>0, <1>1 DEF Consistent, ReturnBooked
  <2> QED
    BY <1>1, <2>1 DEF Brings
<1>7. "PAYMENT" \in {"RECEIPT", "PAYMENT"}
  OBVIOUS
<1> QED
  BY <1>1, <1>2, <1>5, <1>6, <1>7, ReturnVouched

\* The copies of entries freed from a document.
Without(B, its) == [e \in BagToSet(B) \ its |-> B[e]]

LEMMA DetachedBook ==
  ASSUME IsBook(cashbook), NEW t \in Docs, NEW C, C = Detached(t)
  PROVE  /\ IsBook(C) /\ \A d \in Docs \ {t} : Alike(cashbook, C, d)
         /\ \A e \in BagToSet(C) : e.doc # t
<1> PICK B : B = cashbook
  OBVIOUS
<1> PICK its : its = Its(B, "RECEIPT", t) \cup Its(B, "PAYMENT", t)
  OBVIOUS
<1> PICK freed : freed = {[e EXCEPT !.doc = NoDoc] : e \in its}
  OBVIOUS
<1> DEFINE U == BagToSet(B) \ its
           held(x) == B[[x EXCEPT !.doc = t]]
<1>0. /\ NoDoc \notin Docs /\ IsBook(B) /\ IsFiniteSet(its) /\ its \subseteq BagToSet(B)
      /\ its = {e \in BagToSet(B) : e.doc = t}
      /\ \A e \in BagToSet(B) : B[e] \in Nat /\ B[e] > 0 /\ e \in Voucher
  <2>1. IsFiniteSet(BagToSet(B)) /\ its \subseteq BagToSet(B)
    BY DEF IsBook, Its
  <2>2. IsFiniteSet(its)
    BY <2>1, FS_Subset
  <2>3. its = {e \in BagToSet(B) : e.doc = t}
    BY DEF Its, IsBook, Voucher
  <2>4. \A e \in BagToSet(B) : B[e] \in Nat /\ B[e] > 0 /\ e \in Voucher
    BY BookFacts DEF IsBook
  <2> QED
    BY <2>1, <2>2, <2>3, <2>4, DocsAssumption
<1>1. C = [e \in U |-> B[e]] (+) [e \in freed |-> held(e)]
  <2>1. Entries("RECEIPT", t) = Its(B, "RECEIPT", t) /\ Entries("PAYMENT", t) = Its(B, "PAYMENT", t)
    BY DEF Entries, Its
  <2>2. its = Entries("RECEIPT", t) \cup Entries("PAYMENT", t)
    BY <2>1
  <2> QED
    BY <2>2 DEF Detached
<1>2. /\ IsFiniteSet(freed)
      /\ \A x \in freed : x \in Voucher /\ x.doc = NoDoc /\ held(x) \in Nat /\ held(x) > 0
  <2>1. \A x \in freed : x \in Voucher /\ x.doc = NoDoc /\ [x EXCEPT !.doc = t] \in its
    <3> SUFFICES ASSUME NEW e \in its, NEW x, x = [e EXCEPT !.doc = NoDoc]
                 PROVE  x \in Voucher /\ x.doc = NoDoc /\ [x EXCEPT !.doc = t] \in its
      OBVIOUS
    <3>1. e \in Voucher /\ e.doc = t
      BY <1>0
    <3>2. [x EXCEPT !.doc = t] = e
      BY <3>1 DEF Voucher
    <3> QED
      BY <3>1, <3>2 DEF Voucher
  <2>2. IsFiniteSet(freed)
    <3> DEFINE h == [e \in its |-> [e EXCEPT !.doc = NoDoc]]
    <3>1. h \in Surjection(its, freed)
      BY DEF Surjection
    <3> HIDE DEF h
    <3> QED
      BY <1>0, <3>1, FS_Surjection
  <2> QED
    BY <1>0, <2>1, <2>2
<1>3. C = [x \in U \cup freed |-> (IF x \in U THEN B[x] ELSE 0) + (IF x \in freed THEN held(x) ELSE 0)]
  <2> DEFINE f == [e \in U |-> B[e]]
             g == [e \in freed |-> held(e)]
  <2>1. C = [x \in DOMAIN f \cup DOMAIN g |-> (IF x \in DOMAIN f THEN f[x] ELSE 0) + (IF x \in DOMAIN g THEN g[x] ELSE 0)]
    <3> HIDE DEF f, g
    <3>1. C = f (+) g
      BY <1>1 DEF f, g
    <3> QED
      BY <3>1 DEF (+)
  <2>2. DOMAIN f = U /\ DOMAIN g = freed
    OBVIOUS
  <2>3. \A x \in U \cup freed :
          (IF x \in U THEN f[x] ELSE 0) + (IF x \in freed THEN g[x] ELSE 0)
            = (IF x \in U THEN B[x] ELSE 0) + (IF x \in freed THEN held(x) ELSE 0)
    OBVIOUS
  <2> HIDE DEF f, g, held, U
  <2>4. C = [x \in U \cup freed |-> (IF x \in U THEN f[x] ELSE 0) + (IF x \in freed THEN g[x] ELSE 0)]
    BY <2>1, <2>2
  <2> QED
    BY <2>3, <2>4
<1>4. BagToSet(C) = U \cup freed
  BY <1>3 DEF BagToSet
<1>5. \A x \in U \cup freed : C[x] \in Nat /\ C[x] > 0
  <2> HIDE DEF held
  <2> QED
    BY <1>0, <1>2, <1>3
<1>6. IsBook(C)
  <2>1. IsFiniteSet(U)
    BY <1>0, FS_Subset DEF IsBook
  <2>2. IsFiniteSet(U \cup freed)
    BY <1>2, <2>1, FS_Union
  <2>3. C \in [U \cup freed -> {n \in Nat : n > 0}]
    <3> HIDE DEF U, held
    <3> QED
      BY <1>3, <1>5
  <2> QED
    BY <1>0, <1>2, <1>4, <2>2, <2>3 DEF IsBook, IsABag, BagToSet
<1>7. \A e \in BagToSet(C) : e.doc # t
  BY <1>0, <1>2, <1>4
<1>8. ASSUME NEW d \in Docs \ {t}, NEW x \in Voucher, x.doc = d
      PROVE  (x \in BagToSet(B) <=> x \in BagToSet(C)) /\ (x \in BagToSet(B) => B[x] = C[x])
  <2>1. x \notin freed /\ x \notin its
    BY <1>0, <1>2, <1>8
  <2>2. x \in BagToSet(B) <=> x \in U
    BY <2>1
  <2>3. x \in BagToSet(C) <=> x \in U
    BY <1>4, <2>1
  <2>4. ASSUME x \in BagToSet(B) PROVE B[x] = C[x]
    <3>1. C[x] = B[x] + 0
      BY <1>3, <2>1, <2>2, <2>4
    <3> QED
      BY <1>0, <2>4, <3>1
  <2> QED
    BY <2>2, <2>3, <2>4
<1> QED
  BY <1>6, <1>7, <1>8 DEF Alike

LEMMA StepRemoveDraft ==
  ASSUME StoreInv, NEW t \in Returns, RemoveDraft(t), UNCHANGED receipts
  PROVE  StoreInv'
<1>0. /\ returns \in [Returns -> Return \cup {NoDoc}] /\ t \notin Receipts /\ t \in Docs
      /\ IsBook(cashbook) /\ Consistent(cashbook, drift, call, receipts, returns)
      /\ Supplied(stock, moved, receipts, returns) /\ drift \subseteq Docs
      /\ returns[t] # NoDoc /\ returns[t].status = "DRAFT"
  BY StoreTypes, DocsAssumption DEF StoreInv, Docs, RemoveDraft, ReturnIs
<1>1. /\ returns' = [returns EXCEPT ![t] = NoDoc] /\ cashbook' = Detached(t) /\ drift' = drift \ {t}
      /\ UNCHANGED <<stock, moved, call, receipts>>
  BY DEF RemoveDraft
<1>2. /\ IsBook(cashbook') /\ \A d \in Docs \ {t} : Alike(cashbook, cashbook', d)
      /\ \A e \in BagToSet(cashbook') : e.doc # t
  BY <1>0, <1>1, DetachedBook
<1>3. returns'[t] = NoDoc /\ \A q \in Returns \ {t} : returns'[q] = returns[q]
  BY <1>0, <1>1
<1>4. Consistent(cashbook', drift', call, receipts, returns')
  <2>1. Frame(cashbook, drift, call, receipts, returns, cashbook', drift', call, receipts, returns', t)
    BY <1>1, <1>2, <1>3 DEF Frame
  <2>2. Settles(cashbook', drift', receipts, returns', t)
    BY <1>0, <1>2, <1>3 DEF Settles
  <2> QED
    BY <1>0, <1>2, <2>1, <2>2, BookStep
<1>5. Supplied(stock, moved, receipts, returns')
  <2>1. ReturnMoved(NoDoc, moved[t])
    BY <1>0 DEF Supplied, ReturnMoved
  <2> QED
    BY <1>0, <1>3, <2>1, GoodsKept
<1>6. TypeOK'
  <2>1. returns' \in [Returns -> Return \cup {NoDoc}]
    BY <1>0, <1>1
  <2> QED
    BY <1>0, <1>1, <1>2, <2>1 DEF StoreInv, TypeOK, IsBook
<1> QED
  BY <1>1, <1>4, <1>5, <1>6 DEF StoreInv


----------------------------------------------------------------------------
(* Entries made by hand.                                                   *)

\* A step that changes entries of one document that exists, or of none, and
\* says so.
LEMMA ByHand ==
  ASSUME StoreInv, NEW w \in Workers, NEW x \in Docs \cup {NoDoc},
         x \in Docs => Exists(x), Touches(w, x), IsBook(cashbook'),
         \A d \in Docs \ {x} : Alike(cashbook, cashbook', d),
         UNCHANGED <<stock, moved, receipts, returns>>
  PROVE  StoreInv'
<1>0. /\ IsBook(cashbook) /\ Consistent(cashbook, drift, call, receipts, returns)
      /\ drift \subseteq Docs /\ call \in [Workers -> Docs \cup {NoDoc}]
      /\ NoDoc \notin Docs /\ Receipts \cap Returns = {} /\ Docs = Receipts \cup Returns
  BY StoreTypes, DocsAssumption DEF StoreInv, Docs
<1>1. call' = [call EXCEPT ![w] = x] /\ drift' = drift \cup ({x} \ {NoDoc})
  BY DEF Touches
<1>2. Consistent(cashbook', drift', call', receipts, returns)
  <2>1. \A v \in Workers : call'[v] = call[v] \/ call'[v] = x
    BY <1>0, <1>1
  <2>2. Frame(cashbook, drift, call, receipts, returns, cashbook', drift', call', receipts, returns, x)
    BY <1>1, <2>1 DEF Frame
  <2>3. Settles(cashbook', drift', receipts, returns, x)
    BY <1>0, <1>1 DEF Settles, Exists
  <2> QED
    BY <1>0, <2>2, <2>3, BookStep
<1>3. TypeOK'
  <2>1. call' \in [Workers -> Docs \cup {NoDoc}] /\ drift' \subseteq Docs
    BY <1>0, <1>1
  <2> QED
    BY <2>1 DEF StoreInv, TypeOK, IsBook
<1> QED
  BY <1>2, <1>3 DEF StoreInv

LEMMA StepCreateEntry ==
  ASSUME StoreInv, NEW w \in Workers, NEW amount \in Payments \ {0},
         NEW type \in {"RECEIPT", "PAYMENT"}, NEW doc \in Docs,
         CreateCashBookEntry(w, type, doc, amount)
  PROVE  StoreInv'
<1>1. /\ Exists(doc) /\ Touches(w, doc) /\ cashbook' = Vouch(cashbook, type, doc, amount)
      /\ UNCHANGED <<stock, moved, receipts, returns>>
  BY DEF CreateCashBookEntry, Vouched, Vouch, Grown
<1>2. IsBook(cashbook) /\ amount \in Nat
  BY StoreTypes, BoundsAssumption
<1>3. IsBook(cashbook') /\ \A d : d # doc => Alike(cashbook, cashbook', d)
  BY <1>1, <1>2, VouchFacts
<1> QED
  BY <1>1, <1>3, ByHand

LEMMA StepUpdateEntry ==
  ASSUME StoreInv, NEW w \in Workers, NEW amount \in Payments \ {0},
         NEW e \in BagToSet(cashbook), UpdateEntry(w, e, amount)
  PROVE  StoreInv'
<1> PICK f : f = [e EXCEPT !.amount = IF e.type = "PAYMENT" THEN - amount ELSE amount]
  OBVIOUS
<1>0. /\ IsBook(cashbook) /\ amount \in Nat /\ e \in Voucher
      /\ Consistent(cashbook, drift, call, receipts, returns)
      /\ Receipts \cap Returns = {} /\ Docs = Receipts \cup Returns
  BY StoreTypes, BoundsAssumption, DocsAssumption DEF StoreInv, IsBook, Docs
<1>1. f \in Voucher /\ f.doc = e.doc
  <2>1. (IF e.type = "PAYMENT" THEN - amount ELSE amount) \in Int
    BY <1>0
  <2> QED
    BY <1>0, <2>1 DEF Voucher
<1>2. Touches(w, e.doc) /\ cashbook' = Exchanged(cashbook, e, f) /\ UNCHANGED <<stock, moved, receipts, returns>>
  BY DEF UpdateEntry, Exchanged
<1>3. IsBook(cashbook') /\ \A d : d # e.doc => Alike(cashbook, cashbook', d)
  <2>1. KeepsOthers(cashbook, Exchanged(cashbook, e, f), e.doc)
    BY <1>0, <1>1, ExchangedKeeps
  <2> QED
    BY <1>2, <2>1 DEF KeepsOthers
<1>4. e.doc \in Docs \cup {NoDoc} /\ (e.doc \in Docs => Exists(e.doc))
  BY <1>0 DEF Voucher, Consistent, Exists
<1> QED
  BY <1>2, <1>3, <1>4, ByHand

\* A return is brought up to date with its entries.
LEMMA StepSyncReturn ==
  ASSUME StoreInv, NEW w \in Workers, SyncReturnPaidAmount(w)
  PROVE  StoreInv'
<1> PICK t \in Returns : t = call[w]
  BY DEF SyncReturnPaidAmount
<1> PICK old : old = returns[t]
  OBVIOUS
<1> PICK net : net = Net(cashbook, t)
  OBVIOUS
<1>0. /\ returns \in [Returns -> Return \cup {NoDoc}] /\ call \in [Workers -> Docs \cup {NoDoc}]
      /\ IsBook(cashbook) /\ Consistent(cashbook, drift, call, receipts, returns)
      /\ Supplied(stock, moved, receipts, returns)
      /\ drift \subseteq Docs /\ t \notin Receipts /\ t \in Docs
  BY StoreTypes, DocsAssumption DEF StoreInv, Docs
<1>1. net \in Int /\ NetReceived(t) = net
  <2>1. Booked("RECEIPT", t) = Worth(cashbook, Values, "RECEIPT", t)
    BY <1>0, BookedIsWorth DEF IsBook
  <2>2. Booked("PAYMENT", t) = Worth(cashbook, Values, "PAYMENT", t)
    BY <1>0, BookedIsWorth DEF IsBook
  <2> QED
    BY <1>0, <2>1, <2>2, BooksWhole DEF NetReceived, Net
<1> DEFINE stored == old # NoDoc /\ NotNegative(net) <= old.refund
           row == IF stored THEN [old EXCEPT !.paid = NotNegative(net)] ELSE old
<1>2. /\ returns' = (IF stored THEN [returns EXCEPT ![t].paid = NotNegative(net)] ELSE returns)
      /\ drift' = (IF stored /\ net >= 0 /\ ~ ReturnIs(t, "CANCELLED") THEN drift \ {t} ELSE drift)
      /\ call' = [call EXCEPT ![w] = NoDoc]
      /\ UNCHANGED <<stock, moved, cashbook, receipts>>
  <2>1. Exists(t) <=> old # NoDoc
    BY <1>0 DEF Exists
  <2> QED
    BY <1>1, <2>1 DEF SyncReturnPaidAmount
<1>3. returns'[t] = row /\ \A q \in Returns \ {t} : returns'[q] = returns[q]
  BY <1>0, <1>2
<1>4. /\ row = NoDoc <=> old = NoDoc
      /\ row # NoDoc => row \in Return /\ row.status = old.status /\ row.bill = old.bill
      /\ stored => row.paid = NotNegative(net)
      /\ ~ stored => row = old
  <2>1. CASE stored
    <3>1. old \in Return /\ NotNegative(net) \in Nat
      BY <1>0, <1>1, <2>1 DEF NotNegative
    <3> PICK n \in Nat : n = NotNegative(net)
      BY <3>1
    <3>2. [old EXCEPT !.paid = n] \in Return /\ [old EXCEPT !.paid = n].status = old.status
          /\ [old EXCEPT !.paid = n].bill = old.bill /\ [old EXCEPT !.paid = n].paid = n
      BY <3>1 DEF Return
    <3>3. row = [old EXCEPT !.paid = n]
      BY <2>1
    <3> QED
      BY <2>1, <3>2, <3>3, ReturnStands
  <2>2. CASE ~ stored
    BY <1>0, <2>2
  <2> QED
    BY <2>1, <2>2
<1>5. ASSUME row # NoDoc, t \notin drift' PROVE ReturnBooked(cashbook, row, t)
  <2> HIDE DEF row, stored
  <2>1. CASE row.status \notin {"POSTED", "CANCELLED"}
    BY <2>1 DEF ReturnBooked
  <2>2. CASE row.status = "CANCELLED"
    <3>1. drift' = drift
      BY <1>2, <1>4, <1>5, <2>2 DEF ReturnIs
    <3>2. ReturnBooked(cashbook, old, t)
      BY <1>0, <1>4, <1>5, <3>1 DEF Consistent
    <3> QED
      BY <1>4, <1>5, <2>2, <3>2 DEF ReturnBooked
  <2>3. CASE row.status = "POSTED"
    <3> SUFFICES ASSUME \A e \in Its(cashbook, "PAYMENT", t) : e.amount > 0
                 PROVE  row.paid = net
      BY <2>3 DEF ReturnBooked
    <3>1. CASE stored /\ net >= 0
      BY <1>1, <1>4, <3>1 DEF NotNegative
    <3>2. CASE ~ (stored /\ net >= 0)
      <4>1. t \notin drift
        BY <1>2, <1>5, <3>2
      <4>2. old \in Return /\ old.status = "POSTED"
        BY <1>0, <1>4, <1>5, <2>3
      <4>3. ReturnBooked(cashbook, old, t)
        BY <1>0, <1>4, <1>5, <4>1 DEF Consistent
      <4>4. old.paid = net /\ old.paid \in Nat
        BY <4>2, <4>3, ReturnStands DEF ReturnBooked
      <4>5. ~ stored
        BY <3>2, <4>4
      <4> QED
        BY <1>4, <4>4, <4>5
    <3> QED
      BY <3>1, <3>2
  <2> QED
    BY <2>1, <2>2, <2>3
<1> HIDE DEF row, stored
<1>6. Consistent(cashbook, drift', call', receipts, returns')
  <2>1. /\ \A d \in Docs \ {t} : d \in drift => d \in drift'
        /\ \A v \in Workers : call'[v] = call[v] \/ call'[v] = NoDoc
    BY <1>0, <1>2
  <2>2. Frame(cashbook, drift, call, receipts, returns, cashbook, drift', call', receipts, returns', t)
    BY <1>3, <2>1 DEF Frame, Alike
  <2>3. \A e \in BagToSet(cashbook) : old = NoDoc => e.doc # t
    BY <1>0 DEF Consistent
  <2>4. Settles(cashbook, drift', receipts, returns', t)
    BY <1>0, <1>3, <1>4, <1>5, <2>3 DEF Settles
  <2> QED
    BY <1>0, <2>2, <2>4, BookStep
<1>7. Supplied(stock, moved, receipts, returns')
  <2>1. ReturnMoved(row, moved[t])
    BY <1>0, <1>4 DEF Supplied, ReturnMoved
  <2> QED
    BY <1>0, <1>3, <2>1, GoodsKept
<1>8. TypeOK'
  <2>1. /\ drift' \subseteq Docs /\ call' \in [Workers -> Docs \cup {NoDoc}]
    BY <1>0, <1>2
  <2>2. returns' \in [Returns -> Return \cup {NoDoc}]
    <3>1. DOMAIN returns' = Returns /\ returns' = [q \in Returns |-> returns'[q]]
      BY <1>0, <1>2
    <3>2. \A q \in Returns : returns'[q] \in Return \cup {NoDoc}
      BY <1>0, <1>3, <1>4
    <3> QED
      BY <3>1, <3>2
  <2> QED
    BY <1>2, <2>1, <2>2 DEF StoreInv, TypeOK
<1> QED
  BY <1>2, <1>6, <1>7, <1>8 DEF StoreInv

LEMMA StepCrash ==
  ASSUME StoreInv, Crash
  PROVE  StoreInv'
<1>1. Consistent(cashbook, drift, call', receipts, returns)
  BY DocsAssumption DEF Crash, StoreInv, Consistent, Docs
<1>2. TypeOK'
  BY DEF Crash, StoreInv, TypeOK
<1> QED
  BY <1>1, <1>2 DEF Crash, StoreInv


----------------------------------------------------------------------------
(* The theorems.                                                           *)

LEMMA StoreInitially ==
  ASSUME Init
  PROVE  StoreInv
<1>0. /\ stock = Opening /\ moved = [d \in Docs |-> [i \in Items |-> 0]] /\ cashbook = EmptyBag
      /\ drift = {} /\ call = [w \in Workers |-> NoDoc]
      /\ receipts = [r \in Receipts |-> NoDoc] /\ returns = [t \in Returns |-> NoDoc]
  BY DEF Init, StockroomInit, PurchasingInit, ReturnsInit
<1>1. /\ NoDoc \notin Docs /\ IsFiniteSet(Docs) /\ Docs = Receipts \cup Returns
      /\ Opening \in [Items -> [qty : Nat, avg : Nat]]
  BY DocsAssumption, OpeningAssumption DEF Docs
<1>2. IsBook(cashbook) /\ BagToSet(cashbook) = {}
  <2>1. BagToSet(cashbook) = {}
    BY <1>0 DEF EmptyBag, SetToBag, BagToSet
  <2>2. IsABag(cashbook)
    BY <1>0 DEF EmptyBag, SetToBag, IsABag
  <2> QED
    BY <2>1, <2>2, FS_EmptySet DEF IsBook
<1>3. TypeOK
  BY <1>0, <1>1, <1>2 DEF TypeOK, IsBook
<1>4. Consistent(cashbook, drift, call, receipts, returns)
  BY <1>0, <1>1, <1>2 DEF Consistent
<1>5. Stocked(stock, moved)
  <2> SUFFICES ASSUME NEW i \in Items
               PROVE  stock[i].qty = Opening[i].qty + SumFunctionOnSet(Column(moved, i), Docs)
    BY DEF Stocked
  <2>1. \A d \in Docs : Column(moved, i)[d] = 0
    BY <1>0 DEF Column
  <2>2. SumFunctionOnSet(Column(moved, i), Docs) = 0
    BY <1>1, <2>1, SumZero
  <2>3. Opening[i].qty \in Nat
    BY <1>1
  <2> QED
    BY <1>0, <2>2, <2>3
<1>6. Valued(stock, moved)
  BY <1>0, <1>1 DEF Valued
<1>7. /\ \A r \in Receipts : ReceiptMoved(receipts[r], moved[r])
      /\ \A t \in Returns : ReturnMoved(returns[t], moved[t])
  BY <1>0, <1>1 DEF ReceiptMoved, ReturnMoved
<1> QED
  BY <1>3, <1>4, <1>5, <1>6, <1>7 DEF StoreInv, Supplied

LEMMA StepOfReceipt ==
  ASSUME StoreInv, PurchasingNext, UNCHANGED returns
  PROVE  StoreInv'
<1> PICK r \in Receipts :
      \/ \E b \in Bills, paid \in Payments :
           CreateDraft(r, b, paid) \/ CreateAndPost(r, b, paid) \/ SaveDraft(r, b, paid) \/ PostDraft(r, b, paid)
      \/ \E amount \in Payments : PayReceipt(r, amount)
      \/ CancelReceipt(r)
  BY DEF PurchasingNext
<1>1. ASSUME NEW b \in Bills, NEW paid \in Payments, CreateDraft(r, b, paid) \/ SaveDraft(r, b, paid)
      PROVE  StoreInv'
  <2> PICK row : row = Draft(b, paid)
    OBVIOUS
  <2>1. row \in Receipt /\ row.status = "DRAFT"
    BY BoundsAssumption, DraftIs
  <2>2. /\ Open(r) /\ receipts' = [receipts EXCEPT ![r] = row]
        /\ UNCHANGED <<stock, moved, cashbook, drift, call, returns>>
    BY <1>1 DEF CreateDraft, SaveDraft, Open
  <2> QED
    BY <2>1, <2>2, StepDraft
<1>2. ASSUME NEW b \in Bills, NEW paid \in Payments, CreateAndPost(r, b, paid) \/ PostDraft(r, b, paid)
      PROVE  StoreInv'
  <2>1. Open(r) /\ Post(r, b, paid) /\ UNCHANGED <<drift, call, returns>>
    BY <1>2 DEF CreateAndPost, PostDraft, Open
  <2> QED
    BY <2>1, StepPost
<1>3. ASSUME NEW amount \in Payments, PayReceipt(r, amount)
      PROVE  StoreInv'
  BY <1>3, StepPayReceipt
<1>4. ASSUME CancelReceipt(r)
      PROVE  StoreInv'
  <2> PICK row : row = [receipts[r] EXCEPT !.status = "CANCELLED"]
    OBVIOUS
  <2>1. receipts[r] \in Receipt
    BY <1>4, StoreTypes DEF CancelReceipt, HasStatus
  <2>2. row \in Receipt /\ row.status = "CANCELLED"
    BY <2>1 DEF Receipt, ReceiptStatus
  <2>3. /\ Open(r) /\ receipts' = [receipts EXCEPT ![r] = row]
        /\ UNCHANGED <<stock, moved, cashbook, drift, call, returns>>
    BY <1>4 DEF CancelReceipt, Open
  <2> QED
    BY <2>2, <2>3, StepDraft
<1> QED
  BY <1>1, <1>2, <1>3, <1>4

LEMMA StepOfReturn ==
  ASSUME StoreInv, ReturnsNext, UNCHANGED receipts
  PROVE  StoreInv'
<1> PICK t \in Returns :
      \/ \E b \in ReturnBills, paid \in Payments :
           \/ CreateReturnDraft(t, b, paid)
           \/ CreateStandalone(t, b, paid)
           \/ EditReturnDraft(t, b, paid)
           \/ EditReturnTerms(t, b, paid)
      \/ PostReturn(t)
      \/ \E refund, paid \in Payments : Settle(t, refund, paid)
      \/ RemoveDraft(t)
      \/ CancelReturn(t)
  BY DEF ReturnsNext
<1>1. ASSUME NEW b \in ReturnBills, NEW paid \in Payments,
             CreateReturnDraft(t, b, paid) \/ EditReturnDraft(t, b, paid)
      PROVE  StoreInv'
  <2> PICK debt \in Int : returns' = [returns EXCEPT ![t] = NewReturn("DRAFT", b, paid, debt)]
    <3>1. RefundDue(b) - paid \in Int
      BY RefundDueWhole, BoundsAssumption
    <3> QED
      BY <1>1, <3>1 DEF CreateReturnDraft, EditReturnDraft
  <2> PICK row : row = NewReturn("DRAFT", b, paid, debt)
    OBVIOUS
  <2>1. paid \in Nat /\ paid <= RefundDue(b) /\ "DRAFT" \in ReturnStatus /\ Listable(b)
    BY <1>1, BoundsAssumption DEF CreateReturnDraft, EditReturnDraft, ReturnStatus
  <2>2. row \in Return /\ row.status = "DRAFT"
    BY <2>1, NewReturnIs
  <2>3. /\ returns[t] = NoDoc \/ ReturnIs(t, "DRAFT")
        /\ returns' = [returns EXCEPT ![t] = row]
        /\ UNCHANGED <<stock, moved, cashbook, drift, call, receipts>>
    BY <1>1 DEF CreateReturnDraft, EditReturnDraft
  <2> QED
    BY <2>2, <2>3, StepReturnDraft
<1>2. ASSUME NEW b \in ReturnBills, NEW paid \in Payments, CreateStandalone(t, b, paid)
      PROVE  StoreInv'
  BY <1>2, StepStandalone
<1>3. ASSUME PostReturn(t) PROVE StoreInv'
  BY <1>3, StepPostReturn
<1>4. ASSUME NEW refund \in Payments, NEW paid \in Payments, Settle(t, refund, paid)
      PROVE  StoreInv'
  BY <1>4, StepSettle
<1>5. ASSUME RemoveDraft(t) PROVE StoreInv'
  BY <1>5, StepRemoveDraft
<1>6. ASSUME CancelReturn(t) PROVE StoreInv'
  BY <1>6, StepCancelReturn
<1>7. ASSUME NEW b \in ReturnBills, NEW paid \in Payments, EditReturnTerms(t, b, paid)
      PROVE  StoreInv'
  <2> PICK row : row = Terms(t, b, paid)
    OBVIOUS
  <2>1. row \in Return /\ row.status = "DRAFT"
    BY <1>7, TermsIs
  <2>2. /\ ReturnIs(t, "DRAFT") /\ returns' = [returns EXCEPT ![t] = row]
        /\ UNCHANGED <<stock, moved, cashbook, drift, call, receipts>>
    BY <1>7 DEF EditReturnTerms, Terms
  <2> QED
    BY <2>1, <2>2, StepReturnDraft
<1> QED
  BY <1>1, <1>2, <1>3, <1>4, <1>5, <1>6, <1>7

LEMMA StepOfCashbook ==
  ASSUME StoreInv, CashbookNext
  PROVE  StoreInv'
BY StepCreateEntry, StepUpdateEntry, StepSyncReceipt, StepSyncReturn, StepCrash DEF CashbookNext

\* The invariant holds always, whatever the documents, the bills, the amounts
\* and the number of entries made by hand at one time.
THEOREM StoreAlways == Spec => []StoreInv
<1>1. Init => StoreInv
  BY StoreInitially
<1>2. StoreInv /\ [Next]_vars => StoreInv'
  <2> SUFFICES ASSUME StoreInv, [Next]_vars PROVE StoreInv'
    OBVIOUS
  <2>1. CASE PurchasingNext /\ UNCHANGED returns
    BY <2>1, StepOfReceipt
  <2>2. CASE ReturnsNext /\ UNCHANGED receipts
    BY <2>2, StepOfReturn
  <2>3. CASE CashbookNext
    BY <2>3, StepOfCashbook
  <2>4. CASE UNCHANGED vars
    BY <2>4 DEF vars, StoreInv, TypeOK
  <2> QED
    BY <2>1, <2>2, <2>3, <2>4 DEF Next
<1> QED
  BY <1>1, <1>2, PTL DEF Spec

\* Stock, vouchers, receipts and returns keep their types: quantities and what
\* was paid never fall below zero (purchasereceipt.service, purchasereturn.service).
THEOREM StoreTypesHold == Spec => []TypeOK
<1>1. StoreInv => TypeOK
  BY DEF StoreInv
<1> QED
  BY <1>1, StoreAlways, PTL

\* What a receipt has been paid is what its vouchers say, through posting,
\* paying off and entries made and edited by hand (syncReceiptDebt).
THEOREM ReceiptsMatchBook == Spec => []PaidMatchesBook
<1>1. StoreInv => PaidMatchesBook
  <2> SUFFICES ASSUME StoreInv, NEW r \in Receipts \ drift, receipts[r] # NoDoc,
                      receipts[r].status \in {"PAID", "OWING"}, OneSign(r)
               PROVE  /\ receipts[r].paid = Total(Magnitude, Entries("PAYMENT", r))
                      /\ receipts[r].debt = NotNegative(ReceiptTotal(receipts[r].bill) - receipts[r].paid)
                      /\ receipts[r].status = "PAID" <=> receipts[r].debt = 0
    BY DEF PaidMatchesBook
  <2>1. ReceiptBooked(cashbook, receipts[r], r)
    BY DEF StoreInv, Consistent
  <2>2. /\ Total(Magnitude, Entries("PAYMENT", r)) = PaidOut(cashbook, r)
        /\ Entries("PAYMENT", r) = Its(cashbook, "PAYMENT", r)
    BY StoreTypes, BookedIsWorth DEF IsBook, PaidOut
  <2>3. SameSign(cashbook, r)
    BY <2>2 DEF OneSign, SameSign
  <2> QED
    BY <2>1, <2>2, <2>3 DEF ReceiptBooked
<1> QED
  BY <1>1, StoreAlways, PTL

\* What a supplier refunded on a posted return is what its vouchers say, and
\* nothing is left of a cancelled one (syncReturnPaidAmount).
THEOREM ReturnsMatchBook == Spec => []RefundsMatchBook
<1>1. StoreInv => RefundsMatchBook
  <2> SUFFICES ASSUME StoreInv, NEW t \in Returns \ drift, returns[t] # NoDoc,
                      \A e \in Entries("PAYMENT", t) : e.amount > 0
               PROVE  /\ returns[t].status = "POSTED" => returns[t].paid = NetReceived(t)
                      /\ returns[t].status = "CANCELLED" => NetReceived(t) = 0
    BY StoreTypes, ReturnStands DEF RefundsMatchBook, ReturnStatus
  <2>1. ReturnBooked(cashbook, returns[t], t)
    BY DEF StoreInv, Consistent
  <2>2. Entries("PAYMENT", t) = Its(cashbook, "PAYMENT", t) /\ NetReceived(t) = Net(cashbook, t)
    BY StoreTypes, BookedIsWorth DEF IsBook, NetReceived, Net
  <2> QED
    BY <2>1, <2>2 DEF ReturnBooked
<1> QED
  BY <1>1, StoreAlways, PTL

\* The goods of a document move once, and the stock is what it opened with and
\* what the documents moved (the inventory transactions).
THEOREM GoodsMoveOnce == Spec => []GoodsOnce
<1>1. StoreInv => GoodsOnce
  <2> SUFFICES ASSUME StoreInv PROVE GoodsOnce
    OBVIOUS
  <2>0. Supplied(stock, moved, receipts, returns)
    BY DEF StoreInv
  <2>1. \A i \in Items : stock[i].qty = Opening[i].qty + SumOver(LAMBDA d : moved[d][i], Docs)
    <3> SUFFICES ASSUME NEW i \in Items
                 PROVE  stock[i].qty = Opening[i].qty + SumOver(LAMBDA d : moved[d][i], Docs)
      OBVIOUS
    <3>1. SumOver(LAMBDA d : moved[d][i], Docs) = SumFunctionOnSet(Column(moved, i), Docs)
      BY DEF SumOver, SumFunction, Column
    <3> QED
      BY <2>0, <3>1 DEF Supplied, Stocked
  <2>2. \A r \in Receipts, i \in Items :
          LET all == IF receipts[r] = NoDoc THEN 0 ELSE QtyIn(receipts[r].bill.lines, i)
          IN IF receipts[r] = NoDoc \/ receipts[r].status = "DRAFT" THEN moved[r][i] = 0
             ELSE moved[r][i] \in {0, all}
    BY <2>0 DEF Supplied, ReceiptMoved
  <2>3. \A t \in Returns, i \in Items :
          moved[t][i] = IF ReturnIs(t, "POSTED") THEN - QtyIn(returns[t].bill.lines, i) ELSE 0
    BY <2>0 DEF Supplied, ReturnMoved, ReturnIs
  <2> QED
    BY <2>1, <2>2, <2>3 DEF GoodsOnce
<1> QED
  BY <1>1, StoreAlways, PTL

\* The average cost of an item that opened empty lies between two unit costs it
\* can be bought at, whatever is bought, sent back and cancelled.
THEOREM AverageStaysInRange == Spec => []AvgCostInRange
<1>1. StoreInv => AvgCostInRange
  <2> SUFFICES ASSUME StoreInv, NEW i \in Items, Opening[i].qty = 0, stock[i].avg # Opening[i].avg
               PROVE  \E low, high \in UnitCosts(i) : stock[i].avg \in low..high
    BY DEF AvgCostInRange, UnitCosts
  <2> QED
    BY DEF StoreInv, Supplied, Valued, Between
<1> QED
  BY <1>1, StoreAlways, PTL


----------------------------------------------------------------------------
(* The reports.                                                            *)

LEMMA DiscountWhole ==
  ASSUME NEW d \in DiscountTerms, NEW base \in Int
  PROVE  Discount(d, base) \in Int
<1> PICK n \in Int : n = 2 * (base * d.value) + 100
  BY DEF DiscountTerms
<1>1. n \div 200 \in Int
  OBVIOUS
<1>2. Rounded(base * d.value, 100) = n \div 200
  BY DEF Rounded
<1> QED
  BY <1>1, <1>2 DEF Discount, DiscountTerms

LEMMA ReportedWhole ==
  ASSUME NEW b \in Bills
  PROVE  ReceiptGoods(b) \in Int /\ ReceiptDiscount(b) \in Int /\ b.ship \in Int
<1> DEFINE f == [k \in DOMAIN b.lines |-> LineNet(b.lines[k])]
<1>1. b.lines \in Seq(ReceiptLine) /\ b.disc \in DiscountTerms /\ b.ship \in Nat
  BY BillsAssumption
<1>2. IsFiniteSet(DOMAIN b.lines) /\ \A k \in DOMAIN b.lines : b.lines[k] \in ReceiptLine
  BY <1>1, LinesOfReceipt
<1>3. \A k \in DOMAIN b.lines : f[k] \in Int
  <2> SUFFICES ASSUME NEW k \in DOMAIN b.lines PROVE LineNet(b.lines[k]) \in Int
    OBVIOUS
  <2> PICK l \in ReceiptLine : l = b.lines[k]
    BY <1>2
  <2>1. l.qty * l.price \in Nat /\ l.disc \in DiscountTerms
    BY DEF ReceiptLine
  <2>2. Discount(l.disc, l.qty * l.price) \in Nat
    BY <2>1, DiscountNatural
  <2> QED
    BY <2>1, <2>2 DEF LineNet
<1>4. ReceiptGoods(b) = SumFunctionOnSet(f, DOMAIN b.lines)
  BY DEF ReceiptGoods, SumOf, SumOver, SumFunction
<1> HIDE DEF f
<1>5. ReceiptGoods(b) \in Int
  BY <1>2, <1>3, <1>4, SumIntegersOver
<1> QED
  BY <1>1, <1>5, DiscountWhole DEF ReceiptDiscount

\* The part of a total that falls to S.
Part(f, S) == SumFunctionOnSet([x \in S |-> f[x]], S)

LEMMA PartsAddUp ==
  ASSUME NEW A, IsFiniteSet(A), NEW B, IsFiniteSet(B), A \cap B = {},
         NEW f, \A x \in A \cup B : f[x] \in Int
  PROVE  /\ Part(f, A \cup B) = Part(f, A) + Part(f, B)
         /\ Part(f, A) \in Int /\ Part(f, B) \in Int
<1>1. ASSUME NEW S \in SUBSET (A \cup B), IsFiniteSet(S)
      PROVE  Part(f, S) = SumFunctionOnSet(f, S) /\ SumFunctionOnSet(f, S) \in Int
  <2> DEFINE g == [x \in S |-> f[x]]
  <2>1. \A x \in S : g[x] \in Int /\ g[x] = f[x] /\ f[x] \in Int
    OBVIOUS
  <2>2. Part(f, S) = SumFunctionOnSet(g, S)
    BY DEF Part
  <2> HIDE DEF g
  <2>3. SumFunctionOnSet(g, S) = SumFunctionOnSet(f, S)
    BY <1>1, <2>1, SumSame
  <2> QED
    BY <1>1, <2>1, <2>2, <2>3, SumIntegersOver
<1>2. IsFiniteSet(A \cup B)
  BY FS_Union
<1>3. SumFunctionOnSet(f, A \cup B) = SumFunctionOnSet(f, A) + SumFunctionOnSet(f, B)
  BY SumUnion
<1>4. /\ A \in SUBSET (A \cup B) /\ B \in SUBSET (A \cup B) /\ A \cup B \in SUBSET (A \cup B)
  OBVIOUS
<1> QED
  BY <1>1, <1>2, <1>3, <1>4

\* What the receipts of the moment report, one by one.
GoodsOf == [r \in Receipts |-> ReceiptGoods(receipts[r].bill)]
DiscountOf == [r \in Receipts |-> ReceiptDiscount(receipts[r].bill)]
ShipOf == [r \in Receipts |-> receipts[r].bill.ship]

LEMMA RowIsParts ==
  ASSUME NEW s, NEW from, NEW to, NEW S, S = Counted(s, from, to)
  PROVE  SupplierRow(s, from, to) =
           [goodsAmount |-> Part(GoodsOf, S), invoiceDiscount |-> Part(DiscountOf, S),
            netGoods |-> Part(GoodsOf, S) - Part(DiscountOf, S), shippingFee |-> Part(ShipOf, S),
            totalAmount |-> Part(GoodsOf, S) - Part(DiscountOf, S) + Part(ShipOf, S),
            receiptCount |-> Cardinality(S)]
<1>1. S \subseteq Receipts
  BY DEF Counted
<1>2. /\ [r \in S |-> GoodsOf[r]] = [r \in S |-> ReceiptGoods(receipts[r].bill)]
      /\ [r \in S |-> DiscountOf[r]] = [r \in S |-> ReceiptDiscount(receipts[r].bill)]
      /\ [r \in S |-> ShipOf[r]] = [r \in S |-> receipts[r].bill.ship]
  BY <1>1 DEF GoodsOf, DiscountOf, ShipOf
<1>3. SumFunctionOnSet([r \in S |-> ReceiptGoods(receipts[r].bill)], S) = Part(GoodsOf, S)
  BY <1>2, Zenon DEF Part
<1>4. SumFunctionOnSet([r \in S |-> ReceiptDiscount(receipts[r].bill)], S) = Part(DiscountOf, S)
  BY <1>2, Zenon DEF Part
<1>5. SumFunctionOnSet([r \in S |-> receipts[r].bill.ship], S) = Part(ShipOf, S)
  BY <1>2, Zenon DEF Part
<1> DEFINE goods == SumFunctionOnSet([r \in S |-> ReceiptGoods(receipts[r].bill)], S)
           discount == SumFunctionOnSet([r \in S |-> ReceiptDiscount(receipts[r].bill)], S)
           ship == SumFunctionOnSet([r \in S |-> receipts[r].bill.ship], S)
<1>6. SupplierRow(s, from, to) =
        [goodsAmount |-> goods, invoiceDiscount |-> discount, netGoods |-> goods - discount,
         shippingFee |-> ship, totalAmount |-> goods - discount + ship,
         receiptCount |-> Cardinality(S)]
  BY DEF SupplierRow, SumOver, SumFunction
<1> HIDE DEF goods, discount, ship
<1>7. goods = Part(GoodsOf, S) /\ discount = Part(DiscountOf, S) /\ ship = Part(ShipOf, S)
  BY <1>3, <1>4, <1>5 DEF goods, discount, ship
<1> QED
  BY <1>6, <1>7

\* The reports of two adjoining periods add up to the report of both, at every
\* moment and for every supplier (resolveLocalRange).
THEOREM PeriodsAlwaysAddUp == Spec => []PeriodsAddUp
<1>1. StoreInv => PeriodsAddUp
  <2> SUFFICES ASSUME StoreInv, NEW s \in Suppliers, NEW from \in Days, NEW mid \in Days, NEW to \in Days,
                      from <= mid, mid < to
               PROVE  LET first == SupplierRow(s, from, mid)
                          rest == SupplierRow(s, mid + 1, to)
                          both == SupplierRow(s, from, to)
                      IN \A f \in DOMAIN both : both[f] = first[f] + rest[f]
    BY DEF PeriodsAddUp
  <2> PICK A : A = Counted(s, from, mid)
    OBVIOUS
  <2> PICK B : B = Counted(s, mid + 1, to)
    OBVIOUS
  <2>1. from \in Nat /\ mid \in Nat /\ to \in Nat
    BY BillsAssumption DEF Days
  <2>2. \A r \in Receipts : receipts[r] # NoDoc => receipts[r].bill \in Bills
    BY StoreTypes DEF Receipt
  <2>3. \A b \in Bills : b.day \in Nat
    BY BillsAssumption
  <2>4. Counted(s, from, to) = A \cup B /\ A \cap B = {} /\ A \subseteq Receipts /\ B \subseteq Receipts
    <3>1. \A r \in Receipts : receipts[r] # NoDoc =>
            /\ Within(receipts[r].bill.day, from, to) <=>
                 Within(receipts[r].bill.day, from, mid) \/ Within(receipts[r].bill.day, mid + 1, to)
            /\ ~ (Within(receipts[r].bill.day, from, mid) /\ Within(receipts[r].bill.day, mid + 1, to))
      BY <2>1, <2>2, <2>3 DEF Within
    <3> QED
      BY <3>1 DEF Counted
  <2>5. IsFiniteSet(A) /\ IsFiniteSet(B)
    <3>1. IsFiniteSet(Receipts)
      BY DocsAssumption, FS_Subset DEF Docs
    <3> QED
      BY <2>4, <3>1, FS_Subset
  <2>6. \A r \in A \cup B : receipts[r].bill \in Bills
    BY <2>2, <2>4 DEF Counted
  <2>7. \A r \in A \cup B : GoodsOf[r] \in Int /\ DiscountOf[r] \in Int /\ ShipOf[r] \in Int
    BY <2>4, <2>6, ReportedWhole DEF GoodsOf, DiscountOf, ShipOf
  <2>8. /\ Part(GoodsOf, A \cup B) = Part(GoodsOf, A) + Part(GoodsOf, B)
        /\ Part(GoodsOf, A) \in Int /\ Part(GoodsOf, B) \in Int
    <3>1. PICK f : f = GoodsOf
      OBVIOUS
    <3>2. \A r \in A \cup B : f[r] \in Int
      BY <2>7, <3>1
    <3>3. A \cap B = {}
      BY <2>4
    <3> QED
      BY <2>5, <3>1, <3>2, <3>3, PartsAddUp
  <2>9. /\ Part(DiscountOf, A \cup B) = Part(DiscountOf, A) + Part(DiscountOf, B)
        /\ Part(DiscountOf, A) \in Int /\ Part(DiscountOf, B) \in Int
    BY <2>4, <2>5, <2>7, PartsAddUp
  <2>10. /\ Part(ShipOf, A \cup B) = Part(ShipOf, A) + Part(ShipOf, B)
         /\ Part(ShipOf, A) \in Int /\ Part(ShipOf, B) \in Int
    BY <2>4, <2>5, <2>7, PartsAddUp
  <2>11. /\ Cardinality(A \cup B) = Cardinality(A) + Cardinality(B)
         /\ Cardinality(A) \in Int /\ Cardinality(B) \in Int
    <3>1. Cardinality(A \cap B) = 0
      BY <2>4, FS_EmptySet
    <3>2. Cardinality(A) \in Nat /\ Cardinality(B) \in Nat
      BY <2>5, FS_CardinalityType
    <3>3. Cardinality(A \cup B) = Cardinality(A) + Cardinality(B) - Cardinality(A \cap B)
      BY <2>5, FS_Union
    <3> QED
      BY <3>1, <3>2, <3>3
  <2> PICK first : first = SupplierRow(s, from, mid)
    OBVIOUS
  <2> PICK rest : rest = SupplierRow(s, mid + 1, to)
    OBVIOUS
  <2> PICK both : both = SupplierRow(s, from, to)
    OBVIOUS
  <2>12. first =
           [goodsAmount |-> Part(GoodsOf, A), invoiceDiscount |-> Part(DiscountOf, A),
            netGoods |-> Part(GoodsOf, A) - Part(DiscountOf, A), shippingFee |-> Part(ShipOf, A),
            totalAmount |-> Part(GoodsOf, A) - Part(DiscountOf, A) + Part(ShipOf, A),
            receiptCount |-> Cardinality(A)]
    BY RowIsParts
  <2>13. rest =
           [goodsAmount |-> Part(GoodsOf, B), invoiceDiscount |-> Part(DiscountOf, B),
            netGoods |-> Part(GoodsOf, B) - Part(DiscountOf, B), shippingFee |-> Part(ShipOf, B),
            totalAmount |-> Part(GoodsOf, B) - Part(DiscountOf, B) + Part(ShipOf, B),
            receiptCount |-> Cardinality(B)]
    BY RowIsParts
  <2>14. both =
           [goodsAmount |-> Part(GoodsOf, A \cup B), invoiceDiscount |-> Part(DiscountOf, A \cup B),
            netGoods |-> Part(GoodsOf, A \cup B) - Part(DiscountOf, A \cup B),
            shippingFee |-> Part(ShipOf, A \cup B),
            totalAmount |-> Part(GoodsOf, A \cup B) - Part(DiscountOf, A \cup B) + Part(ShipOf, A \cup B),
            receiptCount |-> Cardinality(A \cup B)]
    BY <2>4, RowIsParts
  <2>15. \A f \in DOMAIN both : both[f] = first[f] + rest[f]
    BY <2>8, <2>9, <2>10, <2>11, <2>12, <2>13, <2>14
  <2> QED
    BY <2>15
<1> QED
  BY <1>1, StoreAlways, PTL

----------------------------------------------------------------------------
(* Reports by item: what the lines of a document hold, split over items.   *)

\* What the positions of item i count: v[k] at position k, whose item is it[k].
Share(v, it, i) ==
  SumFunctionOnSet([k \in DOMAIN v |-> IF it[k] = i THEN v[k] ELSE 0], DOMAIN v)

IsSplit(v, it) ==
  IsFiniteSet(DOMAIN v) /\ \A k \in DOMAIN v : v[k] \in Int /\ it[k] \in Items

LEMMA ShareWhole ==
  ASSUME NEW v, NEW it, IsSplit(v, it), NEW i
  PROVE  Share(v, it, i) \in Int
<1> DEFINE f == [k \in DOMAIN v |-> IF it[k] = i THEN v[k] ELSE 0]
<1>1. \A k \in DOMAIN v : f[k] \in Int
  BY DEF IsSplit
<1>2. Share(v, it, i) = SumFunctionOnSet(f, DOMAIN v)
  BY DEF Share
<1> HIDE DEF f
<1> QED
  BY <1>1, <1>2, SumIntegersOver DEF IsSplit

\* The items' shares in one document add up.
LEMMA SharesAddUp ==
  ASSUME NEW v, NEW it, IsSplit(v, it)
  PROVE  SumFunctionOnSet([i \in Items |-> Share(v, it, i)], Items) = SumFunctionOnSet(v, DOMAIN v)
<1> PICK L : L = DOMAIN v
  OBVIOUS
<1> DEFINE row == [k \in L |-> [i \in Items |-> IF it[k] = i THEN v[k] ELSE 0]]
           col == [i \in Items |-> [k \in L |-> IF it[k] = i THEN v[k] ELSE 0]]
           c == [i \in Items |-> Share(v, it, i)]
<1>1. IsFiniteSet(L) /\ IsFiniteSet(Items)
  BY OpeningAssumption DEF IsSplit
<1>2. \A k \in L : v[k] \in Int /\ it[k] \in Items
  BY DEF IsSplit
<1>3. \A k \in L : \A i \in Items : row[k][i] \in Int /\ col[i][k] = row[k][i]
  BY <1>2
<1>4. \A k \in L : v[k] = SumFunctionOnSet(row[k], Items)
  <2> TAKE k \in L
  <2> PICK x \in Items : x = it[k]
    BY <1>2
  <2> PICK f : f = row[k]
    OBVIOUS
  <2>1. f[x] = v[k] /\ f[x] \in Int /\ \A y \in Items \ {x} : f[y] = 0
    BY <1>2
  <2>2. SumFunctionOnSet(f, Items) = f[x]
    BY <1>1, <2>1, SumOne
  <2> QED
    BY <2>1, <2>2
<1>5. \A i \in Items : c[i] = SumFunctionOnSet(col[i], L)
  BY Zenon DEF Share
<1> HIDE DEF row, col, c
<1>6. SumFunctionOnSet(v, L) = SumFunctionOnSet(c, Items)
  <2>1. IsTable(row, col, v, c, L, Items)
    BY <1>3, <1>4, <1>5 DEF IsTable
  <2> QED
    BY <1>1, <2>1, SumSwap
<1> QED
  BY <1>6 DEF c

\* So they do over several documents, V[d] holding what the positions of d
\* count and It[d] their items.
ItemTotal(V, It, M, i) == SumFunctionOnSet([d \in M |-> Share(V[d], It[d], i)], M)

LEMMA ItemTotalsAddUp ==
  ASSUME NEW M, IsFiniteSet(M), NEW V, NEW It, \A d \in M : IsSplit(V[d], It[d])
  PROVE  SumFunctionOnSet([i \in Items |-> ItemTotal(V, It, M, i)], Items)
           = SumFunctionOnSet([d \in M |-> SumFunctionOnSet(V[d], DOMAIN V[d])], M)
<1> DEFINE row == [d \in M |-> [i \in Items |-> Share(V[d], It[d], i)]]
           col == [i \in Items |-> [d \in M |-> Share(V[d], It[d], i)]]
           r == [d \in M |-> SumFunctionOnSet(V[d], DOMAIN V[d])]
           c == [i \in Items |-> ItemTotal(V, It, M, i)]
<1>1. IsFiniteSet(Items)
  BY OpeningAssumption
<1>2. \A d \in M : \A i \in Items : row[d][i] \in Int /\ col[i][d] = row[d][i]
  BY ShareWhole
<1>3. \A d \in M : r[d] = SumFunctionOnSet(row[d], Items)
  <2> TAKE d \in M
  <2>1. row[d] = [i \in Items |-> Share(V[d], It[d], i)]
    OBVIOUS
  <2>2. SumFunctionOnSet([i \in Items |-> Share(V[d], It[d], i)], Items)
          = SumFunctionOnSet(V[d], DOMAIN V[d])
    BY SharesAddUp
  <2>3. r[d] = SumFunctionOnSet(V[d], DOMAIN V[d])
    OBVIOUS
  <2> HIDE DEF row, r
  <2> QED
    BY <2>1, <2>2, <2>3
<1>4. \A i \in Items : c[i] = SumFunctionOnSet(col[i], M)
  BY Zenon DEF ItemTotal
<1> HIDE DEF row, col, c, r
<1>5. SumFunctionOnSet(r, M) = SumFunctionOnSet(c, Items)
  <2>1. IsTable(row, col, r, c, M, Items)
    BY <1>2, <1>3, <1>4 DEF IsTable
  <2> QED
    BY <1>1, <2>1, SumSwap
<1> QED
  BY <1>5 DEF r, c


\* What the lines of the receipts count in the report by item.
Nets == [r \in Receipts |-> [k \in DOMAIN receipts[r].bill.lines |-> LineNet(receipts[r].bill.lines[k])]]
Shares == [r \in Receipts |-> [k \in DOMAIN receipts[r].bill.lines |->
             HeaderShare(receipts[r].bill, receipts[r].bill.lines[k])]]
ItemsOf == [r \in Receipts |-> [k \in DOMAIN receipts[r].bill.lines |-> receipts[r].bill.lines[k].item]]

LEMMA ItemGoods ==
  ASSUME NEW s, NEW from, NEW to, NEW i, NEW M, M = Counted(s, from, to)
  PROVE  ItemRow(s, i, from, to).goodsAmount = ItemTotal(Nets, ItemsOf, M, i)
<1> DEFINE part(r) == SumFunctionOnSet([k \in DOMAIN receipts[r].bill.lines |->
                         IF receipts[r].bill.lines[k].item = i THEN LineNet(receipts[r].bill.lines[k]) ELSE 0],
                         DOMAIN receipts[r].bill.lines)
<1>1. M \subseteq Receipts
  BY DEF Counted
<1>2. ItemRow(s, i, from, to).goodsAmount = SumFunctionOnSet([r \in M |-> part(r)], M)
  BY DEF ItemRow, SumOver, SumOf, SumFunction
<1>3. \A r \in M : part(r) = Share(Nets[r], ItemsOf[r], i)
  <2> TAKE r \in M
  <2> PICK v : v = Nets[r]
    OBVIOUS
  <2> PICK it : it = ItemsOf[r]
    OBVIOUS
  <2>1. /\ DOMAIN v = DOMAIN receipts[r].bill.lines
        /\ [k \in DOMAIN v |-> IF it[k] = i THEN v[k] ELSE 0]
             = [k \in DOMAIN receipts[r].bill.lines |->
                  IF receipts[r].bill.lines[k].item = i THEN LineNet(receipts[r].bill.lines[k]) ELSE 0]
    BY <1>1 DEF Nets, ItemsOf
  <2>2. Share(v, it, i) = part(r)
    BY <2>1, Zenon DEF Share
  <2> HIDE DEF part
  <2> QED
    BY <2>2
<1> HIDE DEF part
<1>4. [r \in M |-> part(r)] = [r \in M |-> Share(Nets[r], ItemsOf[r], i)]
  BY <1>3
<1> QED
  BY <1>2, <1>4, Zenon DEF ItemTotal

LEMMA ItemDiscounts ==
  ASSUME NEW s, NEW from, NEW to, NEW i, NEW M, M = Counted(s, from, to)
  PROVE  ItemRow(s, i, from, to).headerDiscount = ItemTotal(Shares, ItemsOf, M, i)
<1> DEFINE part(r) == SumFunctionOnSet([k \in DOMAIN receipts[r].bill.lines |->
                         IF receipts[r].bill.lines[k].item = i
                         THEN HeaderShare(receipts[r].bill, receipts[r].bill.lines[k]) ELSE 0],
                         DOMAIN receipts[r].bill.lines)
<1>1. M \subseteq Receipts
  BY DEF Counted
<1>2. ItemRow(s, i, from, to).headerDiscount = SumFunctionOnSet([r \in M |-> part(r)], M)
  BY DEF ItemRow, SumOver, SumOf, SumFunction
<1>3. \A r \in M : part(r) = Share(Shares[r], ItemsOf[r], i)
  <2> TAKE r \in M
  <2> PICK v : v = Shares[r]
    OBVIOUS
  <2> PICK it : it = ItemsOf[r]
    OBVIOUS
  <2>1. /\ DOMAIN v = DOMAIN receipts[r].bill.lines
        /\ [k \in DOMAIN v |-> IF it[k] = i THEN v[k] ELSE 0]
             = [k \in DOMAIN receipts[r].bill.lines |->
                  IF receipts[r].bill.lines[k].item = i
                  THEN HeaderShare(receipts[r].bill, receipts[r].bill.lines[k]) ELSE 0]
    BY <1>1 DEF Shares, ItemsOf
  <2>2. Share(v, it, i) = part(r)
    BY <2>1, Zenon DEF Share
  <2> HIDE DEF part
  <2> QED
    BY <2>2
<1> HIDE DEF part
<1>4. [r \in M |-> part(r)] = [r \in M |-> Share(Shares[r], ItemsOf[r], i)]
  BY <1>3
<1> QED
  BY <1>2, <1>4, Zenon DEF ItemTotal

\* The lines of a bill, and that its discount is shared out to within half a
\* unit a line.
NetsOf(b) == [k \in DOMAIN b.lines |-> LineNet(b.lines[k])]
SharesOf(b) == [k \in DOMAIN b.lines |-> HeaderShare(b, b.lines[k])]

LEMMA NetsWhole ==
  ASSUME NEW b \in Bills
  PROVE  /\ IsFiniteSet(DOMAIN b.lines) /\ Cardinality(DOMAIN b.lines) = Len(b.lines)
         /\ Len(b.lines) \in Nat
         /\ \A k \in DOMAIN b.lines : LineNet(b.lines[k]) \in Int /\ b.lines[k].item \in Items
         /\ ReceiptGoods(b) = SumFunctionOnSet(NetsOf(b), DOMAIN b.lines)
         /\ ReceiptGoods(b) \in Int
<1>1. b.lines \in Seq(ReceiptLine)
  BY BillsAssumption
<1>2. DOMAIN b.lines = 1..Len(b.lines) /\ Len(b.lines) \in Nat
  BY <1>1
<1>3. \A k \in DOMAIN b.lines : b.lines[k] \in ReceiptLine
  BY <1>1
<1>4. IsFiniteSet(DOMAIN b.lines) /\ Cardinality(DOMAIN b.lines) = Len(b.lines)
  BY <1>2, FS_Interval
<1>5. \A k \in DOMAIN b.lines : LineNet(b.lines[k]) \in Int /\ b.lines[k].item \in Items
  <2> TAKE k \in DOMAIN b.lines
  <2> PICK l \in ReceiptLine : l = b.lines[k]
    BY <1>3
  <2>1. l.qty * l.price \in Nat /\ l.disc \in DiscountTerms /\ l.item \in Items
    BY DEF ReceiptLine
  <2>2. Discount(l.disc, l.qty * l.price) \in Nat
    BY <2>1, DiscountNatural
  <2> QED
    BY <2>1, <2>2 DEF LineNet
<1>6. ReceiptGoods(b) = SumFunctionOnSet(NetsOf(b), DOMAIN b.lines)
  BY DEF ReceiptGoods, SumOf, SumOver, SumFunction, NetsOf
<1> QED
  BY <1>2, <1>4, <1>5, <1>6, ReportedWhole

LEMMA ShareBounds ==
  ASSUME NEW net \in Nat, NEW discount \in Nat, NEW goods \in Nat \ {0},
         NEW share, share = Rounded(net * discount, goods)
  PROVE  /\ share \in Nat
         /\ -goods <= (2 * goods) * share + (-(2 * discount)) * net
         /\ (2 * goods) * share + (-(2 * discount)) * net <= goods
         /\ (2 * goods) * share + (-(2 * discount)) * net \in Int
<1> PICK n \in Nat : n = net * discount
  OBVIOUS
<1>1. /\ share \in Nat
      /\ 2 * goods * share <= 2 * n + goods
      /\ 2 * n + goods < 2 * goods * share + 2 * goods
  BY RoundedBounds
<1>2. (-(2 * discount)) * net = -(2 * n)
  OBVIOUS
<1>3. PICK p \in Int : p = (2 * goods) * share
  BY <1>1
<1>4. 2 * goods * share = p
  BY <1>3
<1> QED
  BY <1>1, <1>2, <1>3, <1>4

LEMMA FactorWithin ==
  ASSUME NEW d \in Nat \ {0}, NEW x \in Int, NEW n \in Nat, -(d * n) <= d * x, d * x <= d * n
  PROVE  -n <= x /\ x <= n
<1>1. ~ (n < x)
  <2> SUFFICES ASSUME n + 1 <= x PROVE FALSE
    OBVIOUS
  <2>1. d * (n + 1) <= d * x
    BY ProductGrows
  <2>2. d * (n + 1) = d * n + d
    OBVIOUS
  <2> QED
    BY <2>1, <2>2
<1>2. ~ (x < -n)
  <2> SUFFICES ASSUME x <= -n - 1 PROVE FALSE
    OBVIOUS
  <2>1. d * x <= d * (-n - 1)
    BY ProductGrows
  <2>2. d * (-n - 1) = -(d * n) - d
    OBVIOUS
  <2> QED
    BY <2>1, <2>2
<1> QED
  BY <1>1, <1>2


LEMMA DiscountShared ==
  ASSUME NEW b \in Bills, Plain(b),
         NEW shared, shared = SumFunctionOnSet(SharesOf(b), DOMAIN b.lines)
  PROVE  /\ \A k \in DOMAIN b.lines : SharesOf(b)[k] \in Int
         /\ shared \in Int
         /\ -Len(b.lines) <= 2 * ReceiptDiscount(b) + (-2) * shared
         /\ 2 * ReceiptDiscount(b) + (-2) * shared <= Len(b.lines)
<1> PICK L : L = DOMAIN b.lines
  OBVIOUS
<1> PICK v : v = NetsOf(b)
  OBVIOUS
<1> PICK f : f = SharesOf(b)
  OBVIOUS
<1> PICK goods \in Int : goods = ReceiptGoods(b)
  BY NetsWhole
<1> PICK discount : discount = ReceiptDiscount(b)
  OBVIOUS
<1> PICK n \in Nat : n = Len(b.lines) /\ n = Cardinality(L)
  BY NetsWhole
<1>1. IsFiniteSet(L) /\ \A k \in L : v[k] \in Nat
  BY NetsWhole DEF NetsOf, Plain
<1>2. goods = SumFunctionOnSet(v, L) /\ goods \in Nat
  <2>1. goods = SumFunctionOnSet(v, L)
    BY NetsWhole
  <2> QED
    BY <1>1, <2>1, SumOfNaturals
<1>3. discount \in Nat /\ discount <= goods
  <2>1. b.disc \in DiscountTerms
    BY BillsAssumption
  <2> QED
    BY <1>2, <2>1, DiscountNatural DEF ReceiptDiscount, Plain
<1>4. \A k \in L : f[k] = IF goods = 0 THEN 0 ELSE Rounded(v[k] * discount, goods)
  BY DEF SharesOf, NetsOf, HeaderShare
<1>5. CASE goods = 0
  <2>1. \A k \in L : f[k] = 0
    BY <1>4, <1>5
  <2>2. SumFunctionOnSet(f, L) = 0
    BY <1>1, <2>1, SumZero
  <2>3. discount = 0
    BY <1>3, <1>5
  <2> QED
    BY <2>1, <2>2, <2>3
<1>6. CASE goods # 0
  <2> PICK p \in Int : p = 2 * goods
    OBVIOUS
  <2> PICK q \in Int : q = -(2 * discount)
    BY <1>3
  <2> DEFINE a == [k \in L |-> p * f[k] + q * v[k]]
  <2>1. \A k \in L : f[k] \in Nat /\ a[k] \in Int /\ -goods <= a[k] /\ a[k] <= goods
    <3> TAKE k \in L
    <3> PICK net \in Nat : net = v[k]
      BY <1>1
    <3> PICK share : share = f[k]
      OBVIOUS
    <3>1. share = Rounded(net * discount, goods)
      BY <1>4, <1>6
    <3>2. /\ share \in Nat
          /\ -goods <= (2 * goods) * share + (-(2 * discount)) * net
          /\ (2 * goods) * share + (-(2 * discount)) * net <= goods
          /\ (2 * goods) * share + (-(2 * discount)) * net \in Int
      BY <1>2, <1>3, <1>6, <3>1, ShareBounds
    <3>3. a[k] = (2 * goods) * share + (-(2 * discount)) * net
      OBVIOUS
    <3> HIDE DEF a
    <3> QED
      BY <3>2, <3>3
  <2>2. \A k \in L : f[k] \in Int /\ v[k] \in Int /\ a[k] = p * f[k] + q * v[k]
    <3>1. \A k \in L : a[k] = p * f[k] + q * v[k]
      BY Zenon
    <3> HIDE DEF a
    <3> QED
      BY <1>1, <2>1, <3>1
  <2> HIDE DEF a
  <2>3. SumFunctionOnSet(a, L) = p * SumFunctionOnSet(f, L) + q * SumFunctionOnSet(v, L)
    BY <1>1, <2>2, SumLinear
  <2>4. /\ -(goods * n) <= SumFunctionOnSet(a, L)
        /\ SumFunctionOnSet(a, L) <= goods * n
    <3>1. \A k \in L : a[k] \in Int /\ -goods <= a[k] /\ a[k] <= goods
      BY <2>1
    <3>2. /\ -(goods * Cardinality(L)) <= SumFunctionOnSet(a, L)
          /\ SumFunctionOnSet(a, L) <= goods * Cardinality(L)
      BY <1>1, <1>2, <3>1, SumWithin
    <3> QED
      BY <3>2
  <2>5. PICK sum \in Int : sum = SumFunctionOnSet(f, L)
    BY <1>1, <2>2, SumIntegersOver
  <2>6. SumFunctionOnSet(a, L) = goods * (2 * sum - 2 * discount)
    <3>1. SumFunctionOnSet(a, L) = p * sum + q * goods
      BY <1>2, <2>3, <2>5
    <3>2. p * sum + q * goods = goods * (2 * sum - 2 * discount)
      BY <1>2, <1>3
    <3> QED
      BY <3>1, <3>2
  <2>7. PICK x \in Int : x = 2 * sum - 2 * discount
    BY <1>3
  <2>8. -n <= x /\ x <= n
    BY <1>2, <1>6, <2>4, <2>6, <2>7, FactorWithin
  <2>9. shared = sum
    BY <2>5
  <2> QED
    BY <1>3, <2>2, <2>7, <2>8, <2>9
<1> QED
  BY <1>5, <1>6

\* A receipt of a Plain bill comes to what the reports say.
LEMMA PlainTotal ==
  ASSUME NEW b \in Bills, Plain(b)
  PROVE  ReceiptTotal(b) = ReceiptGoods(b) - ReceiptDiscount(b) + b.ship
<1>1. \A k \in DOMAIN b.lines : LineTotal(b.lines[k]) = LineNet(b.lines[k])
  <2> TAKE k \in DOMAIN b.lines
  <2> PICK net \in Int : net = LineNet(b.lines[k])
    BY NetsWhole
  <2>1. LineTotal(b.lines[k]) = NotNegative(net)
    BY DEF LineTotal, LineNet
  <2> QED
    BY <2>1 DEF Plain, NotNegative
<1>2. [k \in DOMAIN b.lines |-> LineTotal(b.lines[k])] = [k \in DOMAIN b.lines |-> LineNet(b.lines[k])]
  BY <1>1
<1>3. /\ SubTotal(b) = SumFunctionOnSet([k \in DOMAIN b.lines |-> LineTotal(b.lines[k])], DOMAIN b.lines)
      /\ ReceiptGoods(b) = SumFunctionOnSet([k \in DOMAIN b.lines |-> LineNet(b.lines[k])], DOMAIN b.lines)
  BY DEF SubTotal, ReceiptGoods, SumOf, SumOver, SumFunction
<1>4. SubTotal(b) = ReceiptGoods(b)
  BY <1>2, <1>3, Zenon
<1>5. ReceiptGoods(b) \in Int /\ ReceiptDiscount(b) \in Int /\ b.ship \in Int /\ b.ship \in Nat
  BY ReportedWhole, BillsAssumption
<1>6. ReceiptTotal(b) = NotNegative(ReceiptGoods(b) - ReceiptDiscount(b) + b.ship)
  BY <1>4, Zenon DEF ReceiptTotal, ReceiptDiscount
<1>7. ReceiptGoods(b) >= ReceiptDiscount(b)
  BY DEF Plain
<1> QED
  BY <1>5, <1>6, <1>7 DEF NotNegative


LEMMA CountedFacts ==
  ASSUME StoreInv, NEW s, NEW from, NEW to, NEW M, M = Counted(s, from, to)
  PROVE  M \subseteq Receipts /\ IsFiniteSet(M) /\ \A r \in M : receipts[r].bill \in Bills
<1>1. M \subseteq Receipts
  BY DEF Counted
<1>2. IsFiniteSet(Receipts)
  BY DocsAssumption, FS_Subset DEF Docs
<1>3. \A r \in Receipts : receipts[r] # NoDoc => receipts[r].bill \in Bills
  BY StoreTypes DEF Receipt
<1> QED
  BY <1>1, <1>2, <1>3, FS_Subset DEF Counted

\* A sum and that of the values with the other sign.
LEMMA SumOpposite ==
  ASSUME NEW S, IsFiniteSet(S), NEW f, NEW g, \A x \in S : f[x] \in Int /\ g[x] = -f[x]
  PROVE  SumFunctionOnSet(g, S) = -SumFunctionOnSet(f, S)
<1> DEFINE zero == [x \in S |-> 0]
<1>1. \A x \in S : zero[x] = 0 /\ zero[x] = f[x] + g[x] /\ f[x] \in Int /\ g[x] \in Int
  OBVIOUS
<1> HIDE DEF zero
<1>2. Adds(f, g, zero, S)
  BY <1>1 DEF Adds
<1>3. SumFunctionOnSet(zero, S) = SumFunctionOnSet(f, S) + SumFunctionOnSet(g, S)
  BY <1>2, SumAdds
<1>4. SumFunctionOnSet(zero, S) = 0
  BY <1>1, SumZero
<1>5. SumFunctionOnSet(f, S) \in Int /\ SumFunctionOnSet(g, S) \in Int
  BY <1>1, SumIntegersOver
<1> QED
  BY <1>3, <1>4, <1>5

\* What a receipt comes to in suppliersTop.
TopOf == [r \in Receipts |-> ReceiptGoods(receipts[r].bill) - ReceiptDiscount(receipts[r].bill)
                               + receipts[r].bill.ship]

LEMMA TotalsHold ==
  ASSUME StoreInv, NEW s, NEW from, NEW to
  PROVE  TotalsAgree(s, from, to)
<1> PICK M : M = Counted(s, from, to)
  OBVIOUS
<1> DEFINE g == [r \in M |-> GoodsOf[r]]
           d == [r \in M |-> -DiscountOf[r]]
           d0 == [r \in M |-> DiscountOf[r]]
           h == [r \in M |-> ShipOf[r]]
           gd == [r \in M |-> g[r] + d[r]]
           t == [r \in M |-> TopOf[r]]
           u == [r \in M |-> ReceiptTotal(receipts[r].bill)]
<1>1. M \subseteq Receipts /\ IsFiniteSet(M) /\ \A r \in M : receipts[r].bill \in Bills
  BY CountedFacts
<1>2. \A r \in M : /\ GoodsOf[r] \in Int /\ DiscountOf[r] \in Int /\ ShipOf[r] \in Int
                   /\ TopOf[r] = GoodsOf[r] - DiscountOf[r] + ShipOf[r]
  BY <1>1, ReportedWhole DEF GoodsOf, DiscountOf, ShipOf, TopOf
<1>3. /\ \A r \in M : g[r] \in Int /\ d[r] \in Int /\ h[r] \in Int /\ d0[r] \in Int /\ d[r] = -d0[r]
      /\ \A r \in M : gd[r] = g[r] + d[r] /\ gd[r] \in Int
      /\ \A r \in M : t[r] = gd[r] + h[r] /\ t[r] \in Int
  BY <1>2
<1>4. /\ SumFunctionOnSet(g, M) = Part(GoodsOf, M)
      /\ SumFunctionOnSet(d0, M) = Part(DiscountOf, M)
      /\ SumFunctionOnSet(h, M) = Part(ShipOf, M)
  BY DEF Part
<1>5. TopRow(s, from, to).purchaseAmount = SumFunctionOnSet(t, M)
  <2>1. t = [r \in M |-> ReceiptGoods(receipts[r].bill) - ReceiptDiscount(receipts[r].bill)
                           + receipts[r].bill.ship]
    BY <1>1 DEF TopOf
  <2>2. TopRow(s, from, to).purchaseAmount
          = SumFunctionOnSet([r \in M |-> ReceiptGoods(receipts[r].bill) - ReceiptDiscount(receipts[r].bill)
                                            + receipts[r].bill.ship], M)
    BY DEF TopRow, SumOver, SumFunction
  <2> HIDE DEF t
  <2> QED
    BY <2>1, <2>2, Zenon
<1>6. SumOver(LAMBDA r : ReceiptTotal(receipts[r].bill), M) = SumFunctionOnSet(u, M)
  BY DEF SumOver, SumFunction
<1>7. ASSUME \A r \in M : Plain(receipts[r].bill)
      PROVE  \A r \in M : t[r] \in Int /\ t[r] = u[r]
  <2> TAKE r \in M
  <2> PICK b \in Bills : b = receipts[r].bill
    BY <1>1
  <2>1. ReceiptTotal(b) = ReceiptGoods(b) - ReceiptDiscount(b) + b.ship
    BY <1>7, PlainTotal
  <2>2. u[r] = ReceiptTotal(b) /\ t[r] = ReceiptGoods(b) - ReceiptDiscount(b) + b.ship
    BY <1>1 DEF TopOf
  <2> QED
    BY <1>3, <2>1, <2>2
<1> HIDE DEF g, d, d0, h, gd, t, u
<1>8. SumFunctionOnSet(d, M) = -SumFunctionOnSet(d0, M)
  BY <1>1, <1>3, SumOpposite
<1>9. SumFunctionOnSet(gd, M) = SumFunctionOnSet(g, M) + SumFunctionOnSet(d, M)
  BY <1>1, <1>3, SumPlus
<1>10. SumFunctionOnSet(t, M) = SumFunctionOnSet(gd, M) + SumFunctionOnSet(h, M)
  BY <1>1, <1>3, SumPlus
<1>11. /\ SumFunctionOnSet(g, M) \in Int /\ SumFunctionOnSet(d0, M) \in Int
       /\ SumFunctionOnSet(h, M) \in Int
  BY <1>1, <1>3, SumIntegersOver
<1>12. SupplierRow(s, from, to).totalAmount = Part(GoodsOf, M) - Part(DiscountOf, M) + Part(ShipOf, M)
  <2> PICK row : row = SupplierRow(s, from, to)
    OBVIOUS
  <2>1. row = [goodsAmount |-> Part(GoodsOf, M), invoiceDiscount |-> Part(DiscountOf, M),
               netGoods |-> Part(GoodsOf, M) - Part(DiscountOf, M), shippingFee |-> Part(ShipOf, M),
               totalAmount |-> Part(GoodsOf, M) - Part(DiscountOf, M) + Part(ShipOf, M),
               receiptCount |-> Cardinality(M)]
    BY RowIsParts
  <2>2. row.totalAmount = Part(GoodsOf, M) - Part(DiscountOf, M) + Part(ShipOf, M)
    BY <2>1
  <2> QED
    BY <2>2
<1>13. SupplierRow(s, from, to).totalAmount = SumFunctionOnSet(t, M)
  BY <1>4, <1>8, <1>9, <1>10, <1>11, <1>12
<1>14. ASSUME \A r \in M : Plain(receipts[r].bill)
       PROVE  SumFunctionOnSet(t, M) = SumFunctionOnSet(u, M)
  <2>1. \A r \in M : t[r] \in Int /\ t[r] = u[r]
    BY <1>7, <1>14
  <2> QED
    BY <1>1, <2>1, SumSame
<1> PICK total : total = SupplierRow(s, from, to).totalAmount
  OBVIOUS
<1> PICK receiptTotal : receiptTotal = SumOver(LAMBDA r : ReceiptTotal(receipts[r].bill), M)
  OBVIOUS
<1>15. /\ TopRow(s, from, to).purchaseAmount = total
       /\ TopRow(s, from, to).returnAmount = ReturnRow(s).returnAmount
       /\ (\A r \in M : Plain(receipts[r].bill)) => total = receiptTotal
  <2>1. TopRow(s, from, to).returnAmount = ReturnRow(s).returnAmount
    BY DEF TopRow, ReturnRow
  <2> QED
    BY <1>5, <1>6, <1>13, <1>14, <2>1
<1> QED
  BY <1>15, Zenon DEF TotalsAgree


LEMMA ItemsHold ==
  ASSUME StoreInv, NEW s, NEW from, NEW to
  PROVE  ItemsAddUp(s, from, to)
<1> PICK M : M = Counted(s, from, to)
  OBVIOUS
<1> DEFINE goodsOf == [i \in Items |-> ItemRow(s, i, from, to).goodsAmount]
           sharedOf == [i \in Items |-> ItemRow(s, i, from, to).headerDiscount]
           g == [r \in M |-> GoodsOf[r]]
           d == [r \in M |-> DiscountOf[r]]
           w == [r \in M |-> SumFunctionOnSet(Shares[r], DOMAIN Shares[r])]
           n == [r \in M |-> Len(receipts[r].bill.lines)]
           neg == [r \in M |-> -n[r]]
           e == [r \in M |-> 2 * d[r] + (-2) * w[r]]
<1>1. M \subseteq Receipts /\ IsFiniteSet(M) /\ \A r \in M : receipts[r].bill \in Bills
  BY CountedFacts
<1>2. ASSUME NEW r \in M, NEW b \in Bills, b = receipts[r].bill
      PROVE  /\ Nets[r] = NetsOf(b) /\ Shares[r] = SharesOf(b)
             /\ DOMAIN Nets[r] = DOMAIN b.lines /\ DOMAIN Shares[r] = DOMAIN b.lines
             /\ DOMAIN ItemsOf[r] = DOMAIN b.lines
             /\ \A k \in DOMAIN b.lines : ItemsOf[r][k] = b.lines[k].item
  BY <1>1, <1>2 DEF Nets, Shares, ItemsOf, NetsOf, SharesOf
<1>3. \A r \in M : IsSplit(Nets[r], ItemsOf[r])
  <2> TAKE r \in M
  <2> PICK b \in Bills : b = receipts[r].bill
    BY <1>1
  <2>1. \A k \in DOMAIN b.lines : NetsOf(b)[k] = LineNet(b.lines[k])
    BY DEF NetsOf
  <2> QED
    BY <1>2, <2>1, NetsWhole DEF IsSplit
<1>4. \A r \in M : SumFunctionOnSet(Nets[r], DOMAIN Nets[r]) = GoodsOf[r] /\ GoodsOf[r] \in Int
  <2> TAKE r \in M
  <2> PICK b \in Bills : b = receipts[r].bill
    BY <1>1
  <2>1. GoodsOf[r] = ReceiptGoods(b)
    BY <1>1 DEF GoodsOf
  <2>2. Nets[r] = NetsOf(b) /\ DOMAIN Nets[r] = DOMAIN b.lines
    BY <1>2
  <2>3. ReceiptGoods(b) = SumFunctionOnSet(NetsOf(b), DOMAIN b.lines) /\ ReceiptGoods(b) \in Int
    BY NetsWhole
  <2> QED
    BY <2>1, <2>2, <2>3
<1>5. SumFunctionOnSet(goodsOf, Items) = SumFunctionOnSet(g, M)
  <2>1. goodsOf = [i \in Items |-> ItemTotal(Nets, ItemsOf, M, i)]
    BY ItemGoods
  <2>2. g = [r \in M |-> SumFunctionOnSet(Nets[r], DOMAIN Nets[r])]
    BY <1>4
  <2> HIDE DEF goodsOf, g
  <2>3. SumFunctionOnSet([i \in Items |-> ItemTotal(Nets, ItemsOf, M, i)], Items)
          = SumFunctionOnSet([r \in M |-> SumFunctionOnSet(Nets[r], DOMAIN Nets[r])], M)
    BY <1>1, <1>3, ItemTotalsAddUp
  <2> QED
    BY <2>1, <2>2, <2>3, Zenon
<1>6. SumFunctionOnSet(g, M) = Part(GoodsOf, M) /\ SumFunctionOnSet(d, M) = Part(DiscountOf, M)
  BY DEF Part
<1> DEFINE items == [i \in Items |-> ItemRow(s, i, from, to)]
<1>7. /\ SumOver(LAMBDA i : items[i].goodsAmount, Items) = SumFunctionOnSet(goodsOf, Items)
      /\ SumOver(LAMBDA i : items[i].headerDiscount, Items) = SumFunctionOnSet(sharedOf, Items)
      /\ SumOver(LAMBDA r : Len(receipts[r].bill.lines), M) = SumFunctionOnSet(n, M)
  BY DEF SumOver, SumFunction
<1>8. /\ SupplierRow(s, from, to).goodsAmount = SumFunctionOnSet(g, M)
      /\ SupplierRow(s, from, to).invoiceDiscount = SumFunctionOnSet(d, M)
  <2> PICK row : row = SupplierRow(s, from, to)
    OBVIOUS
  <2>1. row = [goodsAmount |-> Part(GoodsOf, M), invoiceDiscount |-> Part(DiscountOf, M),
               netGoods |-> Part(GoodsOf, M) - Part(DiscountOf, M), shippingFee |-> Part(ShipOf, M),
               totalAmount |-> Part(GoodsOf, M) - Part(DiscountOf, M) + Part(ShipOf, M),
               receiptCount |-> Cardinality(M)]
    BY RowIsParts
  <2>2. row.goodsAmount = Part(GoodsOf, M) /\ row.invoiceDiscount = Part(DiscountOf, M)
    BY <2>1
  <2> HIDE DEF g, d
  <2> QED
    BY <1>6, <2>2
<1>9. ASSUME \A r \in M : Plain(receipts[r].bill)
      PROVE  2 * Magnitude(SumFunctionOnSet(d, M) - SumFunctionOnSet(sharedOf, Items))
               <= SumFunctionOnSet(n, M)
  <2>1. \A r \in M : IsSplit(Shares[r], ItemsOf[r])
    <3> TAKE r \in M
    <3> PICK b \in Bills : b = receipts[r].bill
      BY <1>1
    <3>1. \A k \in DOMAIN b.lines : SharesOf(b)[k] \in Int
      BY <1>9, DiscountShared
    <3>2. IsFiniteSet(DOMAIN b.lines) /\ \A k \in DOMAIN b.lines : b.lines[k].item \in Items
      BY NetsWhole
    <3> QED
      BY <1>2, <3>1, <3>2 DEF IsSplit
  <2>2. SumFunctionOnSet(sharedOf, Items) = SumFunctionOnSet(w, M)
    <3>1. sharedOf = [i \in Items |-> ItemTotal(Shares, ItemsOf, M, i)]
      BY ItemDiscounts
    <3> HIDE DEF sharedOf
    <3>2. SumFunctionOnSet([i \in Items |-> ItemTotal(Shares, ItemsOf, M, i)], Items)
            = SumFunctionOnSet([r \in M |-> SumFunctionOnSet(Shares[r], DOMAIN Shares[r])], M)
      BY <1>1, <2>1, ItemTotalsAddUp
    <3> QED
      BY <3>1, <3>2, Zenon
  <2>3. ASSUME NEW r \in M
        PROVE  /\ d[r] \in Int /\ w[r] \in Int /\ n[r] \in Int
               /\ -n[r] <= 2 * d[r] + (-2) * w[r] /\ 2 * d[r] + (-2) * w[r] <= n[r]
    <3> PICK b \in Bills : b = receipts[r].bill
      BY <1>1
    <3> PICK shared : shared = SumFunctionOnSet(SharesOf(b), DOMAIN b.lines)
      OBVIOUS
    <3>1. /\ shared \in Int
          /\ -Len(b.lines) <= 2 * ReceiptDiscount(b) + (-2) * shared
          /\ 2 * ReceiptDiscount(b) + (-2) * shared <= Len(b.lines)
      BY <1>9, DiscountShared
    <3>2. w[r] = shared
      <4>1. w[r] = SumFunctionOnSet(Shares[r], DOMAIN Shares[r])
        OBVIOUS
      <4>2. Shares[r] = SharesOf(b) /\ DOMAIN Shares[r] = DOMAIN b.lines
        BY <1>2
      <4> HIDE DEF w
      <4> QED
        BY <4>1, <4>2
    <3>3. n[r] = Len(b.lines) /\ n[r] \in Nat
      BY NetsWhole
    <3>4. d[r] = ReceiptDiscount(b) /\ d[r] \in Int
      BY <1>1, ReportedWhole DEF DiscountOf
    <3> HIDE DEF d, w, n
    <3> QED
      BY <3>1, <3>2, <3>3, <3>4
  <2>4. /\ \A r \in M : e[r] = 2 * d[r] + (-2) * w[r]
        /\ \A r \in M : neg[r] = -n[r]
    OBVIOUS
  <2> HIDE DEF goodsOf, sharedOf, g, d, w, n, neg, e
  <2>5. SumFunctionOnSet(e, M) = 2 * SumFunctionOnSet(d, M) + (-2) * SumFunctionOnSet(w, M)
    <3>1. \A r \in M : d[r] \in Int /\ w[r] \in Int /\ e[r] = 2 * d[r] + (-2) * w[r]
      BY <2>3, <2>4
    <3> QED
      BY <1>1, <3>1, SumLinear
  <2>6. SumFunctionOnSet(neg, M) = -SumFunctionOnSet(n, M)
    BY <1>1, <2>3, <2>4, SumOpposite
  <2>7. \A r \in M : /\ e[r] \in Int /\ n[r] \in Int /\ neg[r] \in Int
                     /\ neg[r] <= e[r] /\ e[r] <= n[r]
    BY <2>3, <2>4
  <2>8. SumFunctionOnSet(e, M) <= SumFunctionOnSet(n, M)
    BY <1>1, <2>7, SumLeq
  <2>9. SumFunctionOnSet(neg, M) <= SumFunctionOnSet(e, M)
    BY <1>1, <2>7, SumLeq
  <2>10. /\ SumFunctionOnSet(d, M) \in Int /\ SumFunctionOnSet(w, M) \in Int
         /\ SumFunctionOnSet(n, M) \in Int
    BY <1>1, <2>3, SumIntegersOver
  <2> QED
    BY <2>2, <2>5, <2>6, <2>8, <2>9, <2>10 DEF Magnitude
<1> HIDE DEF goodsOf, sharedOf, g, d, w, n, neg, e
<1> PICK shared : shared = SumOver(LAMBDA i : items[i].headerDiscount, Items)
  OBVIOUS
<1> PICK lines : lines = SumOver(LAMBDA r : Len(receipts[r].bill.lines), M)
  OBVIOUS
<1>10. /\ SupplierRow(s, from, to).goodsAmount = SumOver(LAMBDA i : items[i].goodsAmount, Items)
       /\ (\A r \in M : Plain(receipts[r].bill)) =>
            2 * Magnitude(SupplierRow(s, from, to).invoiceDiscount - shared) <= lines
  BY <1>5, <1>7, <1>8, <1>9
<1> QED
  BY <1>10, Zenon DEF ItemsAddUp


\* The quantities on the lines of a return and their items.
Quantities == [t \in Returns |-> [k \in DOMAIN returns[t].bill.lines |-> BaseQty(returns[t].bill.lines[k])]]
ReturnedItems == [t \in Returns |-> [k \in DOMAIN returns[t].bill.lines |-> returns[t].bill.lines[k].item]]

LEMMA ReturnsHold ==
  ASSUME StoreInv, NEW s
  PROVE  ReturnsLeftStock(s)
<1> PICK B : B = PostedReturns(s)
  OBVIOUS
<1> DEFINE q(i) == [t \in B |-> QtyIn(returns[t].bill.lines, i)]
           m(i) == [t \in B |-> moved[t][i]]
           left(i) == - SumOver(LAMBDA t : moved[t][i], PostedReturns(s))
           total == [i \in Items |-> left(i)]
<1>1. B \subseteq Returns /\ IsFiniteSet(B)
  <2>1. IsFiniteSet(Returns)
    BY DocsAssumption, FS_Subset DEF Docs
  <2> QED
    BY <2>1, FS_Subset DEF PostedReturns
<1>2. \A t \in B : /\ returns[t] # NoDoc /\ returns[t].status = "POSTED"
                   /\ returns[t].bill \in ReturnBills
                   /\ returns[t].bill.lines \in Seq(ReturnLine)
  <2>1. \A t \in Returns : returns[t] # NoDoc => returns[t].bill \in ReturnBills
    BY StoreTypes DEF Return
  <2>2. \A b \in ReturnBills : b.lines \in Seq(ReturnLine)
    BY ReturnBillsAssumption
  <2> QED
    BY <1>1, <2>1, <2>2 DEF PostedReturns, ReturnIs
<1>3. ASSUME NEW i \in Items
      PROVE  \A t \in B : q(i)[t] \in Int /\ m(i)[t] = -q(i)[t]
  <2>1. \A t \in B : moved[t][i] = -QtyIn(returns[t].bill.lines, i)
    BY <1>1, <1>2 DEF StoreInv, Supplied, ReturnMoved
  <2>2. \A t \in B : QtyIn(returns[t].bill.lines, i) \in Nat
    BY <1>2, LinesOfReturn
  <2> QED
    BY <2>1, <2>2
<1>4. ASSUME NEW i \in Items
      PROVE  /\ ReturnItemRow(s, i).returnBaseQty = SumFunctionOnSet(q(i), B)
             /\ left(i) = SumFunctionOnSet(q(i), B)
             /\ SumFunctionOnSet(q(i), B) \in Int
  <2>1. ReturnItemRow(s, i).returnBaseQty = SumFunctionOnSet(q(i), B)
    BY DEF ReturnItemRow, SumOver, SumFunction
  <2>2. left(i) = -SumFunctionOnSet(m(i), B)
    BY DEF SumOver, SumFunction
  <2> PICK f : f = q(i)
    OBVIOUS
  <2> PICK h : h = m(i)
    OBVIOUS
  <2>3. \A t \in B : f[t] \in Int /\ h[t] = -f[t]
    BY <1>3
  <2>4. SumFunctionOnSet(h, B) = -SumFunctionOnSet(f, B) /\ SumFunctionOnSet(f, B) \in Int
    BY <1>1, <2>3, SumOpposite, SumIntegersOver
  <2>5. SumFunctionOnSet(m(i), B) = -SumFunctionOnSet(q(i), B) /\ SumFunctionOnSet(q(i), B) \in Int
    BY <2>4
  <2> HIDE DEF q, m, left
  <2> QED
    BY <2>1, <2>2, <2>5
<1>5. ASSUME NEW t \in B, NEW v, v = Quantities[t], NEW it, it = ReturnedItems[t]
      PROVE  /\ IsSplit(v, it)
             /\ \A i \in Items : Share(v, it, i) = QtyIn(returns[t].bill.lines, i)
  <2> PICK lines \in Seq(ReturnLine) : lines = returns[t].bill.lines
    BY <1>2
  <2>1. IsFiniteSet(DOMAIN lines) /\ \A k \in DOMAIN lines : lines[k] \in ReturnLine
    BY LinesOfReturn
  <2>2. /\ DOMAIN v = DOMAIN lines
        /\ \A k \in DOMAIN lines : v[k] = BaseQty(lines[k]) /\ it[k] = lines[k].item
    BY <1>1, <1>5 DEF Quantities, ReturnedItems
  <2>3. \A k \in DOMAIN lines : BaseQty(lines[k]) \in Int /\ lines[k].item \in Items
    <3> SUFFICES ASSUME NEW l, l \in ReturnLine PROVE BaseQty(l) \in Int /\ l.item \in Items
      BY <2>1
    <3>1. l.qty \in Nat /\ l.factor \in Nat /\ l.item \in Items
      BY DEF ReturnLine
    <3> QED
      BY <3>1 DEF BaseQty
  <2>4. ASSUME NEW i \in Items PROVE Share(v, it, i) = QtyIn(lines, i)
    <3>1. [k \in DOMAIN v |-> IF it[k] = i THEN v[k] ELSE 0]
            = [k \in DOMAIN lines |-> IF lines[k].item = i THEN BaseQty(lines[k]) ELSE 0]
      BY <2>2
    <3>2. QtyIn(lines, i)
            = SumFunctionOnSet([k \in DOMAIN lines |-> IF lines[k].item = i THEN BaseQty(lines[k]) ELSE 0],
                               DOMAIN lines)
      BY DEF QtyIn, SumOf, SumOver, SumFunction
    <3>3. DOMAIN v = DOMAIN lines
      BY <2>2
    <3> QED
      BY <3>1, <3>2, <3>3, Zenon DEF Share
  <2> QED
    BY <2>1, <2>2, <2>3, <2>4 DEF IsSplit
<1>6. SumFunctionOnSet([i \in Items |-> ItemTotal(Quantities, ReturnedItems, B, i)], Items)
        = SumFunctionOnSet([t \in B |-> SumFunctionOnSet(Quantities[t], DOMAIN Quantities[t])], B)
  BY <1>1, <1>5, ItemTotalsAddUp
<1>7. \A i \in Items : ItemTotal(Quantities, ReturnedItems, B, i) = SumFunctionOnSet(q(i), B)
  <2> TAKE i \in Items
  <2>1. [t \in B |-> Share(Quantities[t], ReturnedItems[t], i)] = q(i)
    BY <1>5
  <2> HIDE DEF q
  <2> QED
    BY <2>1, Zenon DEF ItemTotal
<1>8. ReturnRow(s).returnQtyBase
        = SumFunctionOnSet([t \in B |-> SumFunctionOnSet(Quantities[t], DOMAIN Quantities[t])], B)
  <2> DEFINE part(t) == SumFunctionOnSet([k \in DOMAIN returns[t].bill.lines |->
                                            BaseQty(returns[t].bill.lines[k])],
                                         DOMAIN returns[t].bill.lines)
  <2>1. ReturnRow(s).returnQtyBase = SumFunctionOnSet([t \in B |-> part(t)], B)
    BY DEF ReturnRow, SumOver, SumOf, SumFunction
  <2>2. \A t \in B : part(t) = SumFunctionOnSet(Quantities[t], DOMAIN Quantities[t])
    <3> TAKE t \in B
    <3>1. Quantities[t] = [k \in DOMAIN returns[t].bill.lines |-> BaseQty(returns[t].bill.lines[k])]
      BY <1>1 DEF Quantities
    <3>2. DOMAIN Quantities[t] = DOMAIN returns[t].bill.lines
      BY <3>1
    <3> QED
      BY <3>1, <3>2, Zenon
  <2> HIDE DEF part
  <2>3. [t \in B |-> part(t)] = [t \in B |-> SumFunctionOnSet(Quantities[t], DOMAIN Quantities[t])]
    BY <2>2
  <2> QED
    BY <2>1, <2>3, Zenon
<1>9. total = [i \in Items |-> ItemTotal(Quantities, ReturnedItems, B, i)]
  <2> HIDE DEF q, left
  <2> QED
    BY <1>4, <1>7
<1>10. SumOver(left, Items) = SumFunctionOnSet(total, Items)
  BY DEF SumOver, SumFunction
<1>11. ReturnRow(s).returnQtyBase = SumOver(left, Items)
  <2> HIDE DEF left, total
  <2> QED
    BY <1>6, <1>8, <1>9, <1>10, Zenon
<1>12. \A i \in Items : ReturnItemRow(s, i).returnBaseQty = left(i)
  BY <1>4
<1> QED
  BY <1>11, <1>12, Zenon DEF ReturnsLeftStock

\* What the lines of a return say is refunded is the return's refund, unless it
\* was amended.
Told(row) ==
  /\ DOMAIN row.each = DOMAIN row.bill.lines
  /\ ~ row.amended => SumFunctionOnSet(row.each, DOMAIN row.each) = row.refund

LinesTell == \A t \in Returns : returns[t] # NoDoc => Told(returns[t])

LEMMA NewIsTold ==
  ASSUME NEW b \in ReturnBills, NEW status, NEW paid \in Payments, NEW debt, paid <= RefundDue(b)
  PROVE  Told(NewReturn(status, b, paid, debt))
<1>1. RefundDue(b) >= 0
  BY BoundsAssumption, RefundDueWhole
<1>2. /\ DOMAIN LineRefunds(b) = DOMAIN b.lines
      /\ SumFunctionOnSet(LineRefunds(b), DOMAIN b.lines) = RefundDue(b)
  BY <1>1, LineRefundsAddUp
<1> PICK row : row = NewReturn(status, b, paid, debt)
  OBVIOUS
<1>3. row.each = LineRefunds(b) /\ row.bill = b /\ row.refund = RefundDue(b)
  BY DEF NewReturn
<1>4. Told(row)
  BY <1>2, <1>3 DEF Told
<1> QED
  BY <1>4

\* A row whose lines, their refunds and, unless amended, its refund stay.
LEMMA StillTold ==
  ASSUME NEW old, Told(old), NEW row, row.each = old.each, row.bill.lines = old.bill.lines,
         ~ row.amended => ~ old.amended /\ row.refund = old.refund
  PROVE  Told(row)
BY DEF Told

LEMMA TellStep ==
  ASSUME StoreInv, LinesTell, [Next]_vars
  PROVE  LinesTell'
<1>0. returns \in [Returns -> Return \cup {NoDoc}]
  BY StoreTypes
<1>1. CASE UNCHANGED returns
  BY <1>1 DEF LinesTell
<1>2. ASSUME NEW t \in Returns, NEW row, row = NoDoc \/ Told(row),
             returns' = [returns EXCEPT ![t] = row]
      PROVE  LinesTell'
  BY <1>0, <1>2 DEF LinesTell
<1>3. ASSUME NEW t \in Returns, NEW b \in ReturnBills, NEW paid \in Payments,
             \/ CreateReturnDraft(t, b, paid) \/ CreateStandalone(t, b, paid)
             \/ EditReturnDraft(t, b, paid)
      PROVE  LinesTell'
  <2> PICK status, debt : returns' = [returns EXCEPT ![t] = NewReturn(status, b, paid, debt)]
    BY <1>3 DEF CreateReturnDraft, CreateStandalone, EditReturnDraft
  <2>1. paid <= RefundDue(b)
    BY <1>3 DEF CreateReturnDraft, CreateStandalone, EditReturnDraft
  <2>2. Told(NewReturn(status, b, paid, debt))
    BY <2>1, NewIsTold
  <2> QED
    BY <1>2, <2>2
<1>4. ASSUME NEW t \in Returns, NEW b \in ReturnBills, NEW paid \in Payments, EditReturnTerms(t, b, paid)
      PROVE  LinesTell'
  <2> PICK row : row = Terms(t, b, paid)
    OBVIOUS
  <2> PICK old : old = returns[t]
    OBVIOUS
  <2>1. /\ row.bill = b /\ row.refund = RefundDue(b)
        /\ row.each = old.each /\ row.amended = Amended(t, RefundDue(b))
    BY <1>4, TermsIs
  <2>2. /\ returns' = [returns EXCEPT ![t] = row] /\ b.lines = old.bill.lines /\ old # NoDoc
    BY <1>4 DEF EditReturnTerms, ReturnIs, Terms
  <2>3. ~ row.amended => ~ old.amended /\ row.refund = old.refund
    BY <2>1 DEF Amended
  <2>4. Told(old)
    BY <2>2 DEF LinesTell
  <2>5. Told(row)
    BY <2>1, <2>2, <2>3, <2>4, StillTold
  <2> QED
    BY <1>2, <2>2, <2>5
<1>5. ASSUME NEW t \in Returns, PostReturn(t) \/ CancelReturn(t) PROVE LinesTell'
  <2> PICK old : old = returns[t]
    OBVIOUS
  <2> PICK status : returns' = [returns EXCEPT ![t] = [old EXCEPT !.status = status]]
    BY <1>5 DEF PostReturn, CancelReturn
  <2>1. old \in Return /\ old # NoDoc
    BY <1>0, <1>5 DEF PostReturn, CancelReturn, ReturnIs
  <2> PICK row : row = [old EXCEPT !.status = status]
    OBVIOUS
  <2>2. row.each = old.each /\ row.bill = old.bill /\ row.amended = old.amended /\ row.refund = old.refund
    BY <2>1 DEF Return
  <2>3. Told(row)
    BY <2>1, <2>2, StillTold DEF LinesTell
  <2> QED
    BY <1>2, <2>3
<1>6. ASSUME NEW t \in Returns, NEW refund \in Payments, NEW paid \in Payments, Settle(t, refund, paid)
      PROVE  LinesTell'
  <2> PICK old : old = returns[t]
    OBVIOUS
  <2> PICK am : am = Amended(t, refund)
    OBVIOUS
  <2> PICK row : row = Other(old, refund, paid, refund - paid, am)
    OBVIOUS
  <2>1. old \in Return /\ old # NoDoc
    BY <1>0, <1>6 DEF Settle, ReturnIs
  <2>2. row = [status |-> old.status, bill |-> old.bill, refund |-> refund, paid |-> paid,
               debt |-> refund - paid, each |-> old.each, amended |-> am]
    BY <2>1, OtherIs
  <2>3. row.each = old.each /\ row.bill = old.bill /\ row.amended = am /\ row.refund = refund
    BY <2>2
  <2>4. ~ am => ~ old.amended /\ refund = old.refund
    BY DEF Amended
  <2>5. Told(row)
    BY <2>1, <2>3, <2>4, StillTold DEF LinesTell
  <2>6. returns' = [returns EXCEPT ![t] = row]
    BY <1>6 DEF Settle, Other
  <2> QED
    BY <1>2, <2>5, <2>6
<1>7. ASSUME NEW t \in Returns, RemoveDraft(t) PROVE LinesTell'
  BY <1>2, <1>7 DEF RemoveDraft
<1>8. ASSUME NEW w \in Workers, SyncReturnPaidAmount(w) PROVE LinesTell'
  <2> PICK t \in Returns : t = call[w]
    BY <1>8 DEF SyncReturnPaidAmount
  <2> PICK old : old = returns[t]
    OBVIOUS
  <2> PICK paid : \/ UNCHANGED returns
                  \/ Exists(t) /\ returns' = [returns EXCEPT ![t] = [old EXCEPT !.paid = paid]]
    BY <1>8 DEF SyncReturnPaidAmount
  <2> SUFFICES ASSUME Exists(t), returns' = [returns EXCEPT ![t] = [old EXCEPT !.paid = paid]]
               PROVE  LinesTell'
    BY <1>1
  <2>1. old \in Return /\ old # NoDoc
    BY <1>0, DocsAssumption DEF Exists
  <2> PICK row : row = [old EXCEPT !.paid = paid]
    OBVIOUS
  <2>2. row.each = old.each /\ row.bill = old.bill /\ row.amended = old.amended /\ row.refund = old.refund
    BY <2>1 DEF Return
  <2>3. Told(row)
    BY <2>1, <2>2, StillTold DEF LinesTell
  <2> QED
    BY <1>2, <2>3
<1>9. CASE ReturnsNext
  BY <1>3, <1>4, <1>5, <1>6, <1>7, <1>9 DEF ReturnsNext
<1>10. CASE CashbookNext
  <2>1. \/ \E w \in Workers : SyncReturnPaidAmount(w)
        \/ UNCHANGED returns
    BY <1>10 DEF CashbookNext, CreateCashBookEntry, UpdateEntry, SyncReceiptDebt, Crash
  <2> QED
    BY <1>1, <1>8, <2>1
<1> QED
  BY <1>1, <1>9, <1>10 DEF Next, vars

LEMMA TellAlways == Spec => []LinesTell
<1>1. Init => LinesTell
  BY DEF Init, ReturnsInit, LinesTell
<1>2. StoreInv /\ LinesTell /\ [Next]_vars => LinesTell'
  BY TellStep
<1> QED
  BY <1>1, <1>2, StoreAlways, PTL DEF Spec

\* The refunds on the lines of a return.
Refunds == [t \in Returns |-> returns[t].each]

LEMMA RefundsHold ==
  ASSUME StoreInv, LinesTell, NEW s
  PROVE  RefundsAgree(s)
<1> PICK B : B = PostedReturns(s)
  OBVIOUS
<1> SUFFICES ASSUME \A t \in B : ~ returns[t].amended
             PROVE  SumOver(LAMBDA i : ReturnItemRow(s, i).refundAmount, Items) = ReturnRow(s).returnAmount
  BY Zenon DEF RefundsAgree
<1>1. B \subseteq Returns /\ IsFiniteSet(B)
  <2>1. IsFiniteSet(Returns)
    BY DocsAssumption, FS_Subset DEF Docs
  <2> QED
    BY <2>1, FS_Subset DEF PostedReturns
<1>2. \A t \in B : returns[t] \in Return /\ Told(returns[t])
  BY <1>1, StoreTypes DEF PostedReturns, ReturnIs, LinesTell
<1>3. ASSUME NEW t \in B, NEW v, v = Refunds[t], NEW it, it = ReturnedItems[t]
      PROVE  /\ IsSplit(v, it)
             /\ \A i : Share(v, it, i) = RefundOf(returns[t], i)
             /\ SumFunctionOnSet(v, DOMAIN v) = returns[t].refund /\ returns[t].refund \in Int
  <2> PICK row \in Return : row = returns[t]
    BY <1>2
  <2>1. row.bill \in ReturnBills /\ row.each \in Seq(Nat) /\ row.refund \in Nat
    BY ReturnStands
  <2> PICK lines \in Seq(ReturnLine) : lines = row.bill.lines
    BY <2>1, ReturnBillsAssumption
  <2>2. IsFiniteSet(DOMAIN lines) /\ \A k \in DOMAIN lines : lines[k] \in ReturnLine
    BY LinesOfReturn
  <2>3. /\ v = row.each /\ DOMAIN v = DOMAIN lines
        /\ \A k \in DOMAIN lines : it[k] = lines[k].item
    BY <1>1, <1>2, <1>3 DEF Refunds, ReturnedItems, Told
  <2>4. \A k \in DOMAIN lines : v[k] \in Int /\ it[k] \in Items
    <3>1. \A l \in ReturnLine : l.item \in Items
      BY DEF ReturnLine
    <3>2. \A k \in DOMAIN v : v[k] \in Nat
      BY <2>1, <2>3
    <3> QED
      BY <2>2, <2>3, <3>1, <3>2
  <2>5. ASSUME NEW i PROVE Share(v, it, i) = RefundOf(row, i)
    <3>1. [k \in DOMAIN v |-> IF it[k] = i THEN v[k] ELSE 0]
            = [k \in DOMAIN lines |-> IF lines[k].item = i THEN row.each[k] ELSE 0]
      BY <2>3
    <3>2. RefundOf(row, i)
            = SumFunctionOnSet([k \in DOMAIN lines |-> IF lines[k].item = i THEN row.each[k] ELSE 0],
                               DOMAIN lines)
      BY DEF RefundOf, SumOver, SumFunction
    <3>3. DOMAIN v = DOMAIN lines
      BY <2>3
    <3> QED
      BY <3>1, <3>2, <3>3, Zenon DEF Share
  <2>6. SumFunctionOnSet(v, DOMAIN v) = row.refund
    BY <1>2, <2>3 DEF Told
  <2> QED
    BY <2>1, <2>2, <2>3, <2>4, <2>5, <2>6 DEF IsSplit
<1>4. SumFunctionOnSet([i \in Items |-> ItemTotal(Refunds, ReturnedItems, B, i)], Items)
        = SumFunctionOnSet([t \in B |-> SumFunctionOnSet(Refunds[t], DOMAIN Refunds[t])], B)
  BY <1>1, <1>3, ItemTotalsAddUp
<1>5. ASSUME NEW i \in Items
      PROVE  ReturnItemRow(s, i).refundAmount = ItemTotal(Refunds, ReturnedItems, B, i)
  <2>1. ReturnItemRow(s, i).refundAmount = SumFunctionOnSet([t \in B |-> RefundOf(returns[t], i)], B)
    BY DEF ReturnItemRow, SumOver, SumFunction
  <2>2. [t \in B |-> RefundOf(returns[t], i)] = [t \in B |-> Share(Refunds[t], ReturnedItems[t], i)]
    BY <1>3
  <2> QED
    BY <2>1, <2>2, Zenon DEF ItemTotal
<1> DEFINE per == [i \in Items |-> ReturnItemRow(s, i).refundAmount]
<1>6. SumOver(LAMBDA i : ReturnItemRow(s, i).refundAmount, Items) = SumFunctionOnSet(per, Items)
  BY DEF SumOver, SumFunction
<1>7. per = [i \in Items |-> ItemTotal(Refunds, ReturnedItems, B, i)]
  BY <1>5
<1>8. ReturnRow(s).returnAmount = SumFunctionOnSet([t \in B |-> returns[t].refund], B)
  BY DEF ReturnRow, SumOver, SumFunction
<1>9. [t \in B |-> returns[t].refund] = [t \in B |-> SumFunctionOnSet(Refunds[t], DOMAIN Refunds[t])]
  BY <1>3
<1> HIDE DEF per
<1> QED
  BY <1>4, <1>6, <1>7, <1>8, <1>9, Zenon

\* The purchase reports reconcile with each other, with the receipts and with
\* the stock, at every moment, and as to refunds with those returns that were not
\* amended (report.service, purchases and returns).
THEOREM ReportsAlwaysReconcile == Spec => []ReportsReconcile
<1>1. StoreInv /\ LinesTell => ReportsReconcile
  BY TotalsHold, ItemsHold, ReturnsHold, RefundsHold DEF ReportsReconcile
<1> QED
  BY <1>1, StoreAlways, TellAlways, PTL

=============================================================================
