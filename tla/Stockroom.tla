------------------------------ MODULE Stockroom ------------------------------
(***************************************************************************)
(* What the purchasing desk and the cashbook share: the stock of           *)
(* ingredients with its average cost, the inventory transactions logged    *)
(* for a document and the cashbook.                                        *)
(*                                                                         *)
(* Requests are served one after the other, each transaction a step: the   *)
(* code locks nothing here and two at a time may overwrite each other.  A  *)
(* manual entry is the exception: it is stored in one transaction and its  *)
(* document brought up to date in a second.                                *)
(*                                                                         *)
(* Amounts are whole units of money and quantities whole base units; an    *)
(* average cost is in hundredths, as the database stores it.               *)
(***************************************************************************)
EXTENDS Integers, FiniteSetsExt, SequencesExt

CONSTANTS
  Workers,     \* the manual cashbook entries in flight at one time
  Items,       \* stock items
  Receipts,    \* ids of purchase receipts
  Returns,     \* ids of purchase returns
  Opening,     \* Opening[i]: [qty, avg] of an item before the first document
  MaxEntries,  \* bound on the vouchers of the cashbook
  Payments,    \* the amounts clients enter
  NoDoc        \* no document

VARIABLES
  stock,     \* inventory_items: quantity and average cost
  moved,     \* inventory_transactions, summed by document and item
  cashbook,  \* cashbook_entries, a bag: their order is of no account
  drift,     \* documents that a step left apart from their vouchers
  call       \* the document each worker is about to bring up to date

Docs == Receipts \cup Returns

ASSUME OpeningAssumption ==
  IsFiniteSet(Items) /\ Opening \in [Items -> [qty : Nat, avg : Nat]]
ASSUME DocsAssumption ==
  IsFiniteSet(Docs) /\ Receipts \cap Returns = {} /\ NoDoc \notin Docs
ASSUME BoundsAssumption == MaxEntries \in Nat /\ Payments \subseteq Nat

\* An entry's category, party and dates are left out; `doc' is the one source
\* it may have among receipts and returns.
Voucher == [type : {"RECEIPT", "PAYMENT"}, doc : Docs \cup {NoDoc}, amount : Int]

DiscountTerms == [type : {"PERCENT", "AMOUNT"}, value : Nat]

----------------------------------------------------------------------------
(* Money and quantities                                                    *)

NotNegative(n) == IF n < 0 THEN 0 ELSE n

Magnitude(n) == IF n < 0 THEN -n ELSE n

\* n/d to the nearest whole number, for n >= 0.
Rounded(n, d) == (2 * n + d) \div (2 * d)

Discount(d, base) == IF d.type = "PERCENT" THEN Rounded(base * d.value, 100) ELSE d.value

SumOver(F(_), S) == SumFunction([x \in S |-> F(x)])

SumOf(seq, F(_)) == SumOver(LAMBDA k : F(seq[k]), DOMAIN seq)

BaseQty(l) == l.qty * l.factor

\* What the lines hold of an item, in its base unit.
QtyIn(lines, i) == SumOf(lines, LAMBDA l : IF l.item = i THEN BaseQty(l) ELSE 0)

----------------------------------------------------------------------------
(* Stock                                                                   *)

\* Seeded fault: the price of a unit as bought is taken for that of a base unit.
ImportedUnconverted(s, l) ==
  LET before == s[l.item].qty
      after  == before + BaseQty(l)
  IN [s EXCEPT ![l.item] =
        [qty |-> after, avg |-> Rounded(before * @.avg + 100 * BaseQty(l) * l.price, after)]]

\* One imported line: the average cost is weighted by the quantities before
\* and after; the line's discount is no part of its cost.
Imported(s, l) ==
  LET before == s[l.item].qty
      after  == before + BaseQty(l)
  IN [s EXCEPT ![l.item] =
        [qty |-> after,
         avg |-> IF after > 0
                 THEN Rounded(before * @.avg + 100 * l.qty * l.price, after)
                 ELSE Rounded(100 * l.price, l.factor)]]

ImportedAll(lines) ==
  LET after[k \in 0..Len(lines)] == IF k = 0 THEN stock ELSE Imported(after[k - 1], lines[k])
  IN after[Len(lines)]

\* Seeded fault: goods leave that are not there.
InStockUnchecked(lines) == lines # <<>>

InStock(lines) == \A i \in Items : QtyIn(lines, i) <= stock[i].qty

Shifted(lines, sign) ==
  [i \in Items |-> [stock[i] EXCEPT !.qty = @ + sign * QtyIn(lines, i)]]

Logged(doc, lines, sign) ==
  [moved EXCEPT ![doc] = [i \in Items |-> @[i] + sign * QtyIn(lines, i)]]

----------------------------------------------------------------------------
(* Vouchers                                                                *)

\* The bound on vouchers, asked for by every step that may store one.
HasRoom == BagCardinality(cashbook) < MaxEntries

Vouched(type, doc, amount) ==
  IF amount = 0 THEN cashbook
  ELSE cashbook (+) SetToBag({[type |-> type, doc |-> doc, amount |-> amount]})

Entries(type, doc) == {e \in BagToSet(cashbook) : e.type = type /\ e.doc = doc}

Total(F(_), entries) == SumOver(LAMBDA e : cashbook[e] * F(e.amount), entries)

Booked(type, doc) == Total(LAMBDA n : n, Entries(type, doc))

NetReceived(doc) == Booked("RECEIPT", doc) - Booked("PAYMENT", doc)

StockroomInit ==
  /\ stock = Opening
  /\ moved = [d \in Docs |-> [i \in Items |-> 0]]
  /\ cashbook = EmptyBag
  /\ drift = {}
  /\ call = [w \in Workers |-> NoDoc]

=============================================================================
