------------------------------ MODULE MCSupply ------------------------------
(***************************************************************************)
(* The instance of purchases, returns and cashbook for TLC.                *)
(***************************************************************************)
EXTENDS PurchaseReports, TLC

Amount(v) == [type |-> "AMOUNT", value |-> v]
Percent(v) == [type |-> "PERCENT", value |-> v]
Line(i, qty, factor, price, disc) ==
  [item |-> i, qty |-> qty, factor |-> factor, price |-> price, disc |-> disc]

\* A case of twelve and a few singles of another day and supplier; on the
\* second the shipping is more than the discount leaves of the goods.  The
\* discount of the return does not divide evenly between its lines.
SomeBills ==
  {[supplier |-> "s1", day |-> 1, disc |-> Percent(10), ship |-> 1,
    lines |-> <<Line("fish", 1, 3, 8, Amount(1)), Line("crab", 1, 1, 4, Percent(25))>>],
   [supplier |-> "s2", day |-> 2, disc |-> Amount(4), ship |-> 2,
    lines |-> <<Line("fish", 2, 1, 2, Amount(0))>>]}

SomeReturnBills ==
  {[supplier |-> "s1", day |-> 3, disc |-> Amount(1),
    lines |-> <<[item |-> "fish", qty |-> 1, factor |-> 2, price |-> 2],
                [item |-> "crab", qty |-> 1, factor |-> 1, price |-> 2]>>]}

NothingYet == [i \in {"fish", "crab"} |-> [qty |-> 0, avg |-> 0]]

ReceiptSymmetry == Permutations(Receipts)

=============================================================================
