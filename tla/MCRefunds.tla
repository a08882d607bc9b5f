----------------------------- MODULE MCRefunds ------------------------------
(***************************************************************************)
(* The instance of sales, returns and sales reports for TLC.               *)
(***************************************************************************)
EXTENDS SalesReports, TLC

Line(dish, qty, price) == [dish |-> dish, qty |-> qty, price |-> price]

\* A known customer's order under two promotions, and a walk-in's of one dish.
SomeOrders ==
  [i \in {"A", "B"} |->
     IF i = "A"
     THEN [lines |-> <<Line("crab", 2, 2), Line("rice", 1, 4)>>, struck |-> [l \in {2} |-> 2],
           creator |-> "waiter", customer |-> "lan",
           promos |-> <<[applyWith |-> "ORDER", amount |-> 2],
                        [applyWith |-> "ITEM", dishes |-> {"rice"}, amount |-> 1]>>]
     ELSE [lines |-> <<Line("rice", 1, 3)>>, struck |-> [l \in {} |-> 0], creator |-> "waiter", customer |-> Nothing,
           promos |-> <<>>]]

\* Rice is kept in the kitchen's unit, three base units each.
SomeRecipes ==
  [d \in {"crab", "rice"} |->
     IF d = "crab" THEN <<[item |-> "meat", quantity |-> 2, selected |-> 0, factor |-> 0]>>
     ELSE <<[item |-> "meat", quantity |-> 1, selected |-> 0, factor |-> 0],
            [item |-> "grain", quantity |-> 0, selected |-> 1, factor |-> 3]>>]

SomePayments == {[method |-> "CASH", amount |-> 3], [method |-> "VIETQR", amount |-> 9]}

Empty == [x \in {"meat", "grain"} |-> 0]
Costs == [x \in {"meat", "grain"} |-> 1]

\* One line of an order, both, and one line twice.
SomeRequests ==
  {<<[line |-> 1, qty |-> 1]>>, <<[line |-> 1, qty |-> 2], [line |-> 2, qty |-> 1]>>,
   <<[line |-> 1, qty |-> 1], [line |-> 1, qty |-> 2]>>}

CashierSymmetry == Permutations(Cashiers)

=============================================================================
