---------------------------- MODULE MCSettlement ----------------------------
(***************************************************************************)
(* Instances of Settlement for TLC.                                        *)
(***************************************************************************)
EXTENDS Settlement, TLC

\* A bill that starts empty, grows, and is undercut by a new menu price.
SomeBills == {[worth |-> 0, hidden |-> 0], [worth |-> 6, hidden |-> 0],
              [worth |-> 6, hidden |-> 2]}

\* An order that is empty when its invoice is opened, or grows afterwards.
TwoBills == {[worth |-> 0, hidden |-> 0], [worth |-> 6, hidden |-> 0]}

\* A coupon on the whole order, and an automatic discount on a dish.
Coupon == "coupon"
DishOfTheDay == "dish"
SomePromo ==
  [p \in {Coupon, DishOfTheDay} |->
     IF p = Coupon
     THEN [kind |-> "PERCENT", value |-> 50, cap |-> 2, min |-> 4, scope |-> "ORDER"]
     ELSE [kind |-> "AMOUNT", value |-> 1, cap |-> 0, min |-> 0, scope |-> "ITEM"]]
BothPromotions == DOMAIN SomePromo
NoPromotions == {}
NoPromo == [p \in {} |-> 0]

WorkerSymmetry == Permutations(Workers)
CounterSymmetry == Permutations(Workers) \cup Permutations(Transfers)

OneAtATime == {"open", "pay", "link", "mark", "promote", "status"}
CounterEndpoints == {"open", "pay", "link", "cancel", "mark", "status"}

=============================================================================
