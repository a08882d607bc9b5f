----------------------------- MODULE MCCatalogue -----------------------------
(***************************************************************************)
(* A small catalogue: cans, six-packs and boxes of beer, a dish that takes *)
(* two cans, a dish in six-packs, a combo of the first, a promotion that   *)
(* is on.                                                                  *)
(***************************************************************************)
EXTENDS BackOffice

CountUnit == [dim |-> "count", base |-> "can", active |-> TRUE]

TwoCans == [uom |-> "can", chosen |-> 2000, qty |-> 2000, direct |-> 1, mixed |-> FALSE]
OneSix == [uom |-> "six", chosen |-> 1000, qty |-> 6000, direct |-> 6, mixed |-> FALSE]

\* A six and a can come to 1.167 sixes, which are more than seven cans.
MCRecipes ==
  {<<>>,
   <<[good |-> "beer", chosen |-> 2000, uom |-> "can"], [good |-> "beer", chosen |-> 1000, uom |-> "six"]>>,
   <<[good |-> "beer", chosen |-> 1000, uom |-> "six"], [good |-> "beer", chosen |-> 1000, uom |-> "can"]>>,
   <<[good |-> "beer", chosen |-> 1000, uom |-> "box"]>>,
   <<[good |-> "ice", chosen |-> 1000, uom |-> "kg"]>>}

MCSides == {{}, {"lager"}, {"stein"}, {"party"}}

PercentOff == [kind |-> "PERCENT", value |-> 30, cap |-> 25, min |-> 0, scope |-> "ITEM"]
AmountOff == [kind |-> "AMOUNT", value |-> 40, cap |-> 10, min |-> 150, scope |-> "CATEGORY"]
BillOff == [kind |-> "PERCENT", value |-> 50, cap |-> 0, min |-> 0, scope |-> "ORDER"]
MCTerms == {PercentOff, AmountOff, BillOff}

Always == [from |-> 0, until |-> Nothing, days |-> {}, opens |-> Nothing, closes |-> Nothing]
Sundays == [from |-> 0, until |-> 2, days |-> {1, 7}, opens |-> 600, closes |-> 720]
MCWindows == {Always, Sundays}

MCMoments == {[at |-> 1, dow |-> 0, minute |-> 720], [at |-> 2, dow |-> 6, minute |-> 500],
              [at |-> 3, dow |-> 0, minute |-> 660]}

MCOpening ==
  [units |-> [u \in Codes |-> IF u = "kg" THEN Nothing ELSE CountUnit],
   conv |-> [x \in Codes \X Codes |-> CASE x = <<"six", "can">> -> 6
                                        [] x = <<"box", "six">> -> 4
                                        [] OTHER -> 0],
   goods |-> [g \in Goods |-> IF g = "beer" THEN [base |-> "can", held |-> FALSE, active |-> TRUE, cat |-> Nothing]
                              ELSE Nothing],
   recipes |-> [x \in Dishes \X Goods |-> CASE x = <<"lager", "beer">> -> TwoCans
                                            [] x = <<"stein", "beer">> -> OneSix
                                            [] OTHER -> Nothing],
   categories |-> [c \in Categories |-> IF c = "drinks" THEN [name |-> "n1", type |-> "MENU", active |-> TRUE]
                                        ELSE Nothing],
   dishes |-> [d \in Dishes |->
                 CASE d = "party" -> [combo |-> TRUE, cat |-> Nothing, price |-> 200, available |-> TRUE]
                   [] d \in {"lager", "stein"} -> [combo |-> FALSE, cat |-> "drinks", price |-> 100, available |-> TRUE]
                   [] OTHER -> Nothing],
   parts |-> {<<"party", "lager">>},
   promos |-> [p \in Promos |->
                 IF p = "p1" THEN [terms |-> AmountOff, window |-> Always, code |-> "k1", dishes |-> {},
                                   cats |-> {"drinks"}, active |-> TRUE, deleted |-> FALSE]
                 ELSE Nothing]]

=============================================================================
