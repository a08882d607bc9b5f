----------------------------- MODULE Promotions ------------------------------
(***************************************************************************)
(* The administration of promotions and the prices the menu shows:         *)
(* promotions.service.ts, set against what applyPromotions of              *)
(* invoice.service.ts grants on a bill.                                    *)
(***************************************************************************)
EXTENDS Menu, Pricing

CONSTANTS
  Promos,
  PromoCodes,  \* codes, all with their KM- in front
  Terms,       \* [kind, value, cap, min, scope]
  Windows,     \* [from, until, days, opens, closes]; until, opens may be Nothing
  Moments      \* [at, dow, minute], in the order of `at'

PromoRow == [terms : Terms, window : Windows, code : PromoCodes, dishes : SUBSET Dishes,
             cats : SUBSET Categories, active : BOOLEAN, deleted : BOOLEAN]

ASSUME PromotionsAssumption ==
  /\ \A t \in Terms : t.value \in Nat /\ t.cap \in Nat /\ t.min \in Nat /\ (t.kind = "PERCENT" => t.value <= 100)
  /\ Nothing \notin PromoRow

VARIABLES
  promos,      \* Promos -> [terms, window, code, dishes, cats, active, deleted], or Nothing
  now          \* the moment it is

promoVars == <<promos, now>>

Live(p) == promos[p] # Nothing /\ promos[p].active /\ ~promos[p].deleted

\* The dishes named by promotions, deleted ones too.
Promoted == UNION {IF promos[p] = Nothing THEN {} ELSE promos[p].dishes : p \in Promos}

(***************************************************************************)
(* Administration.                                                         *)
(***************************************************************************)
\* applyWithValidate and resolveRelations: a list of its own scope, not empty,
\* of rows that exist.
Scoped(terms, ds, cs) ==
  /\ \A d \in ds : dishes[d] # Nothing
  /\ \A c \in cs : categories[c] # Nothing
  /\ (ds # {}) = (terms.scope = "ITEM")
  /\ (cs # {}) = (terms.scope = "CATEGORY")

CodeFree(p, code) == \A q \in Promos \ {p} : promos[q] # Nothing => promos[q].code # code

Orderly(window) == window.until # Nothing => window.from <= window.until

CreatePromotion(p, terms, window, code, ds, cs) ==
  /\ promos[p] = Nothing
  /\ CodeFree(p, code) /\ Orderly(window) /\ Scoped(terms, ds, cs)
  /\ promos' = [promos EXCEPT ![p] = [terms |-> terms, window |-> window, code |-> code,
                                      dishes |-> ds, cats |-> cs, active |-> FALSE, deleted |-> FALSE]]
  /\ UNCHANGED <<now, unitVars, listVars, menuVars>>

\* A promotion that runs, or one that is deleted, is rewritten like any other.
UpdatePromotion(p, terms, window, code, ds, cs) ==
  /\ promos[p] # Nothing
  /\ CodeFree(p, code) /\ Orderly(window) /\ Scoped(terms, ds, cs)
  /\ promos' = [promos EXCEPT ![p] = [terms |-> terms, window |-> window, code |-> code,
                                      dishes |-> ds, cats |-> cs,
                                      active |-> @.active, deleted |-> @.deleted]]
  /\ UNCHANGED <<now, unitVars, listVars, menuVars>>

Between(window) == window.from <= now.at /\ (window.until # Nothing => now.at <= window.until)

ActivatePromotion(p, on) ==
  /\ promos[p] # Nothing /\ ~promos[p].deleted
  /\ on => Between(promos[p].window)
  /\ promos' = [promos EXCEPT ![p].active = on]
  /\ UNCHANGED <<now, unitVars, listVars, menuVars>>

SoftDeletePromotion(p) ==
  /\ promos[p] # Nothing /\ ~promos[p].deleted /\ ~promos[p].active
  /\ promos' = [promos EXCEPT ![p].deleted = TRUE]
  /\ UNCHANGED <<now, unitVars, listVars, menuVars>>

RestorePromotion(p) ==
  /\ promos[p] # Nothing /\ promos[p].deleted
  /\ promos' = [promos EXCEPT ![p].deleted = FALSE]
  /\ UNCHANGED <<now, unitVars, listVars, menuVars>>

\* The join tables of promotions lose the rows of a dish or category that goes.
Forget(ds, cs) ==
  promos' = [p \in Promos |-> IF promos[p] = Nothing THEN Nothing
                              ELSE [promos[p] EXCEPT !.dishes = @ \ ds, !.cats = @ \ cs]]

Tick ==
  /\ \E m \in Moments :
       /\ m.at > now.at /\ \A n \in Moments : n.at > now.at => m.at <= n.at
       /\ now' = m
  /\ UNCHANGED <<promos, unitVars, listVars, menuVars>>

(***************************************************************************)
(* Prices.                                                                 *)
(***************************************************************************)
\* Days of 0..6 are taken as they are, days of 1..7 are moved down by one; days
\* without 0, 6 and 7 count as 0..6.
WeekDays(days) ==
  IF days \cap {0, 6} # {} \/ days \subseteq 0..6 THEN days ELSE {(d + 6) % 7 : d \in days}

InTimeWindow(window) ==
  /\ Between(window)
  /\ window.days # {} => now.dow \in WeekDays(window.days)
  /\ window.opens # Nothing => now.minute \in window.opens..window.closes

Matches(p, d) ==
  \/ promos[p].terms.scope = "ITEM" /\ d \in promos[p].dishes
  \/ promos[p].terms.scope = "CATEGORY" /\ dishes[d].cat \in promos[p].cats

\* computeDiscount of promotions.service.ts.
MenuDiscount(base, terms) ==
  NotNegative(Lesser(base, IF terms.kind = "PERCENT" THEN Capped((base * terms.value) \div 100, terms.cap)
                           ELSE Lesser(base, terms.value)))

Largest(S) == CHOOSE x \in S : \A y \in S : y <= x

\* Seeded fault: the least order of a promotion is not looked at.
BestDiscountAnyOrder(d) ==
  Largest({0} \cup {MenuDiscount(dishes[d].price, promos[p].terms) :
                      p \in {q \in Promos : Live(q) /\ Matches(q, d) /\ InTimeWindow(promos[q].window)}})

\* bestDiscountPerItem: what the menu takes off dish d.
BestDiscount(d) ==
  LET price == dishes[d].price
      enough(p) == promos[p].terms.min > 0 => price >= promos[p].terms.min
  IN Largest({0} \cup {MenuDiscount(price, promos[p].terms) :
       p \in {q \in Promos : Live(q) /\ Matches(q, d) /\ InTimeWindow(promos[q].window) /\ enough(q)}})

\* applyPromotions: what promotion p takes off a bill of one dish d.
Granted(d, p) ==
  LET price == dishes[d].price
      base == IF promos[p].terms.scope = "ORDER" \/ Matches(p, d) THEN price ELSE 0
  IN IF Live(p) /\ Applies(base, promos[p].terms) /\ InTimeWindow(promos[p].window)
     THEN CalcDiscount(base, promos[p].terms) ELSE 0

\* getList of menuitems.service.ts: the price shown for dish d, with promotions.
MenuPrice(d) == NotNegative(dishes[d].price - BestDiscount(d))

\* listApplicablePromotions: what the till offers for a bill of one dish d, with
\* no promotion on it yet; those of the whole order only.
Listed(d) ==
  LET price == dishes[d].price
      offered == {p \in Promos : /\ Live(p) /\ promos[p].terms.scope = "ORDER"
                                 /\ InTimeWindow(promos[p].window)
                                 /\ promos[p].terms.min > 0 => price >= promos[p].terms.min}
      estimate == [p \in offered |-> CalcDiscount(price, promos[p].terms)]
  IN [p \in {q \in offered : estimate[q] > 0} |-> estimate[p]]

\* No two promotions share a code; what they name exists; a deleted one is off.
PromosFit(pr, cs, ds) ==
  \A p \in Promos : pr[p] # Nothing =>
    /\ \A q \in Promos \ {p} : pr[q] # Nothing => pr[q].code # pr[p].code
    /\ \A d \in pr[p].dishes : ds[d] # Nothing
    /\ \A c \in pr[p].cats : cs[c] # Nothing
    /\ pr[p].deleted => ~pr[p].active

(***************************************************************************)
(* The menu and the till's list promise what the bill keeps, now.  A bill  *)
(* of one dish can come down to the price the menu shows for it, by one    *)
(* promotion of dishes or categories, and no lower; and the till lists the *)
(* promotions of the whole order that take something off it, with just     *)
(* what they take.                                                         *)
(***************************************************************************)
MenuPriceHonoured ==
  \A d \in Dishes : dishes[d] # Nothing =>
    LET onOrder == {p \in Promos : promos[p] # Nothing /\ promos[p].terms.scope = "ORDER"}
        onDish == {p \in Promos \ onOrder : promos[p] # Nothing}
        listed == Listed(d)
    IN /\ dishes[d].price - MenuPrice(d) = Largest({0} \cup {Granted(d, p) : p \in onDish})
       /\ \A p \in onOrder : Granted(d, p) = (IF p \in DOMAIN listed THEN listed[p] ELSE 0)

=============================================================================
