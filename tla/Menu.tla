-------------------------------- MODULE Menu ---------------------------------
(***************************************************************************)
(* The stock list, dishes, combos and categories: inventoryitems.service,  *)
(* menuitems.service, menucomboitem.service and category.service.  What    *)
(* orders, invoices and receipts leave behind is only what these services  *)
(* look at before they delete: a few sets.                                 *)
(*                                                                         *)
(* Quantities of recipes are counted in thousandths, the places of their   *)
(* columns; factors are whole.                                             *)
(***************************************************************************)
EXTENDS Units, Sequences

CONSTANTS
  Categories, Names, Prices,
  Recipes,     \* ingredient lists a dish may be given: sequences of [good, chosen, uom]
  Sides        \* sets of dishes a combo may be given

VARIABLES
  categories,  \* Categories -> [name, type, active], or Nothing
  dishes,      \* Dishes -> [combo, cat, price, available], or Nothing
  parts,       \* pairs <<combo, dish>>
  history,     \* goods with receipt lines or inventory transactions
  sold,        \* dishes with order lines
  billed,      \* dishes on an order with an invoice
  open         \* dishes on an unpaid open order of today

GoodRow == [base : Codes, held : BOOLEAN, active : BOOLEAN, cat : Categories \cup {Nothing}]
CategoryRow == [name : Names, type : {"MENU", "INGREDIENT"}, active : BOOLEAN]
DishRow == [combo : BOOLEAN, cat : Categories \cup {Nothing}, price : Nat, available : BOOLEAN]

\* Quantities are positive, prices not negative.
ASSUME MenuAssumption ==
  /\ Prices \subseteq Nat /\ Sides \subseteq SUBSET Dishes
  /\ Recipes \subseteq Seq([good : Goods, chosen : Nat \ {0}, uom : Codes])
  /\ Nothing \notin GoodRow \cup CategoryRow \cup DishRow

menuVars == <<categories, dishes, parts, history, sold, billed, open>>

(***************************************************************************)
(* Stock items.                                                            *)
(***************************************************************************)
\* The threshold is converted by a direct conversion only.
CreateGood(g, u, cat) ==
  /\ goods[g] = Nothing /\ units[u] # Nothing
  /\ LET base == units[u].base
     IN /\ units[base] # Nothing
        /\ u # base => conv[<<u, base>>] > 0
        /\ cat # Nothing => categories[cat] # Nothing
        /\ goods' = [goods EXCEPT ![g] = [base |-> base, held |-> FALSE, active |-> TRUE, cat |-> cat]]
  /\ UNCHANGED <<unitVars, named, recipes, menuVars>>

UpdateGood(g, cat) ==
  /\ goods[g] # Nothing
  /\ cat # Nothing => categories[cat] # Nothing
  /\ goods' = [goods EXCEPT ![g].cat = cat]
  /\ UNCHANGED <<unitVars, named, recipes, menuVars>>

\* remove: with force what is left is logged as waste before the item is saved.
DeactivateGood(g, force) ==
  /\ goods[g] # Nothing /\ goods[g].active
  /\ LET waste == force /\ goods[g].held
     IN /\ history' = IF waste THEN history \cup {g} ELSE history
        /\ \/ goods' = [goods EXCEPT ![g].active = FALSE, ![g].held = @ /\ ~waste]
           \/ waste /\ UNCHANGED goods    \* the process dies after the log
  /\ UNCHANGED <<unitVars, named, recipes, categories, dishes, parts, sold, billed, open>>

RestoreGood(g) ==
  /\ goods[g] # Nothing /\ ~goods[g].active
  /\ goods' = [goods EXCEPT ![g].active = TRUE]
  /\ UNCHANGED <<unitVars, named, recipes, menuVars>>

HardDeleteGood(g) ==
  /\ goods[g] # Nothing /\ ~goods[g].held /\ g \notin history
  /\ \A d \in Dishes : recipes[<<d, g>>] = Nothing
  /\ goods' = [goods EXCEPT ![g] = Nothing]
  /\ UNCHANGED <<unitVars, named, recipes, menuVars>>

\* A receipt: the purchase service takes any unit that converts.
Buy(g, u) ==
  /\ goods[g] # Nothing /\ units[u] # Nothing /\ Reaches(u, goods[g].base)
  /\ named' = named \cup {u} /\ history' = history \cup {g}
  /\ goods' = [goods EXCEPT ![g].held = TRUE]
  /\ UNCHANGED <<unitVars, recipes, categories, dishes, parts, sold, billed, open>>

(***************************************************************************)
(* Dishes.                                                                 *)
(***************************************************************************)
\* toBaseQty, as a line of a recipe in memory: `chosen' divided by `per' is the
\* quantity in the unit chosen, `direct' the direct factor used.
Line(row, factor) ==
  LET base == goods[row.good].base
  IN [uom |-> row.uom, chosen |-> row.chosen, per |-> 1, qty |-> row.chosen * factor,
      direct |-> IF row.uom = base THEN 1 ELSE conv[<<row.uom, base>>], mixed |-> FALSE]

Convertible(list) ==
  \A k \in DOMAIN list : goods[list[k].good] # Nothing /\ Reaches(list[k].uom, goods[list[k].good].base)

Distinct(list) == \A j, k \in DOMAIN list : list[j].good = list[k].good => j = k

\* updateMenuItem's merge of a line with an earlier one of the same item: it
\* keeps the unit of the earlier one, and converts by the quotient of the two
\* quantities that one has come to.
Merged(cur, line) ==
  IF cur = Nothing THEN line
  ELSE IF cur.uom = line.uom
  THEN [cur EXCEPT !.chosen = @ + line.chosen * cur.per, !.qty = @ + line.qty]
  ELSE [cur EXCEPT !.chosen = @ * (cur.qty + line.qty), !.per = @ * cur.qty, !.qty = @ + line.qty,
                   !.mixed = TRUE]

\* The columns round to the nearest thousandth, a half up.
Nearest(n, d) == (2 * n + d) \div (2 * d)

Stored(line) ==
  IF line = Nothing THEN Nothing
  ELSE [uom |-> line.uom, chosen |-> Nearest(line.chosen, line.per), qty |-> line.qty,
        direct |-> line.direct, mixed |-> line.mixed]

\* The lines for item g of a list.
LineOf(list, factors, g) ==
  LET upto[n \in 0..Len(list)] ==
        IF n = 0 THEN Nothing
        ELSE IF list[n].good = g THEN Merged(upto[n - 1], Line(list[n], factors[n])) ELSE upto[n - 1]
  IN Stored(upto[Len(list)])

FactorsOf(list) ==
  {fs \in [DOMAIN list -> UNION {Converted(u, b) : u \in Codes, b \in Codes}] :
     \A k \in DOMAIN list : fs[k] > 0 /\ fs[k] \in Converted(list[k].uom, goods[list[k].good].base)}

Cook(d, list, factors) ==
  recipes' = [x \in Dishes \X Goods |-> IF x[1] = d THEN LineOf(list, factors, x[2]) ELSE recipes[x]]

\* The dish is saved before its ingredients are looked at: an item or unit that
\* does not fit, an item listed twice, no ingredient at all, or a crash leave a
\* dish without a recipe.
CreateDish(d, cat, price, list) ==
  /\ dishes[d] = Nothing /\ categories[cat] # Nothing
  /\ dishes' = [dishes EXCEPT ![d] = [combo |-> FALSE, cat |-> cat, price |-> price, available |-> TRUE]]
  /\ \/ /\ list # <<>> /\ Distinct(list) /\ Convertible(list)
        /\ \E factors \in FactorsOf(list) : Cook(d, list, factors)
     \/ UNCHANGED recipes
  /\ UNCHANGED <<unitVars, named, goods, categories, parts, history, sold, billed, open>>

\* One transaction; the whole recipe is replaced, an empty list empties it.
UpdateDish(d, cat, price, list) ==
  /\ dishes[d] # Nothing
  /\ cat # dishes[d].cat => categories[cat] # Nothing
  /\ dishes' = [dishes EXCEPT ![d].cat = cat, ![d].price = price]
  /\ \/ UNCHANGED recipes
     \/ Convertible(list) /\ \E factors \in FactorsOf(list) : Cook(d, list, factors)
  /\ UNCHANGED <<unitVars, named, goods, categories, parts, history, sold, billed, open>>

\* The row goes, its recipe and its parts with it.
Drop(d) ==
  /\ dishes' = [dishes EXCEPT ![d] = Nothing]
  /\ recipes' = [x \in Dishes \X Goods |-> IF x[1] = d THEN Nothing ELSE recipes[x]]
  /\ parts' = {p \in parts : p[1] # d}

InCombo(d) == \E p \in parts : d \in {p[1], p[2]}

\* deleteMenuItem, with `promoted' the dishes on a promotion.
DeleteDish(d, promoted) ==
  /\ dishes[d] # Nothing /\ d \notin sold /\ d \notin promoted /\ ~InCombo(d)
  /\ Drop(d)
  /\ UNCHANGED <<unitVars, named, goods, categories, history, sold, billed, open>>

Sell(d) ==
  /\ dishes[d] # Nothing /\ dishes[d].available
  /\ sold' = sold \cup {d} /\ open' = open \cup {d}
  /\ UNCHANGED <<unitVars, listVars, categories, dishes, parts, history, billed>>

\* The orders of a dish are billed and paid, or a new day begins.
Close(d, bill) ==
  /\ d \in open
  /\ open' = open \ {d} /\ billed' = IF bill THEN billed \cup {d} ELSE billed
  /\ UNCHANGED <<unitVars, listVars, categories, dishes, parts, history, sold>>

(***************************************************************************)
(* Combos.                                                                 *)
(***************************************************************************)
Plain(side) == \A d \in side : dishes[d] # Nothing /\ ~dishes[d].combo

CreateCombo(d, price, side) ==
  /\ dishes[d] = Nothing /\ side # {} /\ Plain(side)
  /\ dishes' = [dishes EXCEPT ![d] = [combo |-> TRUE, cat |-> Nothing, price |-> price, available |-> TRUE]]
  /\ parts' = parts \cup {<<d, s>> : s \in side}
  /\ UNCHANGED <<unitVars, listVars, categories, history, sold, billed, open>>

\* Parts that are refused are answered with 400 from inside the transaction,
\* which commits the new price.
UpdateCombo(d, price, side) ==
  /\ dishes[d] # Nothing /\ dishes[d].combo /\ d \notin open
  /\ dishes' = [dishes EXCEPT ![d].price = price]
  /\ parts' = IF side # {} /\ Plain(side)
              THEN {p \in parts : p[1] # d} \cup {<<d, s>> : s \in side}
              ELSE parts
  /\ UNCHANGED <<unitVars, listVars, categories, history, sold, billed, open>>

\* remove: hidden once billed; deleted otherwise, which fails for an order line.
RemoveCombo(d) ==
  /\ dishes[d] # Nothing /\ dishes[d].combo
  /\ IF d \in billed
     THEN dishes' = [dishes EXCEPT ![d].available = FALSE] /\ UNCHANGED <<recipes, parts>>
     ELSE d \notin sold /\ Drop(d)
  /\ UNCHANGED <<unitVars, named, goods, categories, history, sold, billed, open>>

(***************************************************************************)
(* Categories.                                                             *)
(***************************************************************************)
DishesIn(cat) == {d \in Dishes : dishes[d] # Nothing /\ dishes[d].cat = cat}

GoodsIn(cat) == {g \in Goods : goods[g] # Nothing /\ goods[g].cat = cat}

\* ensureNoReferences looks where the type says.
NoReferences(cat) == IF categories[cat].type = "MENU" THEN DishesIn(cat) = {} ELSE GoodsIn(cat) = {}

Taken(cat, name, type) ==
  \E c \in Categories \ {cat} : categories[c] # Nothing /\ categories[c].name = name /\ categories[c].type = type

CreateCategory(cat, name, type) ==
  /\ categories[cat] = Nothing /\ ~Taken(cat, name, type)
  /\ categories' = [categories EXCEPT ![cat] = [name |-> name, type |-> type, active |-> TRUE]]
  /\ UNCHANGED <<unitVars, listVars, dishes, parts, history, sold, billed, open>>

UpdateCategory(cat, name, type, active) ==
  /\ categories[cat] # Nothing
  /\ type # categories[cat].type \/ ~active => NoReferences(cat)
  /\ ~Taken(cat, name, type)
  /\ categories' = [categories EXCEPT ![cat] = [name |-> name, type |-> type, active |-> active]]
  /\ UNCHANGED <<unitVars, listVars, dishes, parts, history, sold, billed, open>>

\* A dish holds its category by its foreign key, a stock item lets go of it.
DeleteCategory(cat) ==
  /\ categories[cat] # Nothing /\ NoReferences(cat) /\ DishesIn(cat) = {}
  /\ categories' = [categories EXCEPT ![cat] = Nothing]
  /\ goods' = [g \in Goods |-> IF g \in GoodsIn(cat) THEN [goods[g] EXCEPT !.cat = Nothing] ELSE goods[g]]
  /\ UNCHANGED <<unitVars, named, recipes, dishes, parts, history, sold, billed, open>>

\* Dishes and goods are of categories that exist; a combo is made of dishes.
MenuFits(gs, cs, ds, ps) ==
  /\ \A d \in Dishes : ds[d] # Nothing => ds[d].cat = Nothing \/ cs[ds[d].cat] # Nothing
  /\ \A g \in Goods : gs[g] # Nothing => gs[g].cat = Nothing \/ cs[gs[g].cat] # Nothing
  /\ \A p \in ps : ds[p[1]] # Nothing /\ ds[p[1]].combo /\ ds[p[2]] # Nothing /\ ~ds[p[2]].combo

TrueTo(rs, gs, cv) ==
  \A d \in Dishes, g \in Goods : rs[<<d, g>>] # Nothing =>
    LET line == rs[<<d, g>>]
    IN line.direct > 0 =>
         /\ 2 * (line.chosen * line.direct - line.qty) \in -line.direct .. line.direct
         /\ ~line.mixed => line.qty = line.chosen * line.direct
         /\ line.uom # gs[g].base => cv[<<line.uom, gs[g].base>>] = line.direct

(***************************************************************************)
(* A quantity entered in a unit with a conversion of its own is still that *)
(* many of the base units the dish takes from stock: exactly, or, if lines *)
(* in several units were added up, to the thousandth of its unit that the  *)
(* column holds.  Nobody changes, removes or adds up the conversion under  *)
(* a recipe, and the merge of lines keeps to it (uomconversion.service.ts, *)
(* the merge of updateMenuItem, units-of-measure.service.ts).              *)
(***************************************************************************)
RecipesStayTrue == TrueTo(recipes, goods, conv)

=============================================================================
