-------------------------------- MODULE Units --------------------------------
(***************************************************************************)
(* Units of measure and the conversions between them:                      *)
(* units-of-measure.service.ts, uomconversion.service.ts, and the two      *)
(* searches for a path of conversions, getConversionFactorRecursive        *)
(* (uom.util.ts) and getUomsForItem (inventoryitems.service.ts).           *)
(*                                                                         *)
(* A request is one step, except where the code writes twice without a     *)
(* transaction: then another request, or a crash, may come between.        *)
(***************************************************************************)
EXTENDS Integers, FiniteSets

CONSTANTS
  Codes,       \* codes of units
  Dimensions,
  Factors,     \* factors a conversion is given
  Goods,       \* stock items
  Dishes,      \* dishes and combos
  Nothing      \* no row

VARIABLES
  units,       \* Codes -> [dim, base, active], or Nothing
  conv,        \* <<from, to>> -> factor, 0 without a conversion
  removing,    \* the unit that remove has stripped of its conversions, or Nothing
  named,       \* units named by receipt lines or purchase returns
  goods,       \* Goods -> [base, held, active, cat], or Nothing
  recipes      \* <<dish, good>> -> [uom, chosen, qty, direct, mixed], or Nothing

UnitRow == [dim : Dimensions, base : Codes, active : BOOLEAN]
LineRow == [uom : Codes, chosen : Nat, qty : Nat, direct : Nat, mixed : BOOLEAN]

\* Factors are positive, and a row is a row.
ASSUME UnitsAssumption ==
  /\ IsFiniteSet(Codes) /\ Factors \subseteq Nat \ {0}
  /\ Nothing \notin UnitRow \cup LineRow

unitVars == <<units, conv, removing>>
listVars == <<named, goods, recipes>>

InRecipe(u) == \E x \in DOMAIN recipes : recipes[x] # Nothing /\ recipes[x].uom = u

\* Seeded fault: recipes are not looked at.
SpokenInPapers(u) == u \in named

\* The check of uomconversion.service.ts before a conversion from u changes.
Spoken(u) == u \in named \/ InRecipe(u)

Linked(u) == \E c \in Codes : conv[<<c, u>>] > 0 \/ conv[<<u, c>>] > 0

\* checkUsage: everything a unit is used for.
Used(u) == Spoken(u) \/ Linked(u) \/ \E g \in Goods : goods[g] # Nothing /\ goods[g].base = u

(***************************************************************************)
(* Units.                                                                  *)
(***************************************************************************)
BaseFits(base, dim) == units[base] # Nothing /\ units[base].dim = dim

CreateUnit(u, dim, base) ==
  /\ units[u] = Nothing
  /\ base # u => BaseFits(base, dim)
  /\ units' = [units EXCEPT ![u] = [dim |-> dim, base |-> base, active |-> TRUE]]
  /\ UNCHANGED <<conv, removing, listVars>>

\* Seeded fault: conversions do not keep a unit from changing its dimension.
UpdateUnitFreely(u, dim, base) ==
  /\ units[u] # Nothing
  /\ base # units[u].base => BaseFits(base, dim)
  /\ units' = [units EXCEPT ![u].dim = dim, ![u].base = base]
  /\ UNCHANGED <<conv, removing, listVars>>

\* Only conversions keep a unit from changing its dimension.  A new base must have
\* the new dimension; a unit made its own base is read with the old one.
UpdateUnit(u, dim, base) ==
  /\ units[u] # Nothing
  /\ dim # units[u].dim => ~Linked(u)
  /\ base # units[u].base => BaseFits(base, dim)
  /\ units' = [units EXCEPT ![u].dim = dim, ![u].base = base]
  /\ UNCHANGED <<conv, removing, listVars>>

\* remove: a unit something converts to, or that is spoken of, is switched off;
\* otherwise its own conversions go first, and then the unit.
RemoveUnit(u) ==
  /\ units[u] # Nothing /\ removing = Nothing
  /\ IF Spoken(u) \/ \E c \in Codes : conv[<<c, u>>] > 0
     THEN units' = [units EXCEPT ![u].active = FALSE] /\ UNCHANGED <<conv, removing>>
     ELSE /\ conv' = [x \in Codes \X Codes |-> IF x[1] = u THEN 0 ELSE conv[x]]
          /\ removing' = u
          /\ UNCHANGED units
  /\ UNCHANGED listVars

\* The second statement: foreign keys keep a unit that is used, or the process
\* has died; either way the conversions are gone.
FinishRemoval ==
  /\ removing # Nothing
  /\ \/ ~Used(removing) /\ units' = [units EXCEPT ![removing] = Nothing]
     \/ UNCHANGED units
  /\ removing' = Nothing
  /\ UNCHANGED <<conv, listVars>>

SwitchUnit(u, on) ==
  /\ units[u] # Nothing /\ units[u].active # on
  /\ units' = [units EXCEPT ![u].active = on]
  /\ UNCHANGED <<conv, removing, listVars>>

(***************************************************************************)
(* Conversions: 1 from = factor * to.                                      *)
(***************************************************************************)
CreateConversion(from, to, factor) ==
  /\ from # to /\ conv[<<from, to>>] = 0
  /\ units[from] # Nothing /\ units[to] # Nothing /\ units[from].dim = units[to].dim
  /\ conv' = [conv EXCEPT ![<<from, to>>] = factor]
  /\ UNCHANGED <<units, removing, listVars>>

SetConversion(from, to, factor) ==
  /\ conv[<<from, to>>] > 0 /\ ~Spoken(from)
  /\ conv' = [conv EXCEPT ![<<from, to>>] = factor]
  /\ UNCHANGED <<units, removing, listVars>>

UpdateConversion(from, to, factor) == SetConversion(from, to, factor)

RemoveConversion(from, to) == SetConversion(from, to, 0)

(***************************************************************************)
(* getConversionFactorRecursive.  The rows come back in any order, so it   *)
(* is the set of what the search may return, with the units it has seen; a *)
(* factor of 0 is no path.                                                 *)
(***************************************************************************)
Targets(from) == {c \in Codes : conv[<<from, c>>] > 0}

\* A call for unit `from'; `loop' is what the loop over its conversions returns.
Walk(from, to, seen, loop) ==
  IF from = to THEN {[factor |-> 1, seen |-> seen]}
  ELSE IF from \in seen THEN {[factor |-> 0, seen |-> seen]}
  ELSE IF conv[<<from, to>>] > 0 THEN {[factor |-> conv[<<from, to>>], seen |-> seen \cup {from}]}
  ELSE loop[seen \cup {from}][from]

\* The loop, from any point on.  A unit that has been seen returns 0 at once, so
\* only the others are left to try.
Try(from, to, seen, loop) ==
  LET rest == Targets(from) \ seen
  IN IF rest = {} THEN {[factor |-> 0, seen |-> seen]}
     ELSE UNION {
       UNION {IF r.factor > 0 THEN {[factor |-> conv[<<from, c>>] * r.factor, seen |-> r.seen]}
              ELSE loop[r.seen][from] : r \in Walk(c, to, seen, loop)} : c \in rest}

Loop(to) ==
  LET loop[seen \in SUBSET Codes] == [from \in Codes |-> Try(from, to, seen, loop)]
  IN loop

Search(from, to, seen) == {r.factor : r \in Walk(from, to, seen, Loop(to))}

\* Seeded fault: only the first conversion of a unit is followed.
ConvertedFirst(from, to) ==
  IF from = to \/ conv[<<from, to>>] > 0 \/ Targets(from) = {} THEN Search(from, to, {})
  ELSE UNION {{conv[<<from, c>>] * f : f \in Search(c, to, {from})} : c \in Targets(from)}

Converted(from, to) == Search(from, to, {})

\* toBaseQty and the receipts: a direct conversion first, then any path.
Reaches(from, to) == \E f \in Converted(from, to) : f > 0

(***************************************************************************)
(* getUomsForItem: the units offered for an item, layer by layer against   *)
(* the conversions, each with the factors it may be given.  Units that     *)
(* convert to one found are new only if they convert to the last layer.    *)
(* There are no more layers than units.                                    *)
(***************************************************************************)
Widened(known) ==
  LET next == {c \in Codes \ DOMAIN known : \E p \in DOMAIN known : conv[<<c, p>>] > 0}
      factors(c) == UNION {{conv[<<c, p>>] * f : f \in known[p]} : p \in {q \in DOMAIN known : conv[<<c, q>>] > 0}}
  IN [c \in DOMAIN known \cup next |-> IF c \in next THEN factors(c) ELSE known[c]]

Found(base) ==
  LET found[n \in 0..Cardinality(Codes)] ==
        IF n = 0 THEN [c \in {base} |-> {1}] ELSE Widened(found[n - 1])
  IN found[Cardinality(Codes)]

Offered(base) ==
  LET found == Found(base)
  IN [c \in {d \in DOMAIN found : units[d].dim = units[base].dim} |-> found[c]]

\* findByInventoryItem: every unit that conversions join to the base, whichever
\* way they convert.
Joined(base) ==
  LET joined[n \in 0..Cardinality(Codes)] ==
        IF n = 0 THEN {base}
        ELSE joined[n - 1] \cup {c \in Codes : \E p \in joined[n - 1] : conv[<<c, p>>] > 0 \/ conv[<<p, c>>] > 0}
  IN joined[Cardinality(Codes)]

Related(base) == {u \in Joined(base) : units[u] # Nothing}

\* Conversions join existing units of one dimension, a recipe or an item names
\* units that exist.
UnitsFit(us, cv, gs, rs) ==
  /\ \A c, d \in Codes : cv[<<c, d>>] > 0 =>
       c # d /\ us[c] # Nothing /\ us[d] # Nothing /\ us[c].dim = us[d].dim
  /\ \A g \in Goods : gs[g] # Nothing => us[gs[g].base] # Nothing
  /\ \A x \in Dishes \X Goods : rs[x] # Nothing =>
       us[rs[x].uom] # Nothing /\ gs[x[2]] # Nothing /\ rs[x].qty > 0

UnitsOK == UnitsFit(units, conv, goods, recipes) /\ \A u \in named : units[u] # Nothing

(***************************************************************************)
(* The units offered for an item are the units a receipt or a recipe can   *)
(* be entered in, whatever conversions have come and gone; and while every *)
(* unit converts to one other, the factor shown is the factor used.  The   *)
(* list of units for an item has all of them, and only units of its        *)
(* dimension; it may also have units that do not convert to the base.      *)
(***************************************************************************)
OfferedUnitsConvert ==
  \A g \in Goods : goods[g] # Nothing =>
    LET base == goods[g].base
        offer == Offered(base)
    IN /\ DOMAIN offer = {u \in Codes : units[u] # Nothing /\ 0 \notin Converted(u, base)}
       /\ (\A u \in Codes : Cardinality(Targets(u)) <= 1) =>
            \A u \in DOMAIN offer : offer[u] = Converted(u, base)
       /\ DOMAIN offer \subseteq Related(base)
       /\ \A u \in Related(base) : units[u].dim = units[base].dim

=============================================================================
