------------------------------ MODULE BackOffice -----------------------------
(***************************************************************************)
(* The requests of the back office together.  The services fall into four  *)
(* groups that share no row a request of the group decides on, so that a   *)
(* behaviour is made of the requests of one group, its `desk'.  `Edits'    *)
(* bounds the requests of a behaviour.                                     *)
(***************************************************************************)
EXTENDS Promotions, Directory, Accounts

CONSTANTS
  Opening,     \* the catalogue at the start
  Edits

\* The opening catalogue is one the services could have left.
ASSUME OpeningAssumption ==
  /\ Opening.units \in [Codes -> UnitRow \cup {Nothing}]
  /\ Opening.conv \in [Codes \X Codes -> Nat]
  /\ Opening.goods \in [Goods -> GoodRow \cup {Nothing}]
  /\ Opening.recipes \in [Dishes \X Goods -> LineRow \cup {Nothing}]
  /\ Opening.categories \in [Categories -> CategoryRow \cup {Nothing}]
  /\ Opening.dishes \in [Dishes -> DishRow \cup {Nothing}]
  /\ Opening.parts \subseteq Dishes \X Dishes
  /\ Opening.promos \in [Promos -> PromoRow \cup {Nothing}]
  /\ UnitsFit(Opening.units, Opening.conv, Opening.goods, Opening.recipes)
  /\ TrueTo(Opening.recipes, Opening.goods, Opening.conv)
  /\ MenuFits(Opening.goods, Opening.categories, Opening.dishes, Opening.parts)
  /\ PromosFit(Opening.promos, Opening.categories, Opening.dishes)
  /\ Edits \in Nat

VARIABLES
  desk,        \* "store": units, stock list, recipes; "menu"; "directory"; "accounts"
  edits        \* requests so far

vars == <<desk, edits, unitVars, listVars, menuVars, promoVars, directoryVars, accountVars>>

Init ==
  /\ desk \in {"store", "menu", "directory", "accounts"} /\ edits = 0
  /\ units = Opening.units /\ conv = Opening.conv /\ removing = Nothing
  /\ named = {} /\ goods = Opening.goods /\ recipes = Opening.recipes
  /\ categories = Opening.categories /\ dishes = Opening.dishes /\ parts = Opening.parts
  /\ history = {} /\ sold = {} /\ billed = {} /\ open = {}
  /\ promos = Opening.promos /\ now \in {m \in Moments : \A n \in Moments : m.at <= n.at}
  /\ areas = {} /\ tables = [t \in Tables |-> Missing] /\ seated = {}
  /\ suppliers = [s \in Suppliers |-> Missing] /\ groups = [g \in Groups |-> Missing] /\ dealt = {}
  /\ customers = [k \in Customers |-> Missing]
  /\ cashTypes = [c \in CashTypes |-> Missing] /\ parties = {} /\ entered = {}
  /\ users = [u \in Users |-> Blank] /\ notes = [n \in Notes |-> Blank]

Measuring ==
  \E u \in Codes :
    \/ \E dim \in Dimensions, base \in Codes : CreateUnit(u, dim, base) \/ UpdateUnit(u, dim, base)
    \/ RemoveUnit(u)
    \/ \E on \in BOOLEAN : SwitchUnit(u, on)
    \/ \E to \in Codes : RemoveConversion(u, to)
                         \/ \E f \in Factors : CreateConversion(u, to, f) \/ UpdateConversion(u, to, f)

Storing ==
  \E g \in Goods :
    \/ \E u \in Codes : Buy(g, u) \/ \E cat \in Categories \cup {Nothing} : CreateGood(g, u, cat)
    \/ \E cat \in Categories \cup {Nothing} : UpdateGood(g, cat)
    \/ \E force \in BOOLEAN : DeactivateGood(g, force)
    \/ RestoreGood(g) \/ HardDeleteGood(g)

Cooking ==
  \E d \in Dishes, list \in Recipes, price \in Prices :
    \/ \E cat \in Categories : CreateDish(d, cat, price, list)
    \/ dishes[d] # Nothing /\ \E cat \in Categories \cup {dishes[d].cat} : UpdateDish(d, cat, price, list)

Serving ==
  \/ \E d \in Dishes : Sell(d) \/ DeleteDish(d, Promoted) \/ \E bill \in BOOLEAN : Close(d, bill)
  \/ \E d \in Dishes, price \in Prices, side \in Sides : CreateCombo(d, price, side) \/ UpdateCombo(d, price, side)
  \/ \E cat \in Categories, name \in Names, type \in {"MENU", "INGREDIENT"} :
       CreateCategory(cat, name, type) \/ \E active \in BOOLEAN : UpdateCategory(cat, name, type, active)

\* What goes, goes from the promotions too.
Discarding ==
  \/ \E d \in Dishes : RemoveCombo(d) /\ Forget(IF dishes'[d] = Nothing THEN {d} ELSE {}, {})
  \/ \E cat \in Categories : DeleteCategory(cat) /\ Forget({}, {cat})

Promoting ==
  \E p \in Promos :
    \/ \E terms \in Terms, window \in Windows, code \in PromoCodes, ds \in Sides, cs \in {{}} \cup {{c} : c \in Categories} :
         CreatePromotion(p, terms, window, code, ds, cs) \/ UpdatePromotion(p, terms, window, code, ds, cs)
    \/ \E on \in BOOLEAN : ActivatePromotion(p, on)
    \/ SoftDeletePromotion(p) \/ RestorePromotion(p)

Filing ==
  \/ \E a \in Areas : CreateArea(a)
  \/ \E t \in Tables, name \in Labels : (\E a \in Areas : CreateTable(t, name, a)) \/ UpdateTable(t, name)
  \/ \E t \in Tables : DeleteTable(t) \/ Seat(t)
  \/ \E s \in Suppliers, g \in Groups \cup {Missing} : CreateSupplier(s, g) \/ UpdateSupplier(s, g)
  \/ \E s \in Suppliers : RemoveSupplier(s) \/ Deal(s) \/ \E active \in BOOLEAN : SetSupplierStatus(s, active)
  \/ \E g \in Groups, name \in Labels : CreateGroup(g, name) \/ UpdateGroup(g, name)
  \/ \E g \in Groups : DeactivateGroup(g) \/ RemoveGroup(g)
  \/ \E k \in Customers, phone \in Phones \cup {Missing} : CreateCustomer(k, phone) \/ UpdateCustomer(k, phone)
  \/ \E c \in CashTypes : RemoveCashType(c)
       \/ \E name \in Labels, active \in BOOLEAN : CreateCashType(c, name, active) \/ UpdateCashType(c, name, active)
  \/ \E p \in Parties : CreateOtherParty(p) \/ RemoveOtherParty(p) \/ Enter(p)

Managing ==
  \E u \in Users :
    \/ \E username, phone \in Handles \cup {Blank} :
         UpdateUser(u, username, phone) \/ \E profile \in BOOLEAN : CreateUser(u, username, phone, profile)
    \/ UpdateProfile(u) \/ ForgotPassword(u) \/ ResetPassword(u)
    \/ \E n \in Notes : CreateOrderCancelled(n, u) \/ MarkAsRead(u, n)
    \/ \E ns \in SUBSET Notes : MarkManyAsRead(u, ns)

Request ==
  /\ edits < Edits /\ edits' = edits + 1
  /\ \/ desk = "store" /\ ((Measuring /\ UNCHANGED menuVars) \/ Storing \/ Cooking) /\ UNCHANGED <<promoVars, directoryVars, accountVars>>
     \/ /\ desk = "menu"
        /\ \/ (Serving \/ Cooking) /\ UNCHANGED promoVars
           \/ Discarding /\ UNCHANGED now
           \/ Promoting
        /\ UNCHANGED <<directoryVars, accountVars>>
     \/ desk = "directory" /\ Filing /\ UNCHANGED <<unitVars, listVars, menuVars, promoVars, accountVars>>
     \/ desk = "accounts" /\ Managing /\ UNCHANGED <<unitVars, listVars, menuVars, promoVars, directoryVars>>
  /\ UNCHANGED desk

\* What needs no request: the second half of a removal, and the time.
Proceed ==
  /\ \/ FinishRemoval /\ UNCHANGED <<menuVars, promoVars, accountVars>>
     \/ desk = "menu" /\ Tick /\ UNCHANGED accountVars
     \/ (\E u \in Users : Lapse(u)) /\ UNCHANGED <<unitVars, listVars, menuVars, promoVars>>
  /\ UNCHANGED <<desk, edits, directoryVars>>

Next == Request \/ Proceed

Spec == Init /\ [][Next]_vars

(***************************************************************************)
(* Every row points to rows that exist, conversions join units of one      *)
(* dimension, and what must be unique is.                                  *)
(***************************************************************************)
CatalogueTypeOK ==
  /\ edits \in 0..Edits
  /\ UnitsOK
  /\ MenuFits(goods, categories, dishes, parts)
  /\ PromosFit(promos, categories, dishes)
  /\ DirectoryOK /\ AccountsOK

=============================================================================
