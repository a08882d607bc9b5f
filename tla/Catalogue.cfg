SPECIFICATION Spec
CONSTANTS
  Nothing = Nothing
  Missing = Missing
  Codes = {"can", "six", "box", "kg"}
  Dimensions = {"count", "mass"}
  Factors = {4, 6}
  Goods = {"beer", "ice"}
  Dishes = {"lager", "stein", "party", "soup"}
  Categories = {"drinks", "stores"}
  Names = {"n1", "n2"}
  Prices = {100, 200}
  Recipes <- MCRecipes
  Sides <- MCSides
  Promos = {"p1", "p2"}
  PromoCodes = {"k1", "k2"}
  Terms <- MCTerms
  Windows <- MCWindows
  Moments <- MCMoments
  Areas = {"hall"}
  Tables = {t1, t2}
  Suppliers = {s1, s2}
  Groups = {g1, g2}
  Customers = {k1, k2}
  CashTypes = {c1, c2}
  Parties = {o1}
  Users = {u1, u2}
  Handles = {h1, h2}
  Notes = {n1, n2}
  Blank = Blank
  Labels = {l1, l2}
  Phones = {f1}
  Opening <- MCOpening
  Edits = 3
INVARIANTS CatalogueTypeOK RecipesStayTrue OfferedUnitsConvert MenuPriceHonoured
CHECK_DEADLOCK FALSE
