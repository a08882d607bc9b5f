\* Two requests at a time: two payments of the same remainder.
CONSTANTS
  Workers = {w1, w2}
  Endpoints <- CounterEndpoints
  Bills <- TwoBills
  Promotions <- NoPromotions
  Promo <- NoPromo
  Amounts = {2, 5}
  Transfers = {t1}
  TOL = 1
  MaxPayments = 3
  NoInvoice = NoInvoice
  NoRef = NoRef
SPECIFICATION Spec
SYMMETRY CounterSymmetry
INVARIANTS NeverOverpaid
