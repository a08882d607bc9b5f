\* One request at a time, every endpoint but cancel.
CONSTANTS
  Workers = {w1}
  Endpoints <- OneAtATime
  Bills <- SomeBills
  Promotions <- BothPromotions
  Promo <- SomePromo
  Amounts = {1, 4}
  Transfers = {t1}
  TOL = 1
  MaxPayments = 4
  NoInvoice = NoInvoice
  NoRef = NoRef
SPECIFICATION Spec
INVARIANTS TypeOK
PROPERTIES RegisterSpec
