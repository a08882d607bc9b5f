\* Requests one after the other; a crash may fall inside a manual entry.
CONSTANTS
  Workers = {w1}
  Items = {"fish", "crab"}
  Receipts = {r1, r2}
  Returns = {t1}
  Opening <- NothingYet
  MaxEntries = 2
  Payments = {0, 2}
  Bills <- SomeBills
  ReturnBills <- SomeReturnBills
  NoDoc = NoDoc
SYMMETRY ReceiptSymmetry
SPECIFICATION Spec
CHECK_DEADLOCK FALSE
INVARIANTS TypeOK PaidMatchesBook RefundsMatchBook GoodsOnce AvgCostInRange ReportsReconcile PeriodsAddUp
