CONSTANTS
  Cashiers = {c1, c2}
  Invoices = {"A", "B"}
  Order <- SomeOrders
  Recipe <- SomeRecipes
  Items = {"meat", "grain"}
  Opening <- Empty
  AvgCost <- Costs
  Requests <- SomeRequests
  Payments <- SomePayments
  Refunds = 2
  LastDay = 2
  MonthLength = 2
  Nothing = Nothing
SYMMETRY CashierSymmetry
SPECIFICATION Spec
CHECK_DEADLOCK FALSE
INVARIANTS ReturnsTypeOK NumbersInOrder StockFollowsLog WithinSold RefundsBooked ReportsAgree DashboardAddsUp DaysAddUp
