CONSTANTS
  k1 = k1
  k2 = k2
  k3 = k3
  p1 = p1
  Keys <- TwoKeys
  LastMonth = 2
  Prices <- OnePrice
  Normal <- TwoUnits
  Lighter <- OneUnit
  Ceiling = 3
  Thresholds <- Usual
  Bills = {0, 1, 3}
SPECIFICATION BudgetSpec
INVARIANTS
  NotSpentTwice
CHECK_DEADLOCK FALSE
