CONSTANTS
  k1 = k1
  k2 = k2
  k3 = k3
  p1 = p1
  Keys <- ThreeKeys
  LastMonth = 2
  Prices <- OnePrice
  Normal <- TwoUnits
  Lighter <- OneUnit
  Ceiling = 3
  Thresholds <- UsualOrLow
  Bills = {0, 1, 3}
SPECIFICATION BudgetSpec
SYMMETRY Symmetry
INVARIANTS
  LedgerBalances
  SpendBounded
  HoldsFollowDoubt
CHECK_DEADLOCK FALSE
