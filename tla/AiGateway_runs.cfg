CONSTANTS
  k1 = k1
  k2 = k2
  p1 = p1
  p2 = p2
  r1 = r1
  r2 = r2
  r3 = r3
  Keys <- TwoKeys
  LastMonth = 2
  Prices <- OnePrice
  Normal <- NormalAmounts
  Lighter <- LighterAmounts
  Ceiling = 3
  Thresholds <- Usual
  Bills = {0, 1, 2, 3}
  Runs <- ThreeRuns
  KeyOf <- TwoShareAKey
  NextPrice <- SecondPriceLast
SPECIFICATION GatewaySpec
INVARIANTS
  SentOnce
  PaidCallsCountedUnlessGivenUp
  NothingLeaks
  ChargesBounded
CHECK_DEADLOCK FALSE
