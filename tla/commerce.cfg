SPECIFICATION Spec
CONSTANTS
  u1 = u1
  r1 = r1
  r2 = r2
  hat = hat
  sub1 = sub1
  none = none
  Users = {u1}
  Requests = {r1, r2}
  Products = {hat}
  Price <- OneEach
  Quantities = {0, 1}
  Stock0 <- OneEach
  Balance0 = 1
  TierPrice <- Prices
  Features <- TierFeatures
  Amounts = {1}
  Events <- PaymentsAndSubscription
  NoRow = none
  Cart0 <- OneEach
  MaxRequests = 4
  MaxDeaths = 1
SYMMETRY Requests2
CHECK_DEADLOCK FALSE
INVARIANTS
  MoneyAddsUp
  GoodsAreAccounted
  MembershipsHold
  AckMeansApplied
