SPECIFICATION Spec
CONSTANTS
  u1 = u1
  u2 = u2
  i1 = i1
  i2 = i2
  k1 = k1
  k2 = k2
  k3 = k3
  k4 = k4
  Users = {u1, u2}
  Items = {i1, i2}
  Keys = {k1, k2, k3, k4}
  Slots = {s1, s2}
  Buyer <- BuyerOf
  Wanted <- WantedBy
  Quantity <- OneEach
  Price <- Prices
  StartsAt <- AtOnce
  EndsAt <- Closes
  OpeningBalance <- TwoOrThreeCents
  DayLength = 1
  CacheTTL = 1
  Horizon = 1
SYMMETRY SlotSymmetry
INVARIANTS
  TypeOK
  NoOversell
  DailyCap
  BalanceIntegrity
  EventPerPurchase
  AcknowledgedIsDurable
  GuardsSuffice
PROPERTIES
  LedgerSpec
  RowsSpec
