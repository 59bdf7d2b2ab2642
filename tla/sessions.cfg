SPECIFICATION SessionsSpec
CONSTANTS
  Users = {u1}
  MaxTokens = 4
  Calls = {c1, c2}
  RefreshTTL = 2
  AccessTTL = 1
  Horizon = 2
SYMMETRY Interchangeable
CHECK_DEADLOCK FALSE
INVARIANTS
  SessionsTypeOK
  HeldIsGoodUntilDeleted
  SessionsAreConserved
  RedeemedInFlightOnly
