SPECIFICATION Spec
CONSTANTS
  Users = {u1}
  MaxTokens = 1
  Calls = {c1}
  RefreshTTL = 1
  AccessTTL = 1
  Horizon = 2
  Slots = {s1, s2}
  TestUsers = {u1}
  MaxOtpAttempts = 2
  OtpTTL = 1
  MaxOtps = 2
SYMMETRY Interchangeable
CHECK_DEADLOCK FALSE
INVARIANTS
  TypeOK
  OverrunIsInFlight
  LateOtpIsInFlight
  ActiveIsVerified
