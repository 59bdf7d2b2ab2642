SPECIFICATION Spec
CONSTANTS
  Capacity <- MCCapacity
  Unit <- MCUnit
  Requests <- MCRequests
  NoUser = "none"
  NoAddress = "undefined"
  Normalised <- MCNormalised
  Offsets = {0, 3}
  Slots = {s1, s2}
  PerSecond = 2
  Horizon = 6
SYMMETRY SlotSymmetry
INVARIANTS
  TypeOK
  RateIsBounded
  RefusedForOwnUse
  RetryAfterSuffices
