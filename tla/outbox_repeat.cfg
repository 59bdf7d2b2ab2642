SPECIFICATION Spec
CONSTANTS
  Events = {1, 2, 3}
  Workers = {w1, w2}
  Kind <- MCKind
  BatchSize = 2
  MaxAttempts = 2
  MaxFaults = 1
CHECK_DEADLOCK FALSE
INVARIANT AtMostOneEffect
