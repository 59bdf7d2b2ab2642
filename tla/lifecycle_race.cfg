SPECIFICATION Spec
CONSTANTS
  sa = sa
  sb = sb
  sc = sc
  a1 = a1
  a2 = a2
  b1 = b1
  b2 = b2
  c1 = c1
  c2 = c2
  p1 = p1
  p2 = p2
  Sales = {sa, sb, sc}
  Items = {a1, a2, b1, b2, c1, c2}
  Products = {p1, p2}
  Workers = {w1, w2}
  Lines <- MCLines
  SEEDS <- MCSeeds
  ProductOf <- MCProductOf
  Quantity <- MCQuantity
  OpeningStock <- MCStock
  StartsAt <- MCStartsAt
  EndsAt <- MCEndsAt
  Asked = {a1, b1}
  Horizon = 1
  MaxAttempts = 2
  MaxFaults = 1
CHECK_DEADLOCK FALSE
INVARIANT OnlyUnsoldReturned
