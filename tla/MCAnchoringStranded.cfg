\* one ticker and an operator
CONSTANTS
  r1 = r1
  r2 = r2
  p1 = p1
  p2 = p2
  w1 = w1
  w2 = w2
  Records = {r1, r2}
  Tickers = {p1, p2}
  Witnesses = {w1, w2}
  Operators = {o1}
  MaxBatches = 2
  MaxLeaves = 1
  MaxTroubles = 0
  Nobody = Nobody
SPECIFICATION MCSpec
INVARIANT NothingStranded
