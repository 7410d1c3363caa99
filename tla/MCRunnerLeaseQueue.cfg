SPECIFICATION MCSpec
CONSTANTS
  r1 = r1
  c1 = c1
  c2 = c2
  NoRun = NoRun
  Runs = {r1}
  Consumers = {c1, c2}
  Serves <- MCServesAll
  LeaseDuration = 3
  RetryDelays = {0}
  MaxSkew = 1
  MaxLag = 0
  MaxStall = 1
  MaxRedrivers = 2
  MaxTime = 5
  MaxLeases = 3
  MaxEvents = 7
SYMMETRY MCSymmetry
CHECK_DEADLOCK FALSE
INVARIANTS
  FencingInv
  LeaseExclusive
  LogTellsRow
PROPERTY
  ImplementsContract
