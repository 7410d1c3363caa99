SPECIFICATION MCSpec
CONSTANTS
  replay = replay
  other = other
  hosted = hosted
  w1 = w1
  w2 = w2
  d1 = d1
  d2 = d2
  a = a
  b = b
  s1 = s1
  s2 = s2
  None = None
  Coming = Coming
  Runs = {replay, other}
  Replays = {replay}
  Workers = {w1, w2}
  Host = w1
  Boxes = {s1, s2}
  Situations = {replay}
  Dispatchers = {d1, d2}
  Outputs = {a, b}
  MaxDeliveries = 2
  MaxLapses = 0
  MaxRedrives = 0
  MaxLeases = 3
  MaxFaults = 0
CHECK_DEADLOCK FALSE
INVARIANT
  RetryReusesEvidence
