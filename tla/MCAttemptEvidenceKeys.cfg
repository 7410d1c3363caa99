SPECIFICATION MCSpec
CHECK_DEADLOCK FALSE
CONSTANTS
  k1 = k1
  k2 = k2
  d1 = d1
  d2 = d2
  h1 = h1
  h2 = h2
  i1 = i1
  i2 = i2
  o1 = o1
  o2 = o2
  t1 = t1
  t2 = t2
  t3 = t3
  c1 = c1
  c2 = c2
  a1 = a1
  a2 = a2
  x1 = x1
  x2 = x2
  x3 = x3
  n1 = n1
  n2 = n2
  b1 = b1
  b2 = b2
  e1 = e1
  p1 = p1
  p2 = p2
  p3 = p3
  p4 = p4
  NoId = NoId
  Keys = {k1, k2}
  Certs = {d1, d2}
  SignerOf <- MCSignerOf
  StartOf <- MCStartOf
  EndOf <- MCEndOf
  Offers = {h1, h2}
  Pairings = {h2}
  Installs = {i1, i2}
  Codes = {o1, o2}
  Pairs = {t1, t2, t3}
  Callers = {c1, c2}
  ShortLife = 1
  AccessLife = 1
  RefreshLife = 2
  MaxTime = 3
  Attempts = {a1, a2}
  Reports <- MCReports
  MaxActive = 1
  Workers = {c1, c2}
  MaxEvents = 5
  Evidence = {b1, b2, p1, p2, p3, p4}
  Contents = {x1, x2, x3}
  Small = {x2, x3}
  Names = {n1, n2}
  Bundles = {b1, b2}
  Nodes = {p1, p2, p3, p4}
  HomeOf <- MCHomeOf
  ManifestOf <- MCManifestOf
  RefsOf <- MCRefsOf
  EventIdOf <- MCEventIdOf
  SignedAt <- MCSignedAt
  ParentsOf <- MCParentsOf
  CitesOf <- MCCitesOf
  Uploaders = {c1, c2}
PROPERTY
  LastKeyKept
