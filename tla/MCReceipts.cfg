SPECIFICATION MCFair
CONSTANTS
  b1 = b1
  b2 = b2
  owner = owner
  p = p
  q = q
  k1 = k1
  k2 = k2
  attempt = attempt
  Bundles = {b1, b2}
  Claims = {"kernel_accepted"}
  Persons = {owner, p, q}
  OwnerOf <- MCOwnerOf
  AttemptOf <- MCAttemptOf
  DepsOf <- MCDepsOf
  Public = {b2}
  IdOf <- MCIdOf
  MaxActive = 2
  Keys = {k1, k2}
  ActivatedAt <- MCActivatedAt
  NoKey = NoKey
  NoBundle = NoBundle
  c1 = c1
  c2 = c2
  Callers = {c1, c2}
  Revocable = {q}
  MaxEvents = 2
  MaxTime = 2
CHECK_DEADLOCK FALSE
INVARIANTS
  TypeOK
PROPERTIES
  BlockHolds
  RetiredKeysSilent
  EndedHolds
  ImplementsBook
  ReceiptsQueued
