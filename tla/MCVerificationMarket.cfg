SPECIFICATION MCSpec
CONSTANTS
  b = b
  owner = owner
  p = p
  q = q
  c1 = c1
  c2 = c2
  Bundles = {b}
  ClaimOrder <- MCTwo
  ReplayClaims <- MCReplay
  Persons = {owner, p, q}
  OwnerOf <- MCOwnerOf
  Nobody = Nobody
  MaxActive = 1
  Callers = {c1, c2}
  Unclosed <- MCUnclosed
  Duties = {"market", "assign", "decide", "attest"}
  Revocations <- MCRevocations
  MaxTime = 2
CHECK_DEADLOCK FALSE
SYMMETRY MCCallers
INVARIANTS
  TypeOK
  OpenReviewsBounded
  ClaimsWhole
  LogTellsRow
  VerdictCloses
PROPERTIES
  ImplementsLedger
