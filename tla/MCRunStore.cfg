SPECIFICATION Spec
CONSTANTS
  c1 = c1
  c2 = c2
  Callers = {c1, c2}
  MaxDrift = 1
  MaxTime = 2
  Results <- MCResults
  NoResult = NoResult
CHECK_DEADLOCK FALSE
SYMMETRY MCSymmetry
INVARIANTS
  TypeOK
  TablesAgree
  AnswersHonest
PROPERTY
  ImplementsLifecycle
