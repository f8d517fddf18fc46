SPECIFICATION FairSpec
CONSTANTS
  Files = {f1, f2}
  NAios = 1
  Iterations = 1
  NBunches = 1
  MaxBunch = 2
  MaySignal = TRUE
CHECK_DEADLOCK FALSE
INVARIANTS
  AiosConserved
  NeverBothWait
  TokensConserved
  ReleaseSafe
PROPERTIES
  NotStarved
