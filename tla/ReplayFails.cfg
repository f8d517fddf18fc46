CONSTANTS
  Files = {f1, f2}
  NAios = 1
  Iterations = 2
  NBunches = 1
  MaxBunch = 1
  MaySignal = TRUE
SPECIFICATION FairSpec
CHECK_DEADLOCK FALSE
INVARIANTS
  IterationsInStep
  SomethingToDo
PROPERTIES
  ReclaimerEnds
  SignalQuits
