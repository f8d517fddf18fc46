CONSTANTS
  NCpus = 2
  MaxRelay = 1
  MaxSignals = 1
  Uses <- FailingUses
SPECIFICATION FairSpec
CHECK_DEADLOCK FALSE
INVARIANTS
  ReadWhileTraced
PROPERTIES
  DepartureEnds
  EarlySignalStops
