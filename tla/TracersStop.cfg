CONSTANTS
  NCpus = 2
  MaxRelay = 2
  MaxSignals = 2
  Uses <- MCUses
SPECIFICATION FairSpec
CHECK_DEADLOCK FALSE
INVARIANTS
  EveryCpuHasReader
  NothingLeftBehind
  NoUseAfterFree
PROPERTIES
  SignalStops
