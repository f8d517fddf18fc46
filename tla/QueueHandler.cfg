CONSTANTS
  NDevs = 1
  NCpus = 1
  ReadSize = 2
  MaxPieces = 2
  ZeroSector = {}
  Uses <- AnySignal
SPECIFICATION FairSpec
PROPERTIES
  StopEnds
CHECK_DEADLOCK FALSE
