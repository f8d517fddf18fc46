CONSTANTS
  NDevs = 2
  NCpus = 1
  ReadSize = 3
  MaxPieces = 5
  ZeroSector = {2}
  Uses <- MCUses
SPECIFICATION FairSpec
INVARIANTS
  EntriesConserved
  PiecesConserved
PROPERTIES
  StreamKept
  StopEnds
