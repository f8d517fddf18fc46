CONSTANTS
  Hosts = {"h1", "h2"}
  NCpus = 2
  NDevs = 2
  MaxData = 5
  MaxLen = 2
  BufSize = 2
  BufNr = 1
  MinBufNr = 2
  PageSize = 2
  Ways <- MCWays
  Chosen = "sound"
SPECIFICATION Spec
CHECK_DEADLOCK FALSE
INVARIANTS
  EndOfRunComplete
  FilesSound
  OneRunPerFile
PROPERTIES
  KnownBeforeCloses
  SessionEnds
