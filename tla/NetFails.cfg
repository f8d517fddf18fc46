CONSTANTS
  Hosts = {"h1", "h2"}
  NCpus = 2
  NDevs = 2
  MaxData = 5
  MaxLen = 2
  BufSize = 1
  BufNr = 1
  MinBufNr = 2
  PageSize = 2
  Ways <- MCWays
  Chosen = "unsound"
SPECIFICATION Spec
CHECK_DEADLOCK FALSE
INVARIANTS EndOfRunComplete OneRunPerFile FilesSound ServerStays
PROPERTIES KnownBeforeCloses CloseAcknowledged
