CONSTANTS
  Tries = 2
  Pieces = 3
  Backlog = 2
  Second = 2
  StopTimes = {2, 4}
  TracersMayFail = TRUE
SPECIFICATION FairSessionSpec
INVARIANTS
  AlarmArmed
PROPERTIES
  ServerFreed
