CONSTANTS
  Tries = 2
  Pieces = 3
  Backlog = 1
  Second = 2
  StopTimes = {2, 4}
  TracersMayFail = FALSE
SPECIFICATION FairSessionSpec
PROPERTIES
  TracingStops
