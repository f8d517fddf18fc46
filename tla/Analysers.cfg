SPECIFICATION Spec
CONSTANTS
  Second = 10
  disk = disk
  dm = dm
  p1 = p1
  p2 = p2
  none = none
  n1 = n1
  NoName = NoName
  Lower = disk
  Mapped = dm
  NoPid = none
  Devices <- MCDevices
  Pids <- MCPids
  Names <- MCNames
  Scenes <- MCScenes
  HashByPid = FALSE
  Wide = 1000
  Found <- MCFound
  PerProcess = TRUE
  ignore_remaps = FALSE
  Interval = 8
  t_astart = 0
  t_aend = 1000
  RangeDelta = 3
INVARIANTS DepthsFollow TrackedIsInFlight LatenciesAgree LivesExact TotalsAgree
