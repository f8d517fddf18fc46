SPECIFICATION Spec
CONSTANTS
  sda = sda
  sdb = sdb
  Longest = 3
  Cuts = {0, 1, 2}
  Files <- MCFiles
  HEADER = 2
  PAGE = 2
  DEF_LEN = 6
  MARGIN = 4
  SECOND = 2
  SECTOR = 512
  MAX_DEVICES_PER_TRACE = 2
  graph_height = 5
  graph_width = 5
  Wide = 1000000
  Traces = 1
  HISTORY = 2
  Batch = 2
INVARIANTS
  VerdictExact
  EveryRecordRead
  DotsInside
  FramesShow
