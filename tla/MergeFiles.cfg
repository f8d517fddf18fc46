CONSTANTS
  NCpus = 3
  rb_batch = 1
  MaxRecords = 2
  MaxTime = 2
  Kinds = {"event", "notify", "garbage"}
  StopwatchEnd = 1
  MaySignal = TRUE
SPECIFICATION Spec
INVARIANTS
  AllHandled
PROPERTIES
  InTimeOrder
