CONSTANTS
  PipeCpus = {c1, c2}
  pipe_batch = 2
  MaxSeq = 3
  MaxPipeTime = 3
  Monotone = TRUE
  BeforeGenesis = FALSE
SPECIFICATION PipeSpec
INVARIANTS
  EveryEventOnce
  InSequence
  SkipsExact
