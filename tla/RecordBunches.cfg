CONSTANTS
  MaxPkts = 2
  Window = 2
  LastTime = 6
  MaxIos = 5
SPECIFICATION RecordSpec
INVARIANTS
  BunchesBounded
  ReplaysTheRecording
