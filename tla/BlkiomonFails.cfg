SPECIFICATION Spec
CONSTANTS
  sda = sda
  sdb = sdb
  Cpus <- MCCpus
  Stream <- FastStream
  Devices <- MCDevices
  TRACE_HASH_SIZE = 2
  VacantMax = 1
  Micro = 4
  Buckets = 3
  First = 0
  Delta = 2
  Intervals = 2
  Losses = 1
INVARIANTS NothingMissing RowsWhole GathererLives
