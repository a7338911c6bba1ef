CONSTANTS
  MaxRecords = 3
  QueueCap = 1
  TransportCap = 2
  BatchMax = 2
  ChunkMax = 1
  MaxPending = 2
  MaxLanded = 2
SPECIFICATION LogSpec
INVARIANT LandsOrCounted
PROPERTY LogsEnd
CHECK_DEADLOCK FALSE
