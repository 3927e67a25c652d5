CONSTANTS
  Worker = {w1, w2}
  BufferSize = 2
  BatchSize = 2
  MaxEvents = 6
SPECIFICATION RecorderSpec
INVARIANTS
  EveryEventAccounted
  UnflushedIsTrue
PROPERTIES
  EventsSettle
  CloseDrains
CHECK_DEADLOCK FALSE
