SPECIFICATION FairSpec
CONSTANTS
  NumAdapters = 2
  Cap = 1
  Retries = 1
  Limit = 1
  Window = 2
  MaxNotes = 2
  MaxTime = 2
  MaxReloads = 1
CHECK_DEADLOCK FALSE
INVARIANTS
  BreakerHolds
  DeliveredInOrder
PROPERTIES
  DispatchEnds
  StopEnds
