SPECIFICATION Spec
CONSTANTS
  People = {ani}
  MaxUpdates = 2
  MaxRuns = 2
  MaxMailed = 1
  MaxTime = 3
  MaxEmail = 2
  None = None
  LIMIT = 1
  LEASE = 1
  PAUSE = 1
  WINDOW = 2
  RETENTION = 3
  STALL = 1
CHECK_DEADLOCK FALSE
INVARIANTS TypeOK PublishedOnce
PROPERTIES KeepsPromise
