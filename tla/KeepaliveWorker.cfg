SPECIFICATION Spec
CONSTANTS
  Rooms = {r1}
  MaxRuns = 3
  MaxTime = 5
  MaxLate = 1
  MaxElsewhere = 1
  None = None
  Never <- NeverValue
  BEFORE = 0
  VALID = 1
  MARGIN = 0
  LEASE = 1
  RETRY = 2
  ATTEMPT = 3
  DAY = 4
  RETENTION = 2
SYMMETRY RoomSymmetry
CHECK_DEADLOCK FALSE
INVARIANTS TypeOK NothingForgotten VerdictsTrue OneOutstanding
