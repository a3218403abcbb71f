SPECIFICATION Spec
CONSTANTS
  host = host
  ani = ani
  desk = desk
  phone = phone
  None = None
  Host = host
  Others = {ani}
  Panels = {desk, phone}
  Viewer <- Everyone
  Runs = {w1}
  Starts = {None, 2}
  Offsets = {1}
  WAIT = 1
  MaxTime = 2
  MaxRequests = 3
INVARIANTS TypeOK EditsAsReviewed ConflictMeansUnsaved
PROPERTIES RemindersCurrent
