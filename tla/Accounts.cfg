SPECIFICATION Spec
CONSTANTS
  Users = {ani, budi}
  Guest = Guest
  Names = {h1, h2}
  None = None
  MaxRequests = 4
  MaxParallel = 2
SYMMETRY Symmetric
CHECK_DEADLOCK FALSE
INVARIANTS TypeOK OneWallet HandlesStand
