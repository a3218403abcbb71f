SPECIFICATION Spec
CONSTANTS
  ani = ani
  budi = budi
  left = left
  right = right
  Demo = Demo
  Guest = Guest
  None = None
  People <- MCPeople
  Slots <- MCSlots
  MaxCalls = 2
  MaxTerms = 1
SYMMETRY Symmetry
INVARIANTS TypeOK OpenKeepsLock UnverifiedKeepsLock SignedAsReviewed
