SPECIFICATION Spec
CONSTANTS
  Clients = {x, y}
  x = x
  y = y
  c1 = c1
  c2 = c2
  None = None
  Torn = Torn
  Mixed = Mixed
  Lost = Lost
  Broken = Broken
  Ids <- MCIds
  Requests <- MCRequests
  TooSmall <- MCTooSmall
  PartsRouted = TRUE
  MaxRequests = 4
  Failures = {"write", "crash"}
SYMMETRY ClientSymmetry
INVARIANTS NothingLost ListedPartsAreGone
CHECK_DEADLOCK FALSE
