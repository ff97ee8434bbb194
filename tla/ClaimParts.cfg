SPECIFICATION Spec
CONSTANTS
  Clients = {x}
  x = x
  c1 = c1
  c2 = c2
  None = None
  Torn = Torn
  Mixed = Mixed
  Lost = Lost
  Broken = Broken
  Ids <- MCIds
  Requests <- MCRequests
  TooSmall <- MCTooSmall
  PartsRouted = FALSE
  MaxRequests = 4
  Failures = {}
INVARIANT PartsAreStored
CHECK_DEADLOCK FALSE
