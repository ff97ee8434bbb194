SPECIFICATION Spec
CONSTANTS
  Clients = {x, y, z}
  x = x
  y = y
  z = z
  c1 = c1
  None = None
  Torn = Torn
  Mixed = Mixed
  Lost = Lost
  Broken = Broken
  Ids <- RaceIds
  Requests <- RaceRequests
  ValidNames = {"aaa", "bbb"}
  PermissiveAuth = FALSE
  ListTries = 1
  MaxRequests = 3
  Buckets = {"aaa"}
  EmptyObjects <- KeyIsEmpty
  Failures = {"write"}
SYMMETRY RaceSymmetry
INVARIANTS NoFalseAbsence 
CHECK_DEADLOCK FALSE
