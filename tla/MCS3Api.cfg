SPECIFICATION Spec
CONSTANTS
  Clients = {x, y}
  x = x
  y = y
  z = z
  c1 = c1
  None = None
  Torn = Torn
  Mixed = Mixed
  Lost = Lost
  Broken = Broken
  Ids <- MCIds
  Requests <- MCRequests
  ValidNames = {"aaa", "bbb"}
  PermissiveAuth = FALSE
  ListTries = 1
  MaxRequests = 3
  Buckets = {"aaa"}
  EmptyObjects = {}
  Failures = {"write", "crash"}
INVARIANTS NoFalseAbsence QuietReadIsWhole BucketsAreCreated ListingIsHonest
CHECK_DEADLOCK FALSE
