SPECIFICATION Spec
CONSTANTS
  DataShards = 2
  ParityShards = 1
  None = None
  Garbage = Garbage
  Torn = Torn
  Unknown = Unknown
  empty = empty
  short = short
  full = full
  long = long
  w1 = w1
  w2 = w2
  r1 = r1
  a = a
  b = b
  Writers = {w1}
  Readers = {r1}
  Objects = {a}
  Contents = {empty, long}
  Size <- MCSize
  StripeSize = 3
  MaxStripe = 1
  Failures = {"crash"}
  FaultKinds = {"missing", "payload"}
  FaultBudget = 1
  MaxMutations = 2
INVARIANTS TypeOK ReadExact ReadAvailable
