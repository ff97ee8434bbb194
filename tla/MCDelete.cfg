SPECIFICATION RaceSpec
CONSTANTS
  DataShards = 2
  ParityShards = 1
  None = None
  Garbage = Garbage
  Torn = Torn
  Unknown = Unknown
  empty = empty
  short = short
  full = full
  long = long
  w1 = w1
  w2 = w2
  r1 = r1
  a = a
  b = b
  Writers = {w1, w2}
  Readers = {}
  Objects = {a}
  Contents = {short, long}
  Size <- MCSize
  StripeSize = 3
  MaxStripe = 1
  Failures = {}
  FaultKinds = {}
  FaultBudget = 0
  MaxMutations = 3
INVARIANTS DeleteConverges
PROPERTIES DeleteCompletes
CHECK_DEADLOCK FALSE
