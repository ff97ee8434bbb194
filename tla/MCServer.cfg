SPECIFICATION ServerSpec
CONSTANTS
  g1 = g1
  g2 = g2
  Callers = {g1, g2}
  Schemes <- MCSchemes
  Envs <- MCEnvs
  Flags <- MCFlags
  MaxCalls = 4
  None = None
  MaxInt = 1023
  Unset = Unset
  Bad = Bad
INVARIANTS PanicsOnOverflowOnly CleanExit OneEncoder
PROPERTIES ExitsAfterSignal
CHECK_DEADLOCK FALSE
