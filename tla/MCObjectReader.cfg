SPECIFICATION Spec
CONSTANTS
  Configs <- MCConfigs
  Sizes = {0, 1, 3, 5}
  Buffers = {1, 2, 4}
  MaxLost = 3
INVARIANTS StreamIsPrefix RestartKeepsAvailability SizeIsExact
PROPERTIES StreamEnds
CHECK_DEADLOCK FALSE
