SPECIFICATION MCSpec
CONSTANTS
  Batches <- MCBatches
  MaxBatches = 1
  MaxReads = 1
  MayFail = TRUE
  MaxFails = 0
  MaxCalls = 0
INVARIANT ReturnsAGesture
CHECK_DEADLOCK FALSE
