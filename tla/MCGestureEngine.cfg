SPECIFICATION MCSpec
CONSTANTS
  Batches <- MCBatches
  MaxBatches = 12
  MaxReads = 2
  MayFail = TRUE
  MaxFails = 2
  MaxCalls = 3
INVARIANTS SwipeFollowsDeltas HoverTakesTwelve EnableIsSane SensorAsAsked
CHECK_DEADLOCK FALSE
