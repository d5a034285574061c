SPECIFICATION MCSpec
CONSTANTS
  LETIMER_PERIOD_MS = 1000
  ACTUAL_CLOCK_FREQ = 8
  WORD <- MCWord
  Waits <- MCWaits
  Prompt = FALSE
  Snug = TRUE
  MaxPeriods = 3
INVARIANTS TypeOK WaitIsLongEnough ShortOnlyAcrossReload PeriodsAddUp StampIsClose
PROPERTIES WaitsEndInTime
CHECK_DEADLOCK FALSE
