SPECIFICATION Spec
CONSTANTS
  Chars = {Light, Gesture}
  NoChar = NoChar
  SIZE = 2
  MaxValues = 2
  MaxConns = 2
  MaxEvents = 3
  MayDisable = TRUE
  MayTimeout = FALSE
  MayFail = FALSE
CHECK_DEADLOCK FALSE
INVARIANT InFlightMeansPending
